-------------------------- MODULE AnthropicProofs --------------------------
(***************************************************************************)
(* Proofs about AnthropicStream, for every policy of retries, every list   *)
(* of frames and every cut of the body into chunks.                        *)
(*                                                                         *)
(* The retry loop: SleptInv and AttemptInv relate the attempts to the      *)
(* pauses before them.  The stream: what is delivered, what is pending,    *)
(* what the buffer and the wire still hold make up the whole answer        *)
(* (Standing), because next_frame finds in a piece of the body its first   *)
(* frame or nothing (CutBody), and so push leaves a piece of the body      *)
(* again (DrainKeeps).  The recursive functions are unfolded by induction  *)
(* over the natural numbers (Recursion).                                   *)
(***************************************************************************)
EXTENDS AnthropicStream, SequenceTheorems, WellFoundedInduction, TLAPS

-----------------------------------------------------------------------------
\* Induction and recursion over the natural numbers

\* A set of natural numbers that is not empty has a least element.
LEMMA Least ==
  ASSUME NEW T \in SUBSET Nat, T # {}
  PROVE  \E m \in T : \A k \in T : m <= k
<1> DEFINE R == OpToRel(<, Nat)
<1>1. IsWellFoundedOn(R, Nat)
  BY NatLessThanWellFounded
<1>2. PICK m \in T : \A k \in T : ~(<<k, m>> \in R)
  BY <1>1, WFMin
<1>3. \A k \in T : k < m => <<k, m>> \in R
  BY DEF OpToRel
<1> HIDE DEF R
<1>4. \A k \in T : k \in Nat /\ m \in Nat
  OBVIOUS
<1>5. \A k \in T : ~(k < m)
  BY <1>2, <1>3
<1>6. \A k \in T : m <= k
  BY <1>4, <1>5
<1> QED BY <1>6

\* Induction over the natural numbers, with the claim given as a set.
LEMMA Induction ==
  ASSUME NEW T, 0 \in T, \A n \in Nat : n \in T => n + 1 \in T
  PROVE  Nat \subseteq T
<1> SUFFICES ASSUME Nat \ T # {} PROVE FALSE
  OBVIOUS
<1>1. PICK m \in Nat \ T : \A k \in Nat \ T : m <= k
  BY Least
<1>2. m # 0 /\ m - 1 \in Nat /\ m - 1 \in T
  BY <1>1
<1> QED BY <1>2

\* A function that is e at 0 and is made by G step by step.
StepsOf(S, n) == [1 .. n -> [S -> S]]
Made(f, S, n, e, G) == f \in [0 .. n -> S] /\ f[0] = e /\ \A i \in 1 .. n : f[i] = G[i][f[i - 1]]
LEMMA Recursion ==
  ASSUME NEW S, NEW n \in Nat, NEW e \in S, NEW G \in StepsOf(S, n)
  PROVE  \E f : Made(f, S, n, e, G)
<1> USE DEF StepsOf
<1> DEFINE Is(f, k) == f[0] = e /\ \A i \in 1 .. k : f[i] = G[i][f[i - 1]]
           T == {k \in Nat : k <= n => \E f \in [0 .. k -> S] : Is(f, k)}
<1>1. 0 \in T
  <2> DEFINE f == [i \in 0 .. 0 |-> e]
  <2>1. f \in [0 .. 0 -> S] /\ f[0] = e
    OBVIOUS
  <2>2. \A i \in 1 .. 0 : FALSE
    OBVIOUS
  <2> HIDE DEF f
  <2>3. Is(f, 0)
    BY <2>1, <2>2
  <2> QED BY <2>1, <2>3
<1>2. ASSUME NEW k \in Nat, k \in T, k + 1 <= n PROVE \E f \in [0 .. k + 1 -> S] : Is(f, k + 1)
  <2>1. PICK f \in [0 .. k -> S] : Is(f, k)
    BY <1>2
  <2> DEFINE g == [i \in 0 .. k + 1 |-> IF i <= k THEN f[i] ELSE G[k + 1][f[k]]]
  <2>2. k \in 0 .. k /\ k + 1 \in 1 .. n
    BY <1>2
  <2>3. f[k] \in S /\ G[k + 1] \in [S -> S]
    BY <2>2
  <2>4. G[k + 1][f[k]] \in S
    BY <2>3
  <2>5. g \in [0 .. k + 1 -> S]
    <3>1. \A i \in 0 .. k + 1 : i <= k => f[i] \in S
      OBVIOUS
    <3> QED BY <2>4, <3>1
  <2>6. /\ \A i \in 0 .. k : g[i] = f[i]
        /\ g[k + 1] = G[k + 1][f[k]]
    OBVIOUS
  <2> HIDE DEF g
  <2>7. ASSUME NEW i \in 1 .. k + 1 PROVE g[i] = G[i][g[i - 1]]
    <3>1. CASE i <= k
      <4>1. i \in 1 .. k /\ i \in 0 .. k /\ i - 1 \in 0 .. k
        BY <3>1
      <4> QED BY <2>1, <2>6, <4>1
    <3>2. CASE i = k + 1
      BY <2>6, <3>2
    <3> QED BY <3>1, <3>2
  <2>8. g[0] = e
    BY <2>1, <2>6
  <2> QED BY <2>5, <2>7, <2>8
<1>3. n \in T
  <2> HIDE DEF Is
  <2>1. \A k \in Nat : k \in T => k + 1 \in T
    BY <1>2
  <2> HIDE DEF T
  <2> QED BY <1>1, <2>1, Induction
<1> QED BY <1>3 DEF Made

-----------------------------------------------------------------------------
\* The pauses

\* The shift doubles with every attempt, below the width.
LEMMA Doubling ==
  /\ Shifted \in [0 .. SHIFT_WIDTH - 1 -> Nat]
  /\ \A n \in 0 .. SHIFT_WIDTH - 1 : Shifted[n] = IF n = 0 THEN 1 ELSE 2 * Shifted[n - 1]
<1> DEFINE N == SHIFT_WIDTH - 1
           G == [i \in 1 .. N |-> [x \in Nat |-> 2 * x]]
<1>1. N \in Nat
  BY RetryPolicy
<1>2. PICK f \in [0 .. N -> Nat] : f[0] = 1 /\ \A i \in 1 .. N : f[i] = G[i][f[i - 1]]
  <2> DEFINE S == Nat
             e == 1
  <2>1. \A i \in 1 .. N : G[i] \in [S -> S]
    OBVIOUS
  <2>2. G \in [1 .. N -> [S -> S]] /\ e \in S
    BY <2>1
  <2>3. G \in StepsOf(S, N)
    BY <2>2 DEF StepsOf
  <2> HIDE DEF G, N, S, e
  <2>4. \E f : Made(f, S, N, e, G)
    BY <1>1, <2>2, <2>3, Recursion
  <2> QED BY <2>4 DEF S, e, Made
<1>3. f = [n \in 0 .. N |-> IF n = 0 THEN 1 ELSE 2 * f[n - 1]]
  <2>1. ASSUME NEW i \in 0 .. N PROVE f[i] = IF i = 0 THEN 1 ELSE 2 * f[i - 1]
    <3>1. CASE i = 0
      BY <1>2, <3>1
    <3>2. CASE i # 0
      <4>1. i \in 1 .. N /\ i - 1 \in 0 .. N
        BY <1>1, <3>2
      <4>2. G[i][f[i - 1]] = 2 * f[i - 1]
        BY <4>1
      <4> QED BY <1>2, <3>2, <4>1, <4>2
    <3> QED BY <3>1, <3>2
  <2> QED BY <2>1
<1>4. Shifted = [n \in 0 .. N |-> IF n = 0 THEN 1 ELSE 2 * Shifted[n - 1]]
  BY <1>3 DEF Shifted
<1>5. \A n \in 0 .. N : Shifted[n] = IF n = 0 THEN 1 ELSE 2 * Shifted[n - 1]
  BY <1>4
<1> HIDE DEF N
<1> DEFINE T == {n \in Nat : n <= N => Shifted[n] \in Nat}
<1>6. 0 \in T
  BY <1>1, <1>5
<1>7. ASSUME NEW n \in Nat, n \in T PROVE n + 1 \in T
  <2> SUFFICES ASSUME n + 1 <= N PROVE Shifted[n + 1] \in Nat
    OBVIOUS
  <2> HIDE DEF G
  <2>1. n + 1 \in 0 .. N /\ n + 1 # 0 /\ (n + 1) - 1 = n /\ n <= N
    BY <1>1
  <2>2. Shifted[n] \in Nat
    BY <1>7, <2>1
  <2>3. Shifted[n + 1] = 2 * Shifted[n]
    BY <1>5, <2>1
  <2> QED BY <2>2, <2>3
<1>8. Nat \subseteq T
  <2> HIDE DEF T
  <2> QED BY <1>6, <1>7, Induction
<1> QED BY <1>1, <1>4, <1>5, <1>8 DEF N

\* The pause before attempt n + 1.
Pause(n) ==
  LET delay == INITIAL_BACKOFF * Shifted[n - 1]
  IN  IF delay < MAX_BACKOFF THEN delay ELSE MAX_BACKOFF

\* No pause passes the maximum or is shorter than the one before it.
LEMMA PausesGrow ==
  ASSUME NEW n \in 1 .. SHIFT_WIDTH
  PROVE  Pause(n) \in Nat /\ Pause(n) <= MAX_BACKOFF /\ (n > 1 => Pause(n - 1) <= Pause(n))
<1>1. SHIFT_WIDTH \in Nat /\ INITIAL_BACKOFF \in Nat /\ MAX_BACKOFF \in Nat
  BY RetryPolicy
<1> DEFINE x(k) == Shifted[k - 1]
<1>2. \A k \in 1 .. SHIFT_WIDTH : x(k) \in Nat
  BY <1>1, Doubling
<1>3. \A k \in 1 .. SHIFT_WIDTH : INITIAL_BACKOFF * x(k) \in Nat
  BY <1>1, <1>2
<1>4. Pause(n) \in Nat /\ Pause(n) <= MAX_BACKOFF
  BY <1>1, <1>3 DEF Pause
<1>5. ASSUME n > 1 PROVE Pause(n - 1) <= Pause(n)
  <2>1. n - 1 \in 1 .. SHIFT_WIDTH /\ n - 1 \in 0 .. SHIFT_WIDTH - 1
    BY <1>1, <1>5
  <2>2. x(n) = 2 * x(n - 1)
    BY <1>5, <2>1, Doubling
  <2> HIDE DEF x
  <2>3. INITIAL_BACKOFF * (2 * x(n - 1)) = 2 * (INITIAL_BACKOFF * x(n - 1))
    BY <1>1, <1>2, <2>1
  <2>4. INITIAL_BACKOFF * x(n - 1) <= INITIAL_BACKOFF * x(n)
    BY <1>3, <2>1, <2>2, <2>3
  <2>5. \A k \in {n - 1, n} : Pause(k) = IF INITIAL_BACKOFF * x(k) < MAX_BACKOFF
                                         THEN INITIAL_BACKOFF * x(k) ELSE MAX_BACKOFF
    BY DEF Pause, x
  <2> QED BY <1>1, <1>3, <2>1, <2>4, <2>5
<1> QED BY <1>4, <1>5

-----------------------------------------------------------------------------
\* What is on the wire

\* A line of the stream, and what it is made of with the ends of lines.
Text == STRING \ {"CR", "LF"}
Token == Text \cup {"CR", "LF"}

\* The lines of a frame on the wire, token by token.
LEMMA LinesAre ==
  ASSUME NEW F \in Seq(Text), NEW end \in {<<"LF">>, <<"CR", "LF">>}
  PROVE  /\ Lines(F, end) \in Seq(Token)
         /\ Len(Lines(F, end)) = (1 + Len(end)) * Len(F)
         /\ \A i \in 1 .. (1 + Len(end)) * Len(F) :
              Lines(F, end)[i] = IF (i - 1) % (1 + Len(end)) = 0
                                 THEN F[(i - 1) \div (1 + Len(end)) + 1]
                                 ELSE end[(i - 1) % (1 + Len(end))]
<1> DEFINE w == 1 + Len(end)
           L == Lines(F, end)
<1>1. Len(F) \in Nat /\ \A i \in 1 .. Len(F) : F[i] \in Token
  BY DEF Token
<1>2. (w = 2 /\ end = <<"LF">>) \/ (w = 3 /\ end = <<"CR", "LF">>)
  <2>1. Len(<<"LF">>) = 1 /\ Len(<<"CR", "LF">>) = 2
    OBVIOUS
  <2>2. CASE end = <<"LF">>
    <3>1. Len(end) = 1
      BY <2>1, <2>2
    <3> QED BY <2>2, <3>1
  <2>3. CASE end = <<"CR", "LF">>
    <3>1. Len(end) = 2
      BY <2>1, <2>3
    <3> QED BY <2>3, <3>1
  <2> QED BY <2>2, <2>3
<1>3. w * Len(F) \in Nat
  BY <1>1, <1>2
<1>4. L = [i \in 1 .. w * Len(F) |->
             IF (i - 1) % w = 0 THEN F[(i - 1) \div w + 1] ELSE end[(i - 1) % w]]
  BY DEF Lines
<1> HIDE DEF w, L
<1>5. ASSUME NEW i \in 1 .. w * Len(F)
      PROVE  (IF (i - 1) % w = 0 THEN F[(i - 1) \div w + 1] ELSE end[(i - 1) % w]) \in Token
  <2>1. CASE w = 2 /\ end = <<"LF">>
    <3>1. (i - 1) \div 2 + 1 \in 1 .. Len(F) /\ (i - 1) % 2 \in {0, 1}
      BY <1>1, <1>5, <2>1
    <3>2. CASE (i - 1) % w = 0
      BY <1>1, <2>1, <3>1, <3>2
    <3>3. CASE (i - 1) % w # 0
      <4>1. (i - 1) % w = 1
        BY <2>1, <3>1, <3>3
      <4>2. end[(i - 1) % w] = "LF"
        BY <2>1, <4>1
      <4> QED BY <3>3, <4>2 DEF Token
    <3> QED BY <3>2, <3>3
  <2>2. CASE w = 3 /\ end = <<"CR", "LF">>
    <3>1. (i - 1) \div 3 + 1 \in 1 .. Len(F) /\ (i - 1) % 3 \in {0, 1, 2}
      BY <1>1, <1>5, <2>2
    <3>2. CASE (i - 1) % w = 0
      BY <1>1, <2>2, <3>1, <3>2
    <3>3. CASE (i - 1) % w # 0
      <4>1. (i - 1) % w \in {1, 2}
        BY <2>2, <3>1, <3>3
      <4>2. end[1] = "CR" /\ end[2] = "LF"
        BY <2>2
      <4>3. end[(i - 1) % w] \in {"CR", "LF"}
        BY <4>1, <4>2
      <4> QED BY <3>3, <4>3 DEF Token
    <3> QED BY <3>2, <3>3
  <2> QED BY <1>2, <2>1, <2>2
<1>6. L \in [1 .. w * Len(F) -> Token]
  BY <1>4, <1>5
<1>7. L \in Seq(Token) /\ Len(L) = w * Len(F)
  BY <1>3, <1>6
<1> QED BY <1>4, <1>7 DEF w, L

\* What ends the frame that k - 1 frames follow.
Blank(end, closed, k) == IF k > 1 \/ closed THEN end ELSE <<>>

\* The rendered tails of the list, the longest one is the body.
Bodies(list, end, closed) ==
  LET last[k \in 0 .. Len(list)] ==
        IF k = 0 THEN <<>>
        ELSE Lines(list[Len(list) - k + 1], end) \o Blank(end, closed, k) \o last[k - 1]
  IN  last

\* The body from each frame on: that frame, its end, and the bodies after it.
LEMMA BodiesAre ==
  ASSUME NEW list \in Seq(Seq(Text)), NEW end \in {<<"LF">>, <<"CR", "LF">>}, NEW closed
  PROVE  LET B == Bodies(list, end, closed) IN
         /\ Render(list, end, closed) = B[Len(list)]
         /\ B \in [0 .. Len(list) -> Seq(Token)]
         /\ B[0] = <<>>
         /\ \A k \in 1 .. Len(list) :
              B[k] = Lines(list[Len(list) - k + 1], end) \o Blank(end, closed, k) \o B[k - 1]
<1> DEFINE N == Len(list)
           B == Bodies(list, end, closed)
           H(k) == Lines(list[N - k + 1], end) \o Blank(end, closed, k)
           S == Seq(Token)
           e == <<>>
           G == [k \in 1 .. N |-> [r \in S |-> H(k) \o r]]
<1>1. N \in Nat /\ e \in S
  OBVIOUS
<1>2. ASSUME NEW k \in 1 .. N PROVE H(k) \in S
  <2>1. list[N - k + 1] \in Seq(Text)
    BY <1>1
  <2>2. end \in S /\ e \in S
    <3>1. <<"LF">> \in Seq(Token)
      BY DEF Token
    <3>2. <<"CR", "LF">> \in Seq(Token)
      BY DEF Token
    <3>3. CASE end = <<"LF">>
      BY <1>1, <3>1, <3>3
    <3>4. CASE end = <<"CR", "LF">>
      BY <1>1, <3>2, <3>4
    <3> QED BY <3>3, <3>4
  <2>3. Lines(list[N - k + 1], end) \in S
    BY <2>1, LinesAre
  <2>4. Blank(end, closed, k) \in S
    BY <2>2 DEF Blank
  <2> QED BY <2>3, <2>4, ConcatProperties
<1> HIDE DEF H
<1>3. \A k \in 1 .. N, r \in S : H(k) \o r \in S
  BY <1>2, ConcatProperties
<1>4. G \in StepsOf(S, N)
  BY <1>3 DEF StepsOf
<1>5. PICK f : Made(f, S, N, e, G)
  <2> HIDE DEF S, N, e, G
  <2> QED BY <1>1, <1>4, Recursion
<1>6. f = [k \in 0 .. N |-> IF k = 0 THEN e ELSE H(k) \o f[k - 1]]
  <2>1. ASSUME NEW k \in 0 .. N PROVE f[k] = IF k = 0 THEN e ELSE H(k) \o f[k - 1]
    <3>1. CASE k = 0
      BY <1>5, <3>1 DEF Made
    <3>2. CASE k # 0
      <4>1. k \in 1 .. N /\ k - 1 \in 0 .. N
        BY <1>1, <3>2
      <4>2. G[k][f[k - 1]] = H(k) \o f[k - 1]
        BY <1>5, <4>1 DEF Made
      <4> QED BY <1>5, <3>2, <4>1, <4>2 DEF Made
    <3> QED BY <3>1, <3>2
  <2>2. f = [k \in 0 .. N |-> f[k]]
    BY <1>5 DEF Made
  <2> QED BY <2>1, <2>2
<1>7. B = [k \in 0 .. N |-> IF k = 0 THEN e ELSE H(k) \o B[k - 1]]
  BY <1>6 DEF Bodies, H
<1>8. Render(list, end, closed) = B[N]
  BY DEF Render, Bodies, Blank
<1> HIDE DEF B, G
<1>9. B[0] = e /\ \A k \in 1 .. N : B[k] = H(k) \o B[k - 1]
  <2>1. 0 \in 0 .. N /\ \A k \in 1 .. N : k \in 0 .. N /\ k # 0
    BY <1>1
  <2>2. B[0] = e
    BY <1>7, <2>1
  <2>3. \A k \in 1 .. N : B[k] = H(k) \o B[k - 1]
    BY <1>7, <2>1
  <2> QED BY <2>2, <2>3
<1>10. B \in [0 .. N -> S]
  <2> DEFINE T == {k \in Nat : k <= N => B[k] \in S}
  <2> HIDE DEF S
  <2>1. 0 \in T
    BY <1>1, <1>9
  <2>2. ASSUME NEW k \in Nat, k \in T PROVE k + 1 \in T
    <3>1. SUFFICES ASSUME k + 1 <= N PROVE B[k + 1] \in S
      OBVIOUS
    <3>2. k + 1 \in 1 .. N /\ B[k] \in S /\ (k + 1) - 1 = k
      BY <1>1, <2>2, <3>1
    <3>3. B[k + 1] = H(k + 1) \o B[k]
      BY <1>9, <3>2
    <3> QED BY <1>3, <3>2, <3>3
  <2>3. Nat \subseteq T
    <3> HIDE DEF T
    <3> QED BY <2>1, <2>2, Induction
  <2>4. \A k \in 0 .. N : B[k] \in S
    BY <1>1, <2>3
  <2> QED BY <1>7, <2>4
<1>11. \A k \in 1 .. N :
          B[k] = Lines(list[N - k + 1], end) \o Blank(end, closed, k) \o B[k - 1]
  BY <1>9 DEF H
<1> QED BY <1>8, <1>9, <1>10, <1>11 DEF B

-----------------------------------------------------------------------------
\* Cutting the buffer

NoneIn(sep, b) == \A i \in DOMAIN b : ~Occurs(sep, b, i)
FirstIn(sep, b, p) ==
  p \in DOMAIN b /\ Occurs(sep, b, p) /\ \A i \in DOMAIN b : Occurs(sep, b, i) => p <= i
CutAt(b, p, w) == <<[frame |-> SubSeq(b, 1, p - 1), rest |-> SubSeq(b, p + w, Len(b))]>>

\* next_frame cuts at the first LF LF, and only without one at the first CR LF CR LF.
LEMMA NextFrame ==
  ASSUME NEW b \in Seq(Token)
  PROVE  /\ NoneIn(<<"LF", "LF">>, b) /\ NoneIn(<<"CR", "LF", "CR", "LF">>, b)
              => next_frame(b) = <<>>
         /\ \A p : FirstIn(<<"LF", "LF">>, b, p) => next_frame(b) = CutAt(b, p, 2)
         /\ \A p : NoneIn(<<"LF", "LF">>, b) /\ FirstIn(<<"CR", "LF", "CR", "LF">>, b, p)
                   => next_frame(b) = CutAt(b, p, 4)
<1> DEFINE at(sep) == {i \in DOMAIN b : Occurs(sep, b, i)}
           lf == <<"LF", "LF">>
           crlf == <<"CR", "LF", "CR", "LF">>
           first(sep) == CHOOSE i \in at(sep) : \A j \in at(sep) : i <= j
           cut(sep) == <<[frame |-> SubSeq(b, 1, first(sep) - 1),
                          rest |-> SubSeq(b, first(sep) + Len(sep), Len(b))]>>
<1>1. next_frame(b) = IF at(lf) # {} THEN cut(lf) ELSE IF at(crlf) # {} THEN cut(crlf) ELSE <<>>
  BY DEF next_frame
<1>2. Len(lf) = 2 /\ Len(crlf) = 4
  OBVIOUS
<1> HIDE DEF lf, crlf
<1>3. \A sep : NoneIn(sep, b) <=> at(sep) = {}
  BY DEF NoneIn
<1>4. ASSUME NEW sep, NEW p, FirstIn(sep, b, p) PROVE at(sep) # {} /\ first(sep) = p
  <2>1. p \in at(sep) /\ \A j \in at(sep) : p <= j
    BY <1>4 DEF FirstIn
  <2>2. at(sep) \subseteq Int
    OBVIOUS
  <2> HIDE DEF at
  <2>3. first(sep) \in at(sep) /\ \A j \in at(sep) : first(sep) <= j
    BY <2>1
  <2>4. first(sep) <= p /\ p <= first(sep)
    BY <2>1, <2>3
  <2> QED BY <2>1, <2>2, <2>3, <2>4
<1> HIDE DEF at, first
<1>5. NoneIn(lf, b) /\ NoneIn(crlf, b) => next_frame(b) = <<>>
  BY <1>1, <1>3
<1>6. ASSUME NEW p, FirstIn(lf, b, p) PROVE next_frame(b) = CutAt(b, p, 2)
  BY <1>1, <1>2, <1>4, <1>6 DEF CutAt
<1>7. ASSUME NEW p, NoneIn(lf, b), FirstIn(crlf, b, p) PROVE next_frame(b) = CutAt(b, p, 4)
  BY <1>1, <1>2, <1>3, <1>4, <1>7 DEF CutAt
<1> QED BY <1>5, <1>6, <1>7 DEF lf, crlf

\* Whatever it returns is a cut of the buffer, shorter by the separator.
LEMMA NextFrameCuts ==
  ASSUME NEW b \in Seq(Token), next_frame(b) # <<>>
  PROVE  \E p \in 1 .. Len(b), w \in {2, 4} : p + w <= Len(b) + 1 /\ next_frame(b) = CutAt(b, p, w)
<1>1. Len(b) \in Nat /\ DOMAIN b = 1 .. Len(b)
  OBVIOUS
<1>2. \A sep : ~NoneIn(sep, b) => \E p : FirstIn(sep, b, p)
  <2> SUFFICES ASSUME NEW sep, ~NoneIn(sep, b) PROVE \E p : FirstIn(sep, b, p)
    OBVIOUS
  <2> DEFINE T == {i \in DOMAIN b : Occurs(sep, b, i)}
  <2>1. T \in SUBSET Nat /\ T # {}
    BY <1>1 DEF NoneIn
  <2>2. \E m \in T : \A k \in T : m <= k
    <3> HIDE DEF T
    <3> QED BY <2>1, Least
  <2> QED BY <2>2 DEF FirstIn
<1>3. ASSUME NEW p, FirstIn(<<"LF", "LF">>, b, p) PROVE p \in 1 .. Len(b) /\ p + 2 <= Len(b) + 1
  BY <1>1, <1>3 DEF FirstIn, Occurs
<1>4. ASSUME NEW p, FirstIn(<<"CR", "LF", "CR", "LF">>, b, p)
      PROVE  p \in 1 .. Len(b) /\ p + 4 <= Len(b) + 1
  BY <1>1, <1>4 DEF FirstIn, Occurs
<1>5. CASE \E p : FirstIn(<<"LF", "LF">>, b, p)
  BY <1>3, <1>5, NextFrame
<1>6. CASE NoneIn(<<"LF", "LF">>, b) /\ \E p : FirstIn(<<"CR", "LF", "CR", "LF">>, b, p)
  BY <1>4, <1>6, NextFrame
<1> QED BY <1>2, <1>5, <1>6, NextFrame

-----------------------------------------------------------------------------
\* Draining the buffer

\* The suffixes of the buffer are what push can be left with.
LEMMA SuffixesAre ==
  ASSUME NEW b \in Seq(Token)
  PROVE  /\ b \in Suffixes(b)
         /\ \A c \in Suffixes(b) : c \in Seq(Token) /\ Len(c) <= Len(b)
         /\ \A c \in Suffixes(b), q \in 1 .. Len(b) + 1 :
              q <= Len(c) + 1 => SubSeq(c, q, Len(c)) \in Suffixes(b)
<1> DEFINE n == Len(b)
<1>1. n \in Nat /\ \A i \in 1 .. n : b[i] \in Token
  OBVIOUS
<1>2. b \in Suffixes(b)
  <2>1. CASE n = 0
    <3>1. b = <<>>
      BY <2>1
    <3> QED BY <3>1 DEF Suffixes
  <2>2. CASE n # 0
    <3>1. 1 \in 1 .. n /\ SubSeq(b, 1, n) = b
      BY <1>1, <2>2, SubSeqFull
    <3> QED BY <3>1 DEF Suffixes
  <2> QED BY <2>1, <2>2
<1>3. ASSUME NEW c \in Suffixes(b)
      PROVE  /\ c \in Seq(Token) /\ Len(c) <= n
             /\ \A q \in 1 .. n + 1 : q <= Len(c) + 1 => SubSeq(c, q, Len(c)) \in Suffixes(b)
  <2>1. CASE c = <<>>
    <3>1. Len(c) = 0 /\ c \in Seq(Token)
      BY <2>1
    <3>2. ASSUME NEW q \in 1 .. n + 1 PROVE SubSeq(c, q, Len(c)) = <<>>
      BY <3>1, SubSeqEmpty
    <3> QED BY <1>1, <3>1, <3>2 DEF Suffixes
  <2>2. CASE \E l \in 1 .. n : c = SubSeq(b, l, n)
    <3>1. PICK l \in 1 .. n : c = SubSeq(b, l, n)
      BY <2>2
    <3>2. c \in Seq(Token) /\ Len(c) = n - l + 1 /\ \A i \in 1 .. n - l + 1 : c[i] = b[l + i - 1]
      BY <1>1, <3>1, SubSeqProperties
    <3>3. ASSUME NEW q \in 1 .. n + 1, q <= Len(c) + 1
          PROVE  SubSeq(c, q, Len(c)) \in Suffixes(b)
      <4>1. CASE q = Len(c) + 1
        <5>1. SubSeq(c, q, Len(c)) = <<>>
          BY <3>2, <4>1, SubSeqEmpty
        <5> QED BY <5>1 DEF Suffixes
      <4>2. CASE q <= Len(c)
        <5>1. SubSeq(c, q, Len(c)) = SubSeq(b, l + q - 1, n)
          <6> DEFINE s == SubSeq(c, q, Len(c))
                     t == SubSeq(b, l + q - 1, n)
                     len == Len(c) - q + 1
          <6>1. /\ len \in Nat /\ len = n - (l + q - 1) + 1 /\ q \in Int /\ Len(c) \in Int
                /\ l + q - 1 \in 1 .. n
            BY <1>1, <3>2, <3>3, <4>2
          <6>2. s \in Seq(Token) /\ Len(s) = len /\ \A i \in 1 .. len : s[i] = c[q + i - 1]
            BY <3>2, <4>2, <6>1, SubSeqProperties
          <6>3. t \in Seq(Token) /\ Len(t) = len /\ \A i \in 1 .. len : t[i] = b[l + q - 1 + i - 1]
            BY <1>1, <4>2, <6>1, SubSeqProperties
          <6>4. \A i \in 1 .. len : c[q + i - 1] = b[l + q - 1 + i - 1]
            <7> SUFFICES ASSUME NEW i \in 1 .. len PROVE c[q + i - 1] = b[l + q - 1 + i - 1]
              OBVIOUS
            <7>1. q + i - 1 \in 1 .. n - l + 1 /\ l + (q + i - 1) - 1 = l + q - 1 + i - 1
              BY <1>1, <3>2, <3>3, <4>2
            <7> QED BY <3>2, <7>1
          <6> HIDE DEF s, t, len
          <6>5. s = t
            BY <6>2, <6>3, <6>4, SeqEqual
          <6> QED BY <6>5 DEF s, t
        <5>2. l + q - 1 \in 1 .. n
          BY <1>1, <3>2, <3>3, <4>2
        <5> QED BY <5>1, <5>2 DEF Suffixes
      <4>3. q = Len(c) + 1 \/ q <= Len(c)
        <5>1. Len(c) \in Int
          BY <1>1, <3>2
        <5>2. q \in Int
          BY <1>1
        <5> QED BY <3>3, <5>1, <5>2
      <4> HIDE DEF n
      <4> QED BY <4>1, <4>2, <4>3
    <3> QED BY <1>1, <3>2, <3>3
  <2> QED BY <2>1, <2>2 DEF Suffixes
<1> QED BY <1>2, <1>3

\* One round of push: what it makes of the buffer, given what it makes of the rest.
Pushed(p, b) ==
  LET f == next_frame(b)
      parsed == parse_frame(f[1].frame)
      rest == p[f[1].rest]
  IN  IF f = <<>> THEN [events |-> <<>>, rest |-> b, ok |-> TRUE]
      ELSE IF ~Parses(parsed) THEN [events |-> <<>>, rest |-> f[1].rest, ok |-> FALSE]
      ELSE IF rest.ok THEN [rest EXCEPT !.events = parsed \o @] ELSE rest

Results == [events : Seq(Events), rest : Seq(Token), ok : BOOLEAN]

\* A round of push looks only at what it has for shorter suffixes.
LEMMA RoundIsSound ==
  ASSUME NEW b \in Seq(Token), NEW c \in Suffixes(b), NEW p,
         \A d \in Suffixes(b) : Len(d) < Len(c) => p[d] \in Results
  PROVE  /\ Pushed(p, c) \in Results
         /\ \A q : (\A d \in Suffixes(b) : Len(d) < Len(c) => q[d] = p[d])
                   => Pushed(q, c) = Pushed(p, c)
<1> DEFINE f == next_frame(c)
           rest == f[1].rest
           parsed == parse_frame(f[1].frame)
<1>1. c \in Seq(Token) /\ Len(c) \in Nat /\ Len(c) <= Len(b) /\ Len(b) \in Nat
  BY SuffixesAre
<1>2. CASE f = <<>>
  <2>1. \A q : Pushed(q, c) = [events |-> <<>>, rest |-> c, ok |-> TRUE]
    BY <1>2 DEF Pushed
  <2>2. [events |-> <<>>, rest |-> c, ok |-> TRUE] \in Results
    BY <1>1, EmptySeq DEF Results
  <2> QED BY <2>1, <2>2
<1>3. CASE f # <<>>
  <2>1. rest \in Suffixes(b) /\ Len(rest) < Len(c) /\ rest \in Seq(Token)
    <3>1. PICK k \in 1 .. Len(c), w \in {2, 4} : k + w <= Len(c) + 1 /\ f = CutAt(c, k, w)
      BY <1>1, <1>3, NextFrameCuts
    <3>2. rest = SubSeq(c, k + w, Len(c))
      BY <3>1 DEF CutAt
    <3>3. k + w \in 1 .. Len(b) + 1 /\ k + w \in Int /\ Len(c) \in Int
      BY <1>1, <3>1
    <3>4. rest \in Suffixes(b)
      BY <1>1, <3>1, <3>2, <3>3, SuffixesAre
    <3>5. Len(rest) = IF k + w <= Len(c) THEN Len(c) - (k + w) + 1 ELSE 0
      <4>1. \A i \in k + w .. Len(c) : c[i] \in Token
        BY <1>1, <3>1
      <4> QED BY <3>2, <3>3, <4>1, SubSeqProperties
    <3>6. Len(rest) < Len(c)
      BY <1>1, <3>1, <3>5
    <3> QED BY <3>4, <3>6, SuffixesAre
  <2> HIDE DEF f, rest, parsed
  <2>2. \A q : Pushed(q, c) = IF ~Parses(parsed) THEN [events |-> <<>>, rest |-> rest, ok |-> FALSE]
                              ELSE IF q[rest].ok THEN [q[rest] EXCEPT !.events = parsed \o @]
                              ELSE q[rest]
    BY <1>3 DEF Pushed, f, rest, parsed
  <2>3. p[rest] \in Results
    BY <2>1
  <2>4. Parses(parsed) => parsed \in Seq(Events)
    <3>1. CASE parsed = <<>>
      BY <3>1
    <3>2. CASE parsed # <<>>
      <4>1. PICK x : parsed = <<x>>
        BY <3>2 DEF parsed, parse_frame
      <4>2. Parses(parsed) => x \in Events
        BY <4>1 DEF Parses
      <4> QED BY <4>1, <4>2
    <3> QED BY <3>1, <3>2
  <2>5. Pushed(p, c) \in Results
    <3>1. CASE ~Parses(parsed)
      <4>1. [events |-> <<>>, rest |-> rest, ok |-> FALSE] \in Results
        BY <2>1, EmptySeq DEF Results
      <4> QED BY <2>2, <3>1, <4>1
    <3>2. CASE Parses(parsed) /\ p[rest].ok
      <4>1. p[rest].events \in Seq(Events)
        BY <2>3 DEF Results
      <4>2. parsed \o p[rest].events \in Seq(Events)
        BY <2>4, <3>2, <4>1, ConcatProperties
      <4>3. [p[rest] EXCEPT !.events = parsed \o @] \in Results
        BY <2>3, <4>2 DEF Results
      <4> QED BY <2>2, <3>2, <4>3
    <3>3. CASE Parses(parsed) /\ ~p[rest].ok
      BY <2>2, <2>3, <3>3
    <3> QED BY <3>1, <3>2, <3>3
  <2>6. ASSUME NEW q, \A d \in Suffixes(b) : Len(d) < Len(c) => q[d] = p[d]
        PROVE  Pushed(q, c) = Pushed(p, c)
    <3>1. q[rest] = p[rest]
      BY <2>1, <2>6
    <3> QED BY <2>2, <3>1
  <2> QED BY <2>5, <2>6
<1> QED BY <1>2, <1>3

\* So the recursive function inside Drain exists, and is what its rounds say.
LEMMA DrainIs ==
  ASSUME NEW b \in Seq(Token)
  PROVE  \E p : /\ Drain(b) = p[b]
                /\ \A c \in Suffixes(b) : p[c] \in Results /\ p[c] = Pushed(p, c)
<1> DEFINE D == Suffixes(b)
           Up(p, n) == /\ p = [c \in D |-> p[c]]
                       /\ \A c \in D : Len(c) < n => p[c] \in Results /\ p[c] = Pushed(p, c)
           T == {n \in Nat : \E p : Up(p, n)}
<1>1. Len(b) \in Nat /\ b \in D /\ \A c \in D : Len(c) \in Nat /\ Len(c) <= Len(b)
  BY SuffixesAre
<1> HIDE DEF D
<1>2. 0 \in T
  <2> DEFINE p == [c \in D |-> c]
  <2>1. p = [c \in D |-> p[c]] /\ \A c \in D : ~(Len(c) < 0)
    BY <1>1
  <2>2. Up(p, 0)
    BY <2>1
  <2> QED BY <2>2
<1>3. ASSUME NEW n \in Nat, n \in T PROVE n + 1 \in T
  <2>1. PICK p : Up(p, n)
    BY <1>3
  <2> DEFINE q == [c \in D |-> IF Len(c) < n THEN p[c] ELSE Pushed(p, c)]
  <2>2. \A c \in D : q[c] = IF Len(c) < n THEN p[c] ELSE Pushed(p, c)
    OBVIOUS
  <2>3. q = [c \in D |-> q[c]]
    OBVIOUS
  <2> HIDE DEF q
  <2>4. ASSUME NEW c \in D, Len(c) < n + 1
        PROVE  q[c] \in Results /\ q[c] = Pushed(q, c)
    <3>1. \A d \in D : Len(d) < Len(c) => p[d] \in Results /\ q[d] = p[d]
      <4> SUFFICES ASSUME NEW d \in D, Len(d) < Len(c) PROVE p[d] \in Results /\ q[d] = p[d]
        OBVIOUS
      <4>1. Len(d) < n
        BY <1>1, <2>4
      <4> QED BY <2>1, <2>2, <4>1
    <3>2. Pushed(p, c) \in Results /\ Pushed(q, c) = Pushed(p, c)
      BY <3>1, RoundIsSound DEF D
    <3>3. q[c] = Pushed(p, c)
      BY <2>1, <2>2
    <3> QED BY <3>2, <3>3
  <2>5. Up(q, n + 1)
    BY <2>3, <2>4
  <2> HIDE DEF Up
  <2> QED BY <2>5
<1>4. Len(b) + 1 \in T
  <2> HIDE DEF T
  <2> QED BY <1>1, <1>2, <1>3, Induction
<1>5. PICK p : Up(p, Len(b) + 1)
  BY <1>4
<1>6. \A c \in D : p[c] \in Results /\ p[c] = Pushed(p, c)
  BY <1>1, <1>5
<1> DEFINE Q == CHOOSE q : q = [c \in D |-> Pushed(q, c)]
<1>7. Drain(b) = Q[b]
  BY DEF Drain, D, Pushed
<1>8. p = [c \in D |-> Pushed(p, c)]
  <2>1. p = [c \in D |-> p[c]]
    BY <1>5
  <2> HIDE DEF Up
  <2> QED BY <1>6, <2>1
<1>9. Q = [c \in D |-> Pushed(Q, c)]
  BY <1>8
<1> HIDE DEF Q, Up
<1>10. \A c \in D : Q[c] = Pushed(Q, c)
  BY <1>9
<1> DEFINE V == {n \in Nat : \A c \in D : Len(c) < n => Q[c] = p[c]}
<1>11. 0 \in V
  BY <1>1
<1>12. ASSUME NEW n \in Nat, n \in V PROVE n + 1 \in V
  <2> SUFFICES ASSUME NEW c \in D, Len(c) < n + 1 PROVE Q[c] = p[c]
    OBVIOUS
  <2>1. \A d \in D : Len(d) < Len(c) => Q[d] = p[d]
    <3> SUFFICES ASSUME NEW d \in D, Len(d) < Len(c) PROVE Q[d] = p[d]
      OBVIOUS
    <3>1. Len(d) < n
      BY <1>1
    <3> QED BY <1>12, <3>1
  <2>2. Pushed(Q, c) = Pushed(p, c)
    BY <1>6, <2>1, RoundIsSound DEF D
  <2> QED BY <1>6, <1>10, <2>2
<1>13. Len(b) + 1 \in V
  <2> HIDE DEF V
  <2> QED BY <1>1, <1>11, <1>12, Induction
<1>14. \A c \in D : Q[c] = p[c]
  BY <1>1, <1>13
<1>15. \A c \in D : Q[c] \in Results
  BY <1>6, <1>14
<1> QED BY <1>7, <1>10, <1>15 DEF D

-----------------------------------------------------------------------------
\* The retries

SleptInv ==
  /\ slept \in Seq(Nat) /\ Len(slept) <= SHIFT_WIDTH
  /\ \A i \in 1 .. Len(slept) : slept[i] = Pause(i)

AttemptInv ==
  /\ phase \in {"send", "backoff", "stream", "ended", "failed"}
  /\ max_retries \in MaxRetries
  /\ attempts \in 0 .. max_retries + 1
  /\ outcome \in {None, "no key", "api", "http", "exhausted", "overflow"}
  /\ phase # "failed" => outcome = None
  /\ phase = "send" => attempts = Len(slept) /\ attempts <= max_retries
  /\ phase = "backoff" =>
       attempts = Len(slept) + 1 /\ attempts <= max_retries /\ is_retryable(last_error)
  /\ outcome = "exhausted" => attempts = max_retries + 1 /\ Len(slept) = max_retries
  /\ outcome \in {"api", "http"} => Len(slept) = attempts - 1

BufferInv ==
  /\ wire \in Seq(Token) /\ buffer \in Seq(Token) /\ pending \in Seq(Events)
  /\ done \in BOOLEAN /\ errors \in Nat

\* A new client has made no attempt, and its buffer is empty.
LEMMA InitRetries ==
  ASSUME Init
  PROVE  SleptInv /\ AttemptInv /\ BufferInv
<1>1. max_retries \in Nat
  BY RetryPolicy DEF Init
<1>2. slept = <<>> /\ wire = <<>> /\ buffer = <<>> /\ pending = <<>>
  BY DEF Init
<1>3. SleptInv
  BY <1>2, RetryPolicy DEF SleptInv
<1>4. AttemptInv
  <2>1. Len(slept) = 0
    BY <1>2
  <2>2. phase = "failed" \/ phase = "send"
    BY DEF Init
  <2>3. outcome = IF phase = "failed" THEN "no key" ELSE None
    BY DEF Init
  <2>4. max_retries \in MaxRetries /\ attempts = 0
    BY DEF Init
  <2>5. attempts \in 0 .. max_retries + 1
    BY <1>1, <2>4
  <2>6. outcome \notin {"exhausted", "api", "http"}
    BY <2>3 DEF None
  <2>7. outcome \in {None, "no key", "api", "http", "exhausted", "overflow"}
    BY <2>3
  <2>8. phase = "send" => attempts = Len(slept) /\ attempts <= max_retries
    BY <1>1, <2>1, <2>4
  <2>9. phase # "failed" => outcome = None
    BY <2>3
  <2> QED BY <2>2, <2>4, <2>5, <2>6, <2>7, <2>8, <2>9 DEF AttemptInv
<1>5. BufferInv
  <2>1. done \in BOOLEAN /\ errors \in Nat
    BY DEF Init
  <2> QED BY <1>2, <2>1, EmptySeq DEF BufferInv
<1> QED BY <1>3, <1>4, <1>5

\* No step exceeds the attempts allowed or breaks the order of the pauses.
LEMMA StepRetries ==
  ASSUME SleptInv, AttemptInv, [Next]_vars
  PROVE  SleptInv' /\ AttemptInv'
<1>0. /\ max_retries \in Nat /\ Len(slept) \in Nat /\ attempts \in Nat
      /\ attempts <= max_retries + 1
  <2>1. max_retries \in Nat
    BY RetryPolicy DEF AttemptInv
  <2>2. Len(slept) \in Nat
    BY LenProperties DEF SleptInv
  <2>3. attempts \in 0 .. max_retries + 1
    BY DEF AttemptInv
  <2> QED BY <2>1, <2>2, <2>3
<1>a. UNCHANGED slept => SleptInv'
  BY DEF SleptInv, Pause
<1>b. UNCHANGED <<phase, max_retries, attempts, last_error, slept, outcome>> => AttemptInv'
  <2>1. is_retryable(last_error') => is_retryable(last_error)'
    BY DEF is_retryable, is_retryable_status
  <2> QED BY <2>1 DEF AttemptInv
<1>1. CASE SendFails
  <2>1. PICK status \in {-1, 0, 401, 429, 503} : ExchangeFails(status)
    BY <1>1 DEF SendFails
  <2>2. phase = "send" /\ attempts = Len(slept) /\ attempts <= max_retries /\ outcome = None
    BY <1>1 DEF SendFails, AttemptInv
  <2>3. attempts' = attempts + 1 /\ max_retries' = max_retries /\ max_retries \in MaxRetries
    BY <2>1 DEF ExchangeFails, AttemptInv
  <2>4. attempts' \in 0 .. max_retries' + 1
    BY <1>0, <2>2, <2>3
  <2>5. CASE ~is_retryable(status)
    <3>1. outcome' \in {"api", "http"} /\ phase' = "failed" /\ slept' = slept
      BY <2>1, <2>5 DEF ExchangeFails, Fail, expect_success
    <3>2. Len(slept') = attempts' - 1
      BY <1>0, <2>2, <2>3, <3>1
    <3>3. AttemptInv'
      BY <2>3, <2>4, <3>1, <3>2 DEF AttemptInv
    <3> QED BY <1>a, <3>1, <3>3
  <2>6. CASE is_retryable(status) /\ GivesUp
    <3>1. outcome' = "exhausted" /\ phase' = "failed" /\ slept' = slept
      BY <2>1, <2>6 DEF ExchangeFails, Fail
    <3>2. attempts' > max_retries
      BY <2>6 DEF GivesUp
    <3>3. attempts' = max_retries' + 1 /\ Len(slept') = max_retries'
      BY <1>0, <2>2, <2>3, <3>1, <3>2
    <3>4. AttemptInv'
      BY <2>3, <2>4, <3>1, <3>3 DEF AttemptInv
    <3> QED BY <1>a, <3>1, <3>4
  <2>7. CASE is_retryable(status) /\ ~GivesUp
    <3>1. outcome' = outcome /\ phase' = "backoff" /\ slept' = slept /\ last_error' = status
      BY <2>1, <2>7 DEF ExchangeFails
    <3>2. ~(attempts' > max_retries)
      BY <2>7 DEF GivesUp
    <3>3. attempts' = Len(slept') + 1 /\ attempts' <= max_retries'
      BY <1>0, <2>2, <2>3, <3>1, <3>2
    <3>4. is_retryable(last_error)'
      BY <2>7, <3>1 DEF is_retryable, is_retryable_status
    <3>5. AttemptInv'
      BY <2>2, <2>3, <2>4, <3>1, <3>3, <3>4 DEF AttemptInv, None
    <3> QED BY <1>a, <3>1, <3>5
  <2> QED BY <2>5, <2>6, <2>7
<1>2. CASE SendMessage
  <2>1. PICK decodes \in BOOLEAN :
          /\ phase' = IF decodes THEN "ended" ELSE "failed"
          /\ outcome' = IF decodes THEN outcome ELSE "http"
    BY <1>2 DEF SendMessage
  <2>2. /\ phase = "send" /\ attempts = Len(slept) /\ attempts <= max_retries /\ outcome = None
        /\ attempts' = attempts + 1 /\ max_retries' = max_retries /\ slept' = slept
        /\ max_retries \in MaxRetries
    BY <1>2 DEF SendMessage, AttemptInv
  <2>3. attempts' \in 0 .. max_retries' + 1 /\ Len(slept') = attempts' - 1
    BY <1>0, <2>2
  <2>4. AttemptInv'
    BY <2>1, <2>2, <2>3 DEF AttemptInv, None
  <2> QED BY <1>a, <2>2, <2>4
<1>3. CASE SendSucceeds
  <2>1. slept' = <<>> /\ Len(slept') = 0 /\ phase' = "stream" /\ attempts' = 0
    BY <1>3 DEF SendSucceeds
  <2>2. SleptInv'
    <3>1. slept' \in Seq(Nat) /\ \A i \in 1 .. Len(slept') : FALSE
      BY <2>1
    <3>2. Len(slept') <= SHIFT_WIDTH
      BY <2>1, RetryPolicy
    <3> QED BY <3>1, <3>2 DEF SleptInv
  <2>3. outcome' = None /\ max_retries' = max_retries /\ max_retries \in MaxRetries
    BY <1>3 DEF SendSucceeds, AttemptInv
  <2>4. attempts' \in 0 .. max_retries' + 1
    BY <1>0, <2>1, <2>3
  <2>5. AttemptInv'
    BY <2>1, <2>3, <2>4 DEF AttemptInv, None
  <2> QED BY <2>2, <2>5
<1>4. CASE Backoff
  <2> DEFINE n == attempts
  <2>1. /\ n \in Nat /\ n = Len(slept) + 1 /\ n <= max_retries /\ outcome = None
        /\ max_retries' = max_retries /\ attempts' = n /\ max_retries \in MaxRetries
    BY <1>0, <1>4 DEF Backoff, AttemptInv
  <2>2. CASE n - 1 >= SHIFT_WIDTH
    <3>1. phase' = "failed" /\ outcome' = "overflow" /\ slept' = slept
      BY <1>4, <2>2 DEF Backoff, backoff_for_attempt
    <3>2. attempts' \in 0 .. max_retries' + 1
      BY <1>0, <2>1
    <3>3. AttemptInv'
      BY <2>1, <3>1, <3>2 DEF AttemptInv
    <3> QED BY <1>a, <3>1, <3>3
  <2>3. CASE ~(n - 1 >= SHIFT_WIDTH)
    <3>1. n \in 1 .. SHIFT_WIDTH
      BY <1>0, <2>1, <2>3, RetryPolicy
    <3>2. Pause(n) \in Nat
      BY <3>1, PausesGrow
    <3>3. backoff_for_attempt(n) = <<Pause(n)>>
      BY <2>3 DEF backoff_for_attempt, Pause
    <3>4. phase' = "send" /\ outcome' = outcome /\ slept' = slept \o <<Pause(n)>>
      BY <1>4, <3>3 DEF Backoff
    <3> DEFINE s == <<Pause(n)>>
               k == Len(slept)
    <3>5. s \in Seq(Nat) /\ Len(s) = 1 /\ s[1] = Pause(n) /\ slept \in Seq(Nat)
      BY <3>2 DEF SleptInv
    <3>6. k \in Nat /\ n = k + 1 /\ slept' = slept \o s /\ \A i \in 1 .. k : slept[i] = Pause(i)
      BY <1>0, <2>1, <3>4 DEF SleptInv
    <3> HIDE DEF s, n
    <3>7. /\ slept \o s \in Seq(Nat) /\ Len(slept \o s) = k + Len(s)
          /\ \A i \in 1 .. k + Len(s) : (slept \o s)[i] = IF i <= k THEN slept[i] ELSE s[i - k]
      BY <3>5, ConcatProperties
    <3> HIDE DEF k
    <3>8. slept' \in Seq(Nat) /\ Len(slept') = n
      BY <3>5, <3>6, <3>7
    <3>9. ASSUME NEW i \in 1 .. n PROVE slept'[i] = Pause(i)
      <4>1. CASE i <= k
        <5>1. i \in 1 .. k /\ i \in 1 .. k + Len(s)
          BY <3>5, <3>6, <4>1
        <5> QED BY <3>6, <3>7, <4>1, <5>1
      <4>2. CASE i = n
        <5>1. i - k = 1 /\ i \in 1 .. k + Len(s) /\ ~(i <= k)
          BY <3>5, <3>6, <4>2
        <5> QED BY <3>5, <3>6, <3>7, <4>2, <5>1
      <4>3. i <= k \/ i = n
        <5>1. k \in Nat /\ n = k + 1
          BY <3>6
        <5> QED BY <3>9, <5>1
      <4> QED BY <4>1, <4>2, <4>3
    <3>10. SleptInv'
      <4>1. Len(slept') <= SHIFT_WIDTH
        BY <3>1, <3>8
      <4>2. \A i \in 1 .. Len(slept') : slept'[i] = Pause(i)
        BY <3>8, <3>9
      <4> QED BY <3>8, <4>1, <4>2 DEF SleptInv, Pause
    <3>11. AttemptInv'
      <4>1. attempts' = Len(slept') /\ attempts' <= max_retries'
        BY <2>1, <3>8 DEF n
      <4>2. attempts' \in 0 .. max_retries' + 1
        BY <1>0, <2>1, <4>1 DEF n
      <4> QED BY <2>1, <3>4, <4>1, <4>2 DEF AttemptInv, None
    <3> QED BY <3>10, <3>11
  <2> QED BY <2>2, <2>3
<1>5. CASE Pop
  BY <1>5, <1>a, <1>b DEF Pop, sendVars
<1>6. CASE Chunk
  BY <1>6, <1>a, <1>b DEF Chunk, sendVars
<1>7. CASE EndOfBody
  <2>1. phase = "stream" /\ phase' \in {"stream", "ended"} /\ UNCHANGED sendVars
    BY <1>7 DEF EndOfBody
  <2>2. UNCHANGED <<max_retries, attempts, last_error, slept, outcome>> /\ outcome = None
    BY <2>1 DEF sendVars, AttemptInv
  <2> QED BY <1>a, <2>1, <2>2 DEF AttemptInv, None
<1>8. CASE Finish
  <2>1. phase = "stream" /\ phase' \in {"stream", "ended"} /\ UNCHANGED sendVars
    BY <1>8 DEF Finish
  <2>2. UNCHANGED <<max_retries, attempts, last_error, slept, outcome>> /\ outcome = None
    BY <2>1 DEF sendVars, AttemptInv
  <2> QED BY <1>a, <2>1, <2>2 DEF AttemptInv, None
<1>9. CASE UNCHANGED vars
  BY <1>9, <1>a, <1>b DEF vars, sendVars
<1> QED BY <1>1, <1>2, <1>3, <1>4, <1>5, <1>6, <1>7, <1>8, <1>9 DEF Next, Step, Over

\* What EventStreams says of one list of frames.
LEMMA Streams ==
  ASSUME NEW list \in FrameLists
  PROVE  list \in Seq(Seq(Text)) /\ \A i \in 1 .. Len(list) : list[i] # <<>>
<1> DEFINE S == Seq(Text) \ {<<>>}
<1>1. list \in Seq(S)
  BY EventStreams DEF Text
<1> HIDE DEF S
<1>2. list \in [1 .. Len(list) -> S]
  BY <1>1
<1> QED BY <1>1, <1>2, SeqMonotonic DEF S

\* Every step leaves tokens in the buffer and on the wire, and events pending.
LEMMA StepBuffer ==
  ASSUME BufferInv, [Next]_vars
  PROVE  BufferInv'
<1>0. UNCHANGED streamVars => BufferInv'
  BY DEF BufferInv, streamVars
<1>1. CASE SendFails
  BY <1>0, <1>1 DEF SendFails, ExchangeFails
<1>2. CASE SendMessage
  BY <1>0, <1>2 DEF SendMessage
<1>3. CASE SendSucceeds
  <2>1. PICK closed \in BOOLEAN : wire' = Render(frames', eol', closed)
    BY <1>3 DEF SendSucceeds
  <2>2. frames' \in Seq(Seq(Text)) /\ eol' \in {<<"LF">>, <<"CR", "LF">>}
    BY <1>3, Streams, EventStreams DEF SendSucceeds
  <2>3. wire' \in Seq(Token)
    <3> DEFINE N == Len(frames')
               B == Bodies(frames', eol', closed)
    <3>1. N \in 0 .. N
      BY <2>2
    <3>2. wire' = B[N] /\ B \in [0 .. N -> Seq(Token)]
      BY <2>1, <2>2, BodiesAre
    <3> HIDE DEF N, B
    <3> QED BY <3>1, <3>2
  <2> QED BY <1>3, <2>3 DEF SendSucceeds, BufferInv
<1>4. CASE Backoff
  BY <1>0, <1>4 DEF Backoff
<1>5. CASE Pop
  BY <1>5, HeadTailProperties DEF Pop, BufferInv
<1>6. CASE Chunk
  <2> DEFINE piece(n) == SubSeq(wire, 1, n)
             r(n) == Drain(buffer \o piece(n))
  <2>1. PICK n \in 1 .. Len(wire) :
          /\ wire' = SubSeq(wire, n + 1, Len(wire))
          /\ buffer' = r(n).rest /\ pending' = r(n).events
          /\ errors' = errors + (IF r(n).ok THEN 0 ELSE 1)
    BY <1>6 DEF Chunk
  <2>2. wire \in Seq(Token) /\ Len(wire) \in Nat /\ buffer \in Seq(Token)
    BY DEF BufferInv
  <2>3. piece(n) \in Seq(Token) /\ wire' \in Seq(Token)
    <3>1. 1 \in Int /\ n \in Int /\ n + 1 \in Int /\ Len(wire) \in Int
      BY <2>2
    <3>2. \A i \in 1 .. n : wire[i] \in Token
      BY <2>2
    <3>3. \A i \in n + 1 .. Len(wire) : wire[i] \in Token
      BY <2>2
    <3>4. piece(n) \in Seq(Token)
      BY <3>1, <3>2, SubSeqProperties
    <3>5. wire' \in Seq(Token)
      BY <2>1, <3>1, <3>3, SubSeqProperties
    <3> QED BY <3>4, <3>5
  <2>4. r(n) \in Results
    <3> HIDE DEF piece
    <3>1. buffer \o piece(n) \in Seq(Token)
      BY <2>2, <2>3, ConcatProperties
    <3> QED BY <3>1, DrainIs, SuffixesAre
  <2> HIDE DEF r, piece
  <2>5. buffer' \in Seq(Token) /\ pending' \in Seq(Events) /\ errors' \in Nat
    BY <2>1, <2>4 DEF Results, BufferInv
  <2> QED BY <1>6, <2>3, <2>5 DEF Chunk, BufferInv
<1>7. CASE EndOfBody
  BY <1>7 DEF EndOfBody, BufferInv
<1>8. CASE Finish
  BY <1>8, EmptySeq DEF Finish, BufferInv
<1>9. CASE UNCHANGED vars
  BY <1>0, <1>9 DEF vars
<1> QED BY <1>1, <1>2, <1>3, <1>4, <1>5, <1>6, <1>7, <1>8, <1>9 DEF Next, Step, Over

\* The inductive invariant of the client's calls.
RetryInv == SleptInv /\ AttemptInv /\ BufferInv

\* The attempts, the pauses and the buffer are straight in every reachable state.
THEOREM RetryInvariance == Spec => []RetryInv
<1>1. Init => RetryInv
  BY InitRetries DEF RetryInv
<1>2. RetryInv /\ [Next]_vars => RetryInv'
  BY StepRetries, StepBuffer DEF RetryInv
<1> QED BY <1>1, <1>2, PTL DEF Spec

\* send_with_retry makes the exchanges it may make, with pauses that grow up to
\* the maximum, and its error names the reason it stopped for.
THEOREM RetriesHold == Spec => []RetriesAreExact
<1>1. RetryInv => RetriesAreExact
  <2> SUFFICES ASSUME RetryInv PROVE RetriesAreExact
    OBVIOUS
  <2>1. TypeOK
    <3>1. \A i \in DOMAIN pending : pending[i] \in Events
      BY DEF RetryInv, BufferInv
    <3> QED BY <3>1 DEF RetryInv, AttemptInv, BufferInv, TypeOK
  <2>2. ExhaustedMeansExhausted
    BY DEF RetryInv, AttemptInv, ExhaustedMeansExhausted
  <2>3. BackoffGrows
    <3>1. DOMAIN slept = 1 .. Len(slept) /\ Len(slept) \in Nat
      BY DEF RetryInv, SleptInv
    <3>2. ASSUME NEW i \in DOMAIN slept
          PROVE  slept[i] <= MAX_BACKOFF /\ (i > 1 => slept[i - 1] <= slept[i])
      <4>1. i \in 1 .. SHIFT_WIDTH /\ slept[i] = Pause(i)
        BY <3>1, RetryPolicy DEF RetryInv, SleptInv
      <4>2. i > 1 => i - 1 \in 1 .. Len(slept)
        BY <3>1
      <4>3. i > 1 => slept[i - 1] = Pause(i - 1)
        BY <4>2 DEF RetryInv, SleptInv
      <4> QED BY <4>1, <4>3, PausesGrow
    <3> QED BY <3>2 DEF BackoffGrows
  <2> QED BY <2>1, <2>2, <2>3 DEF RetriesAreExact
<1> QED BY <1>1, RetryInvariance, PTL

-----------------------------------------------------------------------------
\* What a frame is parsed to

\* Without, as the fold its recursive function is.
LEMMA WithoutIs ==
  ASSUME NEW s \in Seq(Token), NEW S
  PROVE  \E f : /\ Without(s, S) = f[Len(s)] /\ f[0] = <<>>
                /\ f \in [0 .. Len(s) -> Seq(Token)]
                /\ \A i \in 1 .. Len(s) :
                     f[i] = IF s[i] \in S THEN f[i - 1] ELSE Append(f[i - 1], s[i])
<1> DEFINE N == Len(s)
           V == Seq(Token)
           e == <<>>
           G == [i \in 1 .. N |-> [r \in V |-> IF s[i] \in S THEN r ELSE Append(r, s[i])]]
           W == CHOOSE f : f = [i \in 0 .. N |->
                  IF i = 0 THEN <<>> ELSE IF s[i] \in S THEN f[i - 1] ELSE Append(f[i - 1], s[i])]
<1>1. N \in Nat /\ e \in V /\ \A i \in 1 .. N : s[i] \in Token
  OBVIOUS
<1>2. G \in StepsOf(V, N)
  <2>1. \A i \in 1 .. N, r \in V : (IF s[i] \in S THEN r ELSE Append(r, s[i])) \in V
    BY <1>1, AppendProperties
  <2> HIDE DEF V
  <2> QED BY <2>1 DEF StepsOf
<1>3. PICK f : Made(f, V, N, e, G)
  <2> HIDE DEF V, N, e, G
  <2> QED BY <1>1, <1>2, Recursion
<1> HIDE DEF V
<1>4. f = [i \in 0 .. N |-> f[i]] /\ f[0] = <<>>
  BY <1>3 DEF Made
<1>5. ASSUME NEW i \in 1 .. N
      PROVE  f[i] = IF s[i] \in S THEN f[i - 1] ELSE Append(f[i - 1], s[i])
  <2>1. i - 1 \in 0 .. N
    BY <1>1
  <2>2. f[i - 1] \in V /\ f[i] = G[i][f[i - 1]]
    BY <1>3, <2>1 DEF Made
  <2> QED BY <2>2
<1>6. f = [i \in 0 .. N |->
           IF i = 0 THEN <<>> ELSE IF s[i] \in S THEN f[i - 1] ELSE Append(f[i - 1], s[i])]
  <2>1. ASSUME NEW i \in 0 .. N
        PROVE f[i] = IF i = 0 THEN <<>> ELSE IF s[i] \in S THEN f[i - 1] ELSE Append(f[i - 1], s[i])
    <3>1. i = 0 \/ i \in 1 .. N
      BY <1>1
    <3> QED BY <1>4, <1>5, <3>1
  <2> QED BY <1>4, <2>1
<1>7. W = [i \in 0 .. N |->
           IF i = 0 THEN <<>> ELSE IF s[i] \in S THEN W[i - 1] ELSE Append(W[i - 1], s[i])]
  BY <1>6
<1>8. Without(s, S) = W[N]
  BY DEF Without
<1> HIDE DEF W
<1>9. W[0] = <<>>
  BY <1>1, <1>7
<1>10. \A i \in 1 .. N : W[i] = IF s[i] \in S THEN W[i - 1] ELSE Append(W[i - 1], s[i])
  <2>1. \A i \in 1 .. N : i \in 0 .. N /\ i # 0
    BY <1>1
  <2> QED BY <1>7, <2>1
<1>11. W \in [0 .. N -> V]
  <2> DEFINE T == {i \in Nat : i <= N => W[i] \in V}
  <2>1. 0 \in T
    BY <1>1, <1>9
  <2>2. ASSUME NEW i \in Nat, i \in T PROVE i + 1 \in T
    <3> SUFFICES ASSUME i + 1 <= N PROVE W[i + 1] \in V
      OBVIOUS
    <3>1. i + 1 \in 1 .. N /\ W[i] \in V /\ (i + 1) - 1 = i
      BY <1>1, <2>2
    <3>2. Append(W[i], s[i + 1]) \in V
      BY <1>1, <3>1, AppendProperties DEF V
    <3> QED BY <1>10, <3>1, <3>2
  <2>3. Nat \subseteq T
    <3> HIDE DEF T
    <3> QED BY <2>1, <2>2, Induction
  <2>4. \A i \in 0 .. N : W[i] \in V
    BY <1>1, <2>3
  <2> DEFINE F(i) == IF i = 0 THEN <<>> ELSE IF s[i] \in S THEN W[i - 1] ELSE Append(W[i - 1], s[i])
  <2>5. W = [i \in 0 .. N |-> F(i)]
    BY <1>7
  <2> HIDE DEF F, V
  <2>6. \A i \in 0 .. N : F(i) \in V
    BY <2>4, <2>5
  <2> QED BY <2>5, <2>6
<1> QED BY <1>8, <1>9, <1>10, <1>11 DEF V

\* s is the lines of F with what ends them, the end of the last one in part or not at all.
Joined(s, F, w) ==
  /\ s \in Seq(Token) /\ F \in Seq(Text) /\ F # <<>>
  /\ w * (Len(F) - 1) + 1 <= Len(s) /\ Len(s) <= w * Len(F)
  /\ \A i \in 1 .. Len(s) : IF (i - 1) % w = 0 THEN s[i] = F[(i - 1) \div w + 1]
                                               ELSE s[i] \in {"CR", "LF"}

\* The separators between the lines of a frame leave what is selected as it is.
LEMMA JoinedWithout ==
  ASSUME NEW s, NEW F, NEW w \in {2, 3}, Joined(s, F, w), NEW S, {"CR", "LF"} \subseteq S
  PROVE  Without(s, S) = Without(F, S)
<1>1. s \in Seq(Token) /\ F \in Seq(Text) /\ F \in Seq(Token)
  BY SeqMonotonic DEF Joined, Token
<1>2. Len(s) \in Nat /\ Len(F) \in Nat /\ Len(F) > 0
  BY <1>1, EmptySeq DEF Joined
<1>3. PICK g : /\ Without(s, S) = g[Len(s)] /\ g[0] = <<>>
               /\ \A i \in 1 .. Len(s) :
                    g[i] = IF s[i] \in S THEN g[i - 1] ELSE Append(g[i - 1], s[i])
  BY <1>1, WithoutIs
<1>4. PICK f : /\ Without(F, S) = f[Len(F)] /\ f[0] = <<>>
               /\ \A i \in 1 .. Len(F) :
                    f[i] = IF F[i] \in S THEN f[i - 1] ELSE Append(f[i - 1], F[i])
  BY <1>1, WithoutIs
<1> DEFINE line(i) == (i + w - 1) \div w
           T == {i \in Nat : i <= Len(s) => g[i] = f[line(i)]}
<1>5. 0 \in T
  <2>1. line(0) = 0
    OBVIOUS
  <2> QED BY <1>3, <1>4, <2>1
<1>6. ASSUME NEW i \in Nat, i \in T PROVE i + 1 \in T
  <2> SUFFICES ASSUME i + 1 <= Len(s) PROVE g[i + 1] = f[line(i + 1)]
    OBVIOUS
  <2>1. i + 1 \in 1 .. Len(s) /\ (i + 1) - 1 = i /\ g[i] = f[line(i)]
    BY <1>2, <1>6
  <2>2. g[i + 1] = IF s[i + 1] \in S THEN g[i] ELSE Append(g[i], s[i + 1])
    BY <1>3, <2>1
  <2>3. Len(s) <= w * Len(F)
    BY DEF Joined
  <2>4. IF i % w = 0 THEN s[i + 1] = F[i \div w + 1] ELSE s[i + 1] \in {"CR", "LF"}
    BY <2>1 DEF Joined
  <2>5. CASE i % w = 0
    <3> DEFINE j == i \div w + 1
    <3>1. j \in 1 .. Len(F) /\ line(i) = j - 1 /\ line(i + 1) = j
      <4>1. CASE w = 2
        BY <1>2, <2>1, <2>3, <2>5, <4>1
      <4>2. CASE w = 3
        BY <1>2, <2>1, <2>3, <2>5, <4>2
      <4> QED BY <4>1, <4>2
    <3>2. s[i + 1] = F[j]
      BY <2>4, <2>5
    <3> HIDE DEF j, line
    <3>3. f[j] = IF F[j] \in S THEN f[j - 1] ELSE Append(f[j - 1], F[j])
      BY <1>4, <3>1
    <3> QED BY <2>1, <2>2, <3>1, <3>2, <3>3
  <2>6. CASE i % w # 0
    <3>1. line(i + 1) = line(i)
      <4>1. CASE w = 2
        BY <2>6, <4>1
      <4>2. CASE w = 3
        BY <2>6, <4>2
      <4> QED BY <4>1, <4>2
    <3>2. s[i + 1] \in S
      BY <2>4, <2>6
    <3> HIDE DEF line
    <3> QED BY <2>1, <2>2, <3>1, <3>2
  <2> QED BY <2>5, <2>6
<1>7. Len(s) \in T
  <2> HIDE DEF T
  <2> QED BY <1>2, <1>5, <1>6, Induction
<1>8. line(Len(s)) = Len(F)
  <2>1. w * (Len(F) - 1) + 1 <= Len(s) /\ Len(s) <= w * Len(F)
    BY DEF Joined
  <2>2. CASE w = 2
    BY <1>2, <2>1, <2>2
  <2>3. CASE w = 3
    BY <1>2, <2>1, <2>3
  <2> QED BY <2>2, <2>3
<1> QED BY <1>3, <1>4, <1>7, <1>8

\* Nor do they change which name is the last.
LEMMA JoinedName ==
  ASSUME NEW s, NEW F, NEW w \in {2, 3}, Joined(s, F, w)
  PROVE  EventName(s) = EventName(F)
<1> DEFINE names(x) == {i \in DOMAIN x : x[i] \in {"ping", "name"}}
           last(x) == CHOOSE i \in names(x) : \A j \in names(x) : j <= i
           at(j) == w * (j - 1) + 1
<1>1. /\ \A x : EventName(x) = IF names(x) = {} THEN None ELSE x[last(x)]
      /\ s \in Seq(Token) /\ F \in Seq(Text)
  BY DEF EventName, Joined
<1>2. /\ Len(s) \in Nat /\ DOMAIN s = 1 .. Len(s)
      /\ Len(F) \in Nat /\ DOMAIN F = 1 .. Len(F)
  BY <1>1
<1>3. \A j \in names(F) : at(j) \in names(s) /\ s[at(j)] = F[j]
  <2> SUFFICES ASSUME NEW j \in names(F) PROVE at(j) \in names(s) /\ s[at(j)] = F[j]
    OBVIOUS
  <2>0. j \in 1 .. Len(F) /\ F[j] \in {"ping", "name"}
    BY <1>2
  <2>1. w * (Len(F) - 1) + 1 <= Len(s)
    BY DEF Joined
  <2>2. at(j) \in 1 .. Len(s) /\ (at(j) - 1) % w = 0 /\ (at(j) - 1) \div w + 1 = j
    <3>1. j \in Nat /\ j >= 1 /\ j <= Len(F) /\ Len(F) \in Nat /\ Len(s) \in Nat
      BY <1>2, <2>0
    <3>2. CASE w = 2
      <4>1. at(j) = 2 * (j - 1) + 1 /\ 2 * (Len(F) - 1) + 1 <= Len(s)
        BY <2>1, <3>2
      <4> HIDE DEF at
      <4>2. at(j) \in 1 .. Len(s) /\ at(j) - 1 = 2 * (j - 1)
        BY <3>1, <4>1
      <4>3. (2 * (j - 1)) % 2 = 0 /\ (2 * (j - 1)) \div 2 = j - 1
        BY <3>1
      <4>4. (at(j) - 1) % 2 = 0 /\ (at(j) - 1) \div 2 + 1 = j
        BY <3>1, <4>2, <4>3
      <4> QED BY <3>2, <4>2, <4>4
    <3>3. CASE w = 3
      <4>1. at(j) = 3 * (j - 1) + 1 /\ 3 * (Len(F) - 1) + 1 <= Len(s)
        BY <2>1, <3>3
      <4> HIDE DEF at
      <4>2. at(j) \in 1 .. Len(s) /\ at(j) - 1 = 3 * (j - 1)
        BY <3>1, <4>1
      <4>3. (3 * (j - 1)) % 3 = 0 /\ (3 * (j - 1)) \div 3 = j - 1
        BY <3>1
      <4>4. (at(j) - 1) % 3 = 0 /\ (at(j) - 1) \div 3 + 1 = j
        BY <3>1, <4>2, <4>3
      <4> QED BY <3>3, <4>2, <4>4
    <3> QED BY <3>2, <3>3
  <2> HIDE DEF at
  <2>3. s[at(j)] = F[j]
    BY <2>2 DEF Joined
  <2> QED BY <1>2, <2>0, <2>2, <2>3
<1>4. \A i \in names(s) : \E j \in names(F) : i = at(j)
  <2> SUFFICES ASSUME NEW i \in names(s) PROVE \E j \in names(F) : i = at(j)
    OBVIOUS
  <2> DEFINE j == (i - 1) \div w + 1
  <2>1. i \in 1 .. Len(s) /\ s[i] \in {"ping", "name"} /\ s[i] \notin {"CR", "LF"}
    BY <1>2
  <2>2. (i - 1) % w = 0 /\ s[i] = F[j]
    BY <2>1 DEF Joined
  <2>3. Len(s) <= w * Len(F)
    BY DEF Joined
  <2>4. j \in 1 .. Len(F) /\ i = at(j)
    <3>1. CASE w = 2
      <4> DEFINE q == (i - 1) \div 2
      <4>1. q \in Nat /\ i - 1 = 2 * q
        BY <1>2, <2>1, <2>2, <3>1
      <4>2. j = q + 1 /\ at(j) = 2 * (j - 1) + 1
        BY <3>1
      <4>3. i \in Nat /\ i <= 2 * Len(F) /\ Len(F) \in Nat
        BY <1>2, <2>1, <2>3, <3>1
      <4> HIDE DEF q, j, at
      <4> QED BY <4>1, <4>2, <4>3
    <3>2. CASE w = 3
      <4> DEFINE q == (i - 1) \div 3
      <4>1. q \in Nat /\ i - 1 = 3 * q
        BY <1>2, <2>1, <2>2, <3>2
      <4>2. j = q + 1 /\ at(j) = 3 * (j - 1) + 1
        BY <3>2
      <4>3. i \in Nat /\ i <= 3 * Len(F) /\ Len(F) \in Nat
        BY <1>2, <2>1, <2>3, <3>2
      <4> HIDE DEF q, j, at
      <4> QED BY <4>1, <4>2, <4>3
    <3> QED BY <3>1, <3>2
  <2> HIDE DEF at, j
  <2>5. j \in names(F)
    BY <1>2, <2>1, <2>2, <2>4
  <2> QED BY <2>4, <2>5
<1>5. CASE names(F) = {}
  <2>1. names(s) = {}
    <3> HIDE DEF names
    <3> QED BY <1>4, <1>5
  <2> QED BY <1>1, <1>5, <2>1
<1>6. CASE names(F) # {}
  <2> DEFINE T == {Len(F) - j : j \in names(F)}
  <2>1. PICK m \in names(F) : \A j \in names(F) : j <= m
    <3>1. T \in SUBSET Nat /\ T # {}
      BY <1>2, <1>6
    <3>2. PICK t \in T : \A k \in T : t <= k
      <4> HIDE DEF T
      <4> QED BY <3>1, Least
    <3>3. PICK m \in names(F) : t = Len(F) - m
      BY <3>2
    <3>4. ASSUME NEW j \in names(F) PROVE j <= m
      <4>1. Len(F) - m <= Len(F) - j
        BY <3>2, <3>3
      <4> QED BY <1>2, <3>3, <4>1
    <3> QED BY <3>4
  <2>2. names(F) \subseteq Int /\ names(s) \subseteq Int
    BY <1>2
  <2>3. \A j, k \in Int : j <= k => at(j) <= at(k)
    <3>1. CASE w = 2
      BY <3>1
    <3>2. CASE w = 3
      BY <3>2
    <3> QED BY <3>1, <3>2
  <2> HIDE DEF names, at
  <2>4. last(F) = m
    <3>1. last(F) \in names(F) /\ \A j \in names(F) : j <= last(F)
      BY <2>1
    <3>2. last(F) <= m /\ m <= last(F)
      BY <2>1, <3>1
    <3> QED BY <2>1, <2>2, <3>1, <3>2
  <2>5. at(m) \in names(s) /\ \A i \in names(s) : i <= at(m)
    <3>1. ASSUME NEW i \in names(s) PROVE i <= at(m)
      <4>1. PICK j \in names(F) : i = at(j)
        BY <1>4
      <4>2. j <= m /\ j \in Int /\ m \in Int
        BY <2>1, <2>2
      <4> QED BY <2>3, <4>1, <4>2
    <3> QED BY <1>3, <3>1
  <2>6. last(s) = at(m)
    <3>1. last(s) \in names(s) /\ \A j \in names(s) : j <= last(s)
      BY <2>5
    <3>2. last(s) <= at(m) /\ at(m) <= last(s)
      BY <2>5, <3>1
    <3> QED BY <2>2, <2>5, <3>1, <3>2
  <2> HIDE DEF last
  <2>7. EventName(s) = s[at(m)] /\ EventName(F) = F[m]
    BY <1>1, <1>6, <2>4, <2>5, <2>6
  <2> QED BY <1>3, <2>7
<1> QED BY <1>5, <1>6

\* A frame cut from the wire parses to what the lines of the frame parse to.
LEMMA JoinedParses ==
  ASSUME NEW s, NEW F, NEW w \in {2, 3}, Joined(s, F, w)
  PROVE  parse_frame(s) = parse_frame(F)
<1>1. DataLines(s) = DataLines(F)
  <2> DEFINE S == {"CR", "LF", "ping", "name", "note"}
  <2>1. {"CR", "LF"} \subseteq S
    OBVIOUS
  <2> HIDE DEF S
  <2>2. Without(s, S) = Without(F, S)
    BY <2>1, JoinedWithout
  <2> QED BY <2>2 DEF DataLines, S
<1> QED BY <1>1, JoinedName DEF parse_frame

\* A frame gives a sequence of payloads, of one or none.
LEMMA ParsedIs ==
  ASSUME NEW s \in Seq(Token)
  PROVE  parse_frame(s) \in Seq(Seq(Token))
<1> DEFINE S == {"CR", "LF", "ping", "name", "note"}
<1>1. DataLines(s) \in Seq(Token)
  <2> HIDE DEF S
  <2>1. Len(s) \in 0 .. Len(s)
    BY LenProperties
  <2>2. Without(s, S) \in Seq(Token)
    BY <2>1, WithoutIs
  <2> QED BY <2>2 DEF DataLines, S
<1>2. parse_frame(s) = <<>> \/ parse_frame(s) = <<DataLines(s)>>
  BY DEF parse_frame
<1> DEFINE V == Seq(Token)
           x == DataLines(s)
<1>3. x \in V
  BY <1>1
<1> HIDE DEF V, x
<1>4. <<>> \in Seq(V) /\ <<x>> \in Seq(V)
  BY <1>3
<1> QED BY <1>2, <1>4 DEF V, x

\* The events of the first k frames, for every k.
Expecteds(list) ==
  LET upto[k \in 0 .. Len(list)] ==
        IF k = 0 THEN <<>>
        ELSE IF Carries(list[k]) THEN Append(upto[k - 1], DataLines(list[k])) ELSE upto[k - 1]
  IN  upto

Payload == Seq(Token)

\* What the server expects to be delivered, frame after frame.
LEMMA ExpectedsAre ==
  ASSUME NEW list \in Seq(Seq(Text))
  PROVE  LET E == Expecteds(list) IN
         /\ E \in [0 .. Len(list) -> Seq(Payload)] /\ E[0] = <<>>
         /\ \A k \in 1 .. Len(list) : E[k] = E[k - 1] \o parse_frame(list[k])
         /\ \A k \in 0 .. Len(list) : IsPrefix(E[k], E[Len(list)])
<1> DEFINE N == Len(list)
           E == Expecteds(list)
           V == Seq(Payload)
           e == <<>>
           G == [k \in 1 .. N |-> [r \in V |-> r \o parse_frame(list[k])]]
<1>1. N \in Nat /\ e \in V /\ \A k \in 1 .. N : list[k] \in Seq(Text)
  BY EmptySeq
<1>2. \A k \in 1 .. N : parse_frame(list[k]) \in V
  <2> SUFFICES ASSUME NEW k \in 1 .. N PROVE parse_frame(list[k]) \in V
    OBVIOUS
  <2>1. list[k] \in Seq(Token)
    BY <1>1, SeqMonotonic DEF Token
  <2> QED BY <2>1, ParsedIs DEF Payload
<1>3. \A k \in 1 .. N, r \in V : r \o parse_frame(list[k]) \in V
  BY <1>2, ConcatProperties
<1>4. G \in StepsOf(V, N)
  <2> HIDE DEF V
  <2> QED BY <1>3 DEF StepsOf
<1>5. PICK f : Made(f, V, N, e, G)
  <2> HIDE DEF V, N, e, G
  <2> QED BY <1>1, <1>4, Recursion
<1>6. ASSUME NEW k \in 1 .. N, NEW r \in V
      PROVE  r \o parse_frame(list[k])
                = IF Carries(list[k]) THEN Append(r, DataLines(list[k])) ELSE r
  <2>1. CASE Carries(list[k])
    <3> DEFINE x == DataLines(list[k])
    <3>1. parse_frame(list[k]) = <<x>> /\ x \in Payload
      <4>1. parse_frame(list[k]) = <<x>>
        BY <2>1 DEF Carries, parse_frame
      <4> HIDE DEF x
      <4>2. <<x>> \in V
        BY <1>2, <4>1
      <4>3. Len(<<x>>) = 1 /\ <<x>>[1] = x
        OBVIOUS
      <4>4. x \in Payload
        BY <4>2, <4>3, ElementOfSeq
      <4> QED BY <4>1, <4>4
    <3> HIDE DEF x
    <3>2. r \o <<x>> = Append(r, x)
      BY <3>1, AppendIsConcat
    <3> QED BY <2>1, <3>1, <3>2 DEF x
  <2>2. CASE ~Carries(list[k])
    <3>1. parse_frame(list[k]) = <<>>
      BY <2>2 DEF Carries, parse_frame
    <3> QED BY <2>2, <3>1, ConcatEmptySeq
  <2> QED BY <2>1, <2>2
<1> HIDE DEF V
<1> DEFINE Next1(k, r) == IF Carries(list[k]) THEN Append(r, DataLines(list[k])) ELSE r
<1>7. f = [k \in 0 .. N |-> IF k = 0 THEN <<>> ELSE Next1(k, f[k - 1])]
  <2>1. ASSUME NEW k \in 0 .. N PROVE f[k] = IF k = 0 THEN <<>> ELSE Next1(k, f[k - 1])
    <3>1. CASE k = 0
      BY <1>5, <3>1 DEF Made
    <3>2. CASE k # 0
      <4>1. k \in 1 .. N /\ k - 1 \in 0 .. N
        BY <1>1, <3>2
      <4>2. f[k - 1] \in V /\ f[k] = G[k][f[k - 1]]
        BY <1>5, <4>1 DEF Made
      <4>3. f[k] = f[k - 1] \o parse_frame(list[k])
        BY <4>1, <4>2
      <4> QED BY <1>6, <3>2, <4>1, <4>2, <4>3
    <3> QED BY <3>1, <3>2
  <2>2. f = [k \in 0 .. N |-> f[k]]
    BY <1>5 DEF Made
  <2> HIDE DEF Next1
  <2> QED BY <2>1, <2>2
<1>8. E = [k \in 0 .. N |-> IF k = 0 THEN <<>> ELSE Next1(k, E[k - 1])]
  BY <1>7 DEF Expecteds
<1> HIDE DEF E
<1>9. E[0] = <<>> /\ \A k \in 1 .. N : E[k] = Next1(k, E[k - 1])
  <2> HIDE DEF Next1
  <2>1. 0 \in 0 .. N /\ \A k \in 1 .. N : k \in 0 .. N /\ k # 0
    BY <1>1
  <2> QED BY <1>8, <2>1
<1>10. E \in [0 .. N -> V]
  <2> DEFINE T == {k \in Nat : k <= N => E[k] \in V}
  <2>1. 0 \in T
    BY <1>1, <1>9
  <2>2. ASSUME NEW k \in Nat, k \in T PROVE k + 1 \in T
    <3> SUFFICES ASSUME k + 1 <= N PROVE E[k + 1] \in V
      OBVIOUS
    <3>1. k + 1 \in 1 .. N /\ E[k] \in V /\ (k + 1) - 1 = k
      BY <1>1, <2>2
    <3>2. E[k + 1] = E[k] \o parse_frame(list[k + 1])
      BY <1>6, <1>9, <3>1
    <3> QED BY <1>3, <3>1, <3>2
  <2>3. Nat \subseteq T
    <3> HIDE DEF T
    <3> QED BY <2>1, <2>2, Induction
  <2>4. \A k \in 0 .. N : E[k] \in V
    BY <1>1, <2>3
  <2> HIDE DEF Next1
  <2> QED BY <1>8, <2>4
<1>11. \A k \in 1 .. N : E[k] = E[k - 1] \o parse_frame(list[k])
  <2> SUFFICES ASSUME NEW k \in 1 .. N PROVE E[k] = E[k - 1] \o parse_frame(list[k])
    OBVIOUS
  <2>1. k - 1 \in 0 .. N
    BY <1>1
  <2> QED BY <1>6, <1>9, <1>10, <2>1
<1>12. \A k \in 0 .. N : IsPrefix(E[k], E[N])
  <2> DEFINE Follows(k) == \E t \in V : E[N] = E[k] \o t
             T == {d \in Nat : d <= N => Follows(N - d)}
  <2>1. 0 \in T
    <3>1. E[N] \in V
      BY <1>1, <1>10
    <3>2. E[N] = E[N] \o e
      BY <3>1, ConcatEmptySeq DEF V
    <3>3. Follows(N) /\ N - 0 = N
      <4> HIDE DEF e
      <4>1. Follows(N)
        BY <1>1, <3>2
      <4> QED BY <1>1, <4>1
    <3> HIDE DEF Follows
    <3> QED BY <3>3
  <2>2. ASSUME NEW d \in Nat, d \in T PROVE d + 1 \in T
    <3> DEFINE k == N - d
    <3>1. SUFFICES ASSUME d + 1 <= N PROVE Follows(N - (d + 1))
      <4> HIDE DEF Follows
      <4> QED OBVIOUS
    <3>2. k \in 1 .. N /\ N - (d + 1) = k - 1 /\ k - 1 \in 0 .. N /\ Follows(k)
      <4> HIDE DEF Follows
      <4> QED BY <1>1, <2>2, <3>1
    <3> HIDE DEF k
    <3>3. PICK t \in V : E[N] = E[k] \o t
      BY <3>2
    <3> DEFINE a == parse_frame(list[k])
               b == E[k - 1]
    <3>4. a \in Seq(Payload) /\ b \in Seq(Payload) /\ t \in Seq(Payload) /\ E[k] = b \o a
      BY <1>2, <1>10, <1>11, <3>2, <3>3 DEF V
    <3> HIDE DEF a
    <3>5. E[N] = b \o (a \o t) /\ a \o t \in V
      <4> HIDE DEF b
      <4>1. (b \o a) \o t = b \o (a \o t)
        BY <3>4, ConcatAssociative
      <4>2. a \o t \in Seq(Payload)
        BY <3>4, ConcatProperties
      <4> QED BY <3>3, <3>4, <4>1, <4>2 DEF V
    <3>6. Follows(k - 1)
      BY <3>5
    <3> HIDE DEF Follows
    <3> QED BY <3>2, <3>6
  <2>3. Nat \subseteq T
    <3> HIDE DEF T
    <3> QED BY <2>1, <2>2, Induction
  <2>4. ASSUME NEW k \in 0 .. N PROVE IsPrefix(E[k], E[N])
    <3>1. N - k \in Nat /\ N - k <= N /\ N - (N - k) = k
      BY <1>1
    <3>2. PICK t \in V : E[N] = E[k] \o t
      <4>1. Follows(k)
        <5> HIDE DEF Follows
        <5> QED BY <2>3, <3>1
      <4> QED BY <4>1
    <3> DEFINE s == E[k]
               u == s \o t
    <3>3. s \in Seq(Payload) /\ t \in Seq(Payload)
      BY <1>10 DEF V
    <3> HIDE DEF s
    <3>4. Len(s) \in Nat /\ Len(t) \in Nat /\ u \in Seq(Payload) /\ Len(u) = Len(s) + Len(t)
      BY <3>3, ConcatProperties, LenProperties
    <3>5. SubSeq(s, 1, Len(s)) = s
      BY <3>3, SubSeqFull
    <3>6. SubSeq(u, 1, Len(s)) = s
      <4> DEFINE v == SubSeq(u, 1, Len(s))
      <4>1. \A i \in 1 .. Len(s) : i \in 1 .. Len(s) + Len(t) /\ u[i] = s[i] /\ u[i] \in Payload
        <5>1. \A i \in 1 .. Len(s) : i \in 1 .. Len(s) + Len(t)
          BY <3>4
        <5>2. \A i \in 1 .. Len(s) : u[i] = s[i]
          BY <3>3, <5>1, ConcatProperties
        <5> QED BY <3>3, <5>1, <5>2, ElementOfSeq
      <4> HIDE DEF u
      <4>2. 1 \in Int /\ Len(s) \in Int
        BY <3>4
      <4>3. /\ v \in Seq(Payload) /\ Len(v) = IF 1 <= Len(s) THEN Len(s) - 1 + 1 ELSE 0
            /\ \A i \in 1 .. Len(s) - 1 + 1 : v[i] = u[1 + i - 1]
        BY <4>1, <4>2, SubSeqProperties
      <4>4. Len(v) = Len(s) /\ \A i \in 1 .. Len(s) : v[i] = u[i]
        BY <3>4, <4>3
      <4> HIDE DEF v
      <4>5. v = s
        BY <3>3, <4>1, <4>3, <4>4, SeqEqual
      <4> QED BY <4>5 DEF v
    <3> HIDE DEF u
    <3>7. IsPrefix(s, u)
      BY <3>4, <3>5, <3>6 DEF IsPrefix
    <3> QED BY <3>2, <3>7 DEF s, u
  <2> QED BY <2>4
<1> QED BY <1>9, <1>10, <1>11, <1>12 DEF E, V

-----------------------------------------------------------------------------
\* Where the frames of a body end

\* LF LF, token by token.
LEMMA OccursTwo ==
  ASSUME NEW b \in Seq(Token), NEW i \in 1 .. Len(b)
  PROVE  Occurs(<<"LF", "LF">>, b, i) <=> i + 1 <= Len(b) /\ b[i] = "LF" /\ b[i + 1] = "LF"
<1>1. Len(b) \in Nat /\ Len(<<"LF", "LF">>) = 2
  OBVIOUS
<1>2. CASE i + 1 <= Len(b)
  <2> DEFINE s == SubSeq(b, i, i + 1)
  <2>1. s \in Seq(Token) /\ Len(s) = 2 /\ s[1] = b[i] /\ s[2] = b[i + 1]
    <3>1. i \in Int /\ i + 1 \in Int /\ \A j \in i .. i + 1 : b[j] \in Token
      BY <1>1, <1>2
    <3>2. /\ s \in Seq(Token) /\ Len(s) = IF i <= i + 1 THEN (i + 1) - i + 1 ELSE 0
          /\ \A j \in 1 .. (i + 1) - i + 1 : s[j] = b[i + j - 1]
      BY <3>1, SubSeqProperties
    <3>3. (i + 1) - i + 1 = 2 /\ i + 1 - 1 = i /\ i + 2 - 1 = i + 1
      BY <1>1
    <3> HIDE DEF s
    <3> QED BY <3>2, <3>3
  <2> HIDE DEF s
  <2>2. s = <<"LF", "LF">> <=> s[1] = "LF" /\ s[2] = "LF"
    BY <2>1
  <2>3. Occurs(<<"LF", "LF">>, b, i) <=> s = <<"LF", "LF">>
    <3>1. i + Len(<<"LF", "LF">>) - 1 = i + 1
      BY <1>1
    <3> QED BY <1>2, <3>1 DEF Occurs, s
  <2> QED BY <1>2, <2>1, <2>2, <2>3
<1>3. CASE ~(i + 1 <= Len(b))
  <2>1. i + Len(<<"LF", "LF">>) - 1 = i + 1
    BY <1>1
  <2> QED BY <1>3, <2>1 DEF Occurs
<1> QED BY <1>2, <1>3

\* CR LF CR LF, token by token.
LEMMA OccursFour ==
  ASSUME NEW b \in Seq(Token), NEW i \in 1 .. Len(b)
  PROVE  Occurs(<<"CR", "LF", "CR", "LF">>, b, i)
         <=> i + 3 <= Len(b) /\ b[i] = "CR" /\ b[i + 1] = "LF" /\ b[i + 2] = "CR" /\ b[i + 3] = "LF"
<1> DEFINE sep == <<"CR", "LF", "CR", "LF">>
<1>1. Len(b) \in Nat /\ i + Len(sep) - 1 = i + 3
  <2>1. Len(sep) = 4
    OBVIOUS
  <2> QED BY <2>1
<1>2. CASE i + 3 <= Len(b)
  <2> DEFINE s == SubSeq(b, i, i + 3)
  <2>1. /\ s \in Seq(Token) /\ Len(s) = 4
        /\ s[1] = b[i] /\ s[2] = b[i + 1] /\ s[3] = b[i + 2] /\ s[4] = b[i + 3]
    <3>1. i \in Int /\ i + 3 \in Int /\ \A j \in i .. i + 3 : b[j] \in Token
      BY <1>1, <1>2
    <3>2. /\ s \in Seq(Token) /\ Len(s) = IF i <= i + 3 THEN (i + 3) - i + 1 ELSE 0
          /\ \A j \in 1 .. (i + 3) - i + 1 : s[j] = b[i + j - 1]
      BY <3>1, SubSeqProperties
    <3>3. /\ (i + 3) - i + 1 = 4
          /\ i + 1 - 1 = i /\ i + 2 - 1 = i + 1 /\ i + 3 - 1 = i + 2 /\ i + 4 - 1 = i + 3
      BY <1>1
    <3> HIDE DEF s
    <3> QED BY <3>2, <3>3
  <2> HIDE DEF s
  <2>2. s = sep <=> s[1] = "CR" /\ s[2] = "LF" /\ s[3] = "CR" /\ s[4] = "LF"
    BY <2>1
  <2>3. Occurs(sep, b, i) <=> s = sep
    BY <1>1, <1>2 DEF Occurs, s
  <2> HIDE DEF sep
  <2>4. Occurs(sep, b, i) <=> b[i] = "CR" /\ b[i + 1] = "LF" /\ b[i + 2] = "CR" /\ b[i + 3] = "LF"
    BY <2>1, <2>2, <2>3
  <2> QED BY <1>2, <2>4 DEF sep
<1>3. CASE ~(i + 3 <= Len(b))
  BY <1>1, <1>3 DEF Occurs
<1> QED BY <1>2, <1>3

\* Of two places next to each other in lines that end with LF, one begins a line.
LEMMA OneOfTwo ==
  ASSUME NEW i \in Nat, i >= 1
  PROVE  (i - 1) % 2 = 0 \/ ((i + 1) - 1) % 2 = 0
  OBVIOUS

\* After the CR of a line that ends with CR LF comes its LF, then a line.
LEMMA StartOfThree ==
  ASSUME NEW i \in Nat, i >= 1, (i - 1) % 3 = 1
  PROVE  ((i + 2) - 1) % 3 = 0
  OBVIOUS

\* Before its LF is its CR.
LEMMA EndOfThree ==
  ASSUME NEW i \in Nat, i >= 1, (i - 1) % 3 = 2
  PROVE  i # 1 /\ ((i - 1) - 1) % 3 = 1
  OBVIOUS

\* In a body whose lines end with CR LF every LF follows a CR.
Paired(s) == \A i \in 1 .. Len(s) : s[i] = "LF" => i > 1 /\ s[i - 1] = "CR"

\* Two such texts, one after the other, are one.
LEMMA PairedConcat ==
  ASSUME NEW s \in Seq(Token), NEW t \in Seq(Token), Paired(s), Paired(t)
  PROVE  Paired(s \o t)
<1> DEFINE u == s \o t
<1>1. /\ Len(s) \in Nat /\ Len(t) \in Nat /\ Len(u) = Len(s) + Len(t)
      /\ \A i \in 1 .. Len(s) + Len(t) : u[i] = IF i <= Len(s) THEN s[i] ELSE t[i - Len(s)]
  BY ConcatProperties, LenProperties
<1> HIDE DEF u
<1>2. ASSUME NEW i \in 1 .. Len(u), u[i] = "LF" PROVE i > 1 /\ u[i - 1] = "CR"
  <2>1. CASE i <= Len(s)
    <3>1. i \in 1 .. Len(s) /\ s[i] = "LF"
      BY <1>1, <1>2, <2>1
    <3>2. i > 1 /\ s[i - 1] = "CR"
      BY <3>1 DEF Paired
    <3>3. i - 1 \in 1 .. Len(s) + Len(t) /\ i - 1 <= Len(s)
      BY <1>1, <2>1, <3>1, <3>2
    <3> QED BY <1>1, <3>2, <3>3
  <2>2. CASE ~(i <= Len(s))
    <3> DEFINE j == i - Len(s)
    <3>1. j \in 1 .. Len(t) /\ t[j] = "LF"
      BY <1>1, <1>2, <2>2
    <3>2. j > 1 /\ t[j - 1] = "CR"
      BY <3>1 DEF Paired
    <3>3. i > 1 /\ i - 1 \in 1 .. Len(s) + Len(t) /\ ~(i - 1 <= Len(s)) /\ (i - 1) - Len(s) = j - 1
      BY <1>1, <2>2, <3>1, <3>2
    <3> QED BY <1>1, <3>2, <3>3
  <2> QED BY <2>1, <2>2
<1> QED BY <1>2 DEF Paired, u

\* Every body whose lines end with CR LF is one.
LEMMA BodiesPaired ==
  ASSUME NEW list \in Seq(Seq(Text)), NEW closed, NEW k \in 0 .. Len(list)
  PROVE  Paired(Bodies(list, <<"CR", "LF">>, closed)[k])
<1> DEFINE N == Len(list)
           end == <<"CR", "LF">>
           B == Bodies(list, end, closed)
           L(j) == Lines(list[N - j + 1], end)
           T == {j \in Nat : j <= N => Paired(B[j])}
<1>1. N \in Nat
  OBVIOUS
<1>2. /\ end \in {<<"LF">>, <<"CR", "LF">>} /\ Len(end) = 2 /\ end \in Seq(Token)
      /\ end[1] = "CR" /\ end[2] = "LF"
  <2>1. <<"CR", "LF">> \in Seq(Token)
    BY DEF Token
  <2> QED BY <2>1
<1>3. Paired(end) /\ Paired(<<>>)
  <2>1. ASSUME NEW i \in 1 .. Len(end), end[i] = "LF" PROVE i > 1 /\ end[i - 1] = "CR"
    <3>1. i = 1 \/ i = 2
      BY <1>2
    <3>2. i = 2
      BY <1>2, <2>1, <3>1
    <3> QED BY <1>2, <3>2
  <2>2. \A i \in 1 .. Len(<<>>) : FALSE
    OBVIOUS
  <2> QED BY <2>1, <2>2 DEF Paired
<1> HIDE DEF end
<1>4. ASSUME NEW F \in Seq(Text) PROVE Paired(Lines(F, end)) /\ Lines(F, end) \in Seq(Token)
  <2> DEFINE M == Lines(F, end)
  <2>1. /\ M \in Seq(Token) /\ Len(M) = (1 + Len(end)) * Len(F)
        /\ \A i \in 1 .. (1 + Len(end)) * Len(F) :
              M[i] = IF (i - 1) % (1 + Len(end)) = 0 THEN F[(i - 1) \div (1 + Len(end)) + 1]
                     ELSE end[(i - 1) % (1 + Len(end))]
    BY <1>2, LinesAre
  <2> HIDE DEF M
  <2>2. /\ Len(F) \in Nat /\ 1 + Len(end) = 3 /\ Len(M) = 3 * Len(F)
        /\ \A i \in 1 .. Len(M) :
            M[i] = IF (i - 1) % 3 = 0 THEN F[(i - 1) \div 3 + 1] ELSE end[(i - 1) % 3]
    BY <1>2, <2>1
  <2>3. ASSUME NEW i \in 1 .. Len(M), M[i] = "LF" PROVE i > 1 /\ M[i - 1] = "CR"
    <3>1. (i - 1) % 3 \in {0, 1, 2} /\ (i - 1) \div 3 + 1 \in 1 .. Len(F)
      BY <2>2
    <3>2. (i - 1) % 3 # 0
      <4>1. F[(i - 1) \div 3 + 1] \in Text
        BY <3>1
      <4> QED BY <2>2, <2>3, <4>1 DEF Text
    <3>3. (i - 1) % 3 # 1
      BY <1>2, <2>2, <2>3, <3>2
    <3>4. i > 1 /\ i - 1 \in 1 .. Len(M) /\ ((i - 1) - 1) % 3 = 1
      <4>1. i \in Nat /\ i >= 1 /\ i <= Len(M) /\ (i - 1) % 3 = 2
        BY <2>2, <3>1, <3>2, <3>3
      <4>2. i # 1 /\ ((i - 1) - 1) % 3 = 1
        BY <4>1, EndOfThree
      <4>3. i - 1 \in 1 .. Len(M)
        BY <2>2, <4>1, <4>2
      <4> QED BY <4>1, <4>2, <4>3
    <3> QED BY <1>2, <2>2, <3>4
  <2> QED BY <2>1, <2>3 DEF Paired, M
<1>5. B \in [0 .. N -> Seq(Token)] /\ B[0] = <<>>
  BY <1>2, BodiesAre
<1>6. \A j \in 1 .. N : B[j] = L(j) \o Blank(end, closed, j) \o B[j - 1]
  BY <1>2, BodiesAre
<1> HIDE DEF B
<1>7. 0 \in T
  BY <1>3, <1>5
<1>8. ASSUME NEW j \in Nat, j \in T PROVE j + 1 \in T
  <2> SUFFICES ASSUME j + 1 <= N PROVE Paired(B[j + 1])
    OBVIOUS
  <2>1. j + 1 \in 1 .. N /\ (j + 1) - 1 = j /\ j \in 0 .. N /\ Paired(B[j])
    BY <1>1, <1>8
  <2> DEFINE F == list[N - (j + 1) + 1]
             a == Lines(F, end)
             c == Blank(end, closed, j + 1)
  <2>2. N - (j + 1) + 1 \in 1 .. N
    BY <1>1, <2>1
  <2>3. F \in Seq(Text)
    BY <2>2
  <2>4. a \in Seq(Token) /\ Paired(a)
    BY <1>4, <2>3
  <2>5. c \in Seq(Token) /\ Paired(c)
    BY <1>2, <1>3, EmptySeq DEF Blank
  <2>6. B[j] \in Seq(Token)
    BY <1>5, <2>1
  <2>7. B[j + 1] = a \o c \o B[j]
    BY <1>6, <2>1
  <2> HIDE DEF a, c
  <2>8. a \o c \in Seq(Token) /\ Paired(a \o c)
    BY <2>4, <2>5, PairedConcat, ConcatProperties
  <2> QED BY <2>1, <2>6, <2>7, <2>8, PairedConcat
<1>9. k \in T
  <2> HIDE DEF T
  <2>1. 0 \in T /\ \A j \in Nat : j \in T => j + 1 \in T
    BY <1>7, <1>8
  <2>2. Nat \subseteq T
    BY ONLY <2>1, Induction
  <2>3. k \in Nat
    BY <1>1
  <2> QED BY <2>2, <2>3
<1> QED BY <1>1, <1>9 DEF B, end

\* Lines that end with LF: the blank line is found, and nothing before it.
LEMMA CutAfterLF ==
  ASSUME NEW b \in Seq(Token), NEW F \in Seq(Text), F # <<>>,
         \A i \in 1 .. Len(b) : i <= 2 * Len(F) =>
            IF (i - 1) % 2 = 0 THEN b[i] = F[(i - 1) \div 2 + 1] ELSE b[i] = "LF",
         \A i \in 1 .. Len(b) : i = 2 * Len(F) + 1 => b[i] = "LF"
  PROVE  IF Len(b) >= 2 * Len(F) + 1
         THEN /\ next_frame(b) = CutAt(b, 2 * Len(F), 2)
              /\ Joined(SubSeq(b, 1, 2 * Len(F) - 1), F, 2)
         ELSE next_frame(b) = <<>>
<1> DEFINE n == Len(F)
           lf == <<"LF", "LF">>
           crlf == <<"CR", "LF", "CR", "LF">>
<1>1. n \in Nat /\ n >= 1 /\ Len(b) \in Nat /\ DOMAIN b = 1 .. Len(b)
  BY EmptySeq
<1>2. ASSUME NEW i \in 1 .. Len(b), i <= 2 * n
      PROVE  /\ (i - 1) % 2 = 0 => b[i] \in Text
             /\ (i - 1) % 2 # 0 => b[i] = "LF"
  <2>1. (i - 1) \div 2 + 1 \in 1 .. n
    BY <1>1, <1>2
  <2> QED BY <1>2, <2>1
<1> HIDE DEF n
<1>3. ASSUME NEW i \in 1 .. Len(b), i + 1 <= 2 * n, i + 1 <= Len(b)
      PROVE  ~(b[i] = "LF" /\ b[i + 1] = "LF")
  <2>1. i + 1 \in 1 .. Len(b) /\ i <= 2 * n
    BY <1>1, <1>3
  <2>2. (i - 1) % 2 = 0 \/ ((i + 1) - 1) % 2 = 0
    <3>1. i \in Nat /\ i >= 1
      BY <1>1
    <3> QED BY <3>1, OneOfTwo
  <2>3. b[i] \in Text \/ b[i + 1] \in Text
    BY <1>2, <1>3, <2>1, <2>2
  <2> QED BY <2>3 DEF Text
<1>4. \A i \in 1 .. Len(b) : i < 2 * n => ~Occurs(lf, b, i)
  <2> SUFFICES ASSUME NEW i \in 1 .. Len(b), i < 2 * n, Occurs(lf, b, i) PROVE FALSE
    OBVIOUS
  <2>1. i + 1 <= Len(b) /\ b[i] = "LF" /\ b[i + 1] = "LF" /\ i + 1 <= 2 * n
    BY <1>1, OccursTwo
  <2> QED BY <1>3, <2>1
<1>5. CASE Len(b) >= 2 * n + 1
  <2>1. 2 * n \in 1 .. Len(b) /\ 2 * n + 1 \in 1 .. Len(b)
    BY <1>1, <1>5
  <2>2. b[2 * n] = "LF" /\ b[2 * n + 1] = "LF"
    <3>1. (2 * n - 1) % 2 # 0 /\ 2 * n <= 2 * n
      BY <1>1
    <3>2. b[2 * n + 1] = "LF"
      BY <2>1 DEF n
    <3> QED BY <1>2, <2>1, <3>1, <3>2
  <2>3. Occurs(lf, b, 2 * n)
    BY <1>1, <2>1, <2>2, OccursTwo
  <2>4. FirstIn(lf, b, 2 * n)
    <3>1. \A i \in DOMAIN b : Occurs(lf, b, i) => 2 * n <= i
      BY <1>1, <1>4
    <3> QED BY <1>1, <2>1, <2>3, <3>1 DEF FirstIn
  <2>5. next_frame(b) = CutAt(b, 2 * n, 2)
    BY <2>4, NextFrame
  <2> DEFINE s == SubSeq(b, 1, 2 * n - 1)
  <2>6. s \in Seq(Token) /\ Len(s) = 2 * n - 1 /\ \A i \in 1 .. 2 * n - 1 : s[i] = b[i]
    <3>1. 1 \in Int /\ 2 * n - 1 \in Int /\ \A i \in 1 .. 2 * n - 1 : b[i] \in Token
      BY <1>1, <1>5
    <3>2. /\ s \in Seq(Token) /\ Len(s) = IF 1 <= 2 * n - 1 THEN (2 * n - 1) - 1 + 1 ELSE 0
          /\ \A i \in 1 .. (2 * n - 1) - 1 + 1 : s[i] = b[1 + i - 1]
      BY <3>1, SubSeqProperties
    <3> HIDE DEF s
    <3> QED BY <1>1, <3>2
  <2> HIDE DEF s
  <2>7. Joined(s, F, 2)
    <3>1. 2 * (n - 1) + 1 <= Len(s) /\ Len(s) <= 2 * n
      BY <1>1, <2>6
    <3>2. ASSUME NEW i \in 1 .. Len(s)
          PROVE  IF (i - 1) % 2 = 0 THEN s[i] = F[(i - 1) \div 2 + 1] ELSE s[i] \in {"CR", "LF"}
      <4>1. i \in 1 .. Len(b) /\ i \in 1 .. 2 * n - 1 /\ i <= 2 * Len(F)
        BY <1>1, <1>5, <2>6 DEF n
      <4>2. s[i] = b[i]
        BY <2>6, <4>1
      <4> QED BY <4>1, <4>2
    <3> QED BY <2>6, <3>1, <3>2 DEF Joined, n
  <2> QED BY <1>5, <2>5, <2>7 DEF n, s
<1>6. CASE ~(Len(b) >= 2 * n + 1)
  <2>1. NoneIn(lf, b)
    <3> SUFFICES ASSUME NEW i \in 1 .. Len(b), Occurs(lf, b, i) PROVE FALSE
      BY <1>1 DEF NoneIn
    <3>1. i + 1 <= Len(b)
      BY OccursTwo
    <3>2. i < 2 * n
      BY <1>1, <1>6, <3>1
    <3> QED BY <1>4, <3>2
  <2>2. NoneIn(crlf, b)
    <3> SUFFICES ASSUME NEW i \in 1 .. Len(b), Occurs(crlf, b, i) PROVE FALSE
      BY <1>1 DEF NoneIn
    <3>1. b[i] = "CR"
      BY OccursFour
    <3>2. i <= 2 * n
      BY <1>1, <1>6
    <3> QED BY <1>2, <3>1, <3>2 DEF Text
  <2>3. next_frame(b) = <<>>
    BY <2>1, <2>2, NextFrame
  <2> QED BY <1>6, <2>3 DEF n
<1> QED BY <1>5, <1>6

\* The same for lines that end with CR LF.
LEMMA CutAfterCRLF ==
  ASSUME NEW b \in Seq(Token), NEW F \in Seq(Text), F # <<>>, Paired(b),
         \A i \in 1 .. Len(b) : i <= 3 * Len(F) =>
            /\ (i - 1) % 3 = 0 => b[i] = F[(i - 1) \div 3 + 1]
            /\ (i - 1) % 3 = 1 => b[i] = "CR"
            /\ (i - 1) % 3 = 2 => b[i] = "LF",
         \A i \in 1 .. Len(b) : i = 3 * Len(F) + 1 => b[i] = "CR",
         \A i \in 1 .. Len(b) : i = 3 * Len(F) + 2 => b[i] = "LF"
  PROVE  IF Len(b) >= 3 * Len(F) + 2
         THEN /\ next_frame(b) = CutAt(b, 3 * Len(F) - 1, 4)
              /\ Joined(SubSeq(b, 1, 3 * Len(F) - 2), F, 3)
         ELSE next_frame(b) = <<>>
<1> DEFINE n == Len(F)
           lf == <<"LF", "LF">>
           crlf == <<"CR", "LF", "CR", "LF">>
<1>1. n \in Nat /\ n >= 1 /\ Len(b) \in Nat /\ DOMAIN b = 1 .. Len(b)
  BY EmptySeq
<1>2. ASSUME NEW i \in 1 .. Len(b), i <= 3 * n
      PROVE  /\ (i - 1) % 3 = 0 => b[i] \in Text
             /\ (i - 1) % 3 = 1 => b[i] = "CR"
             /\ (i - 1) % 3 = 2 => b[i] = "LF"
  <2>1. (i - 1) \div 3 + 1 \in 1 .. n
    BY <1>1, <1>2
  <2> QED BY <1>2, <2>1
<1> HIDE DEF n
<1>3. NoneIn(lf, b)
  <2> SUFFICES ASSUME NEW i \in 1 .. Len(b), Occurs(lf, b, i) PROVE FALSE
    BY <1>1 DEF NoneIn
  <2>1. i + 1 \in 1 .. Len(b) /\ b[i] = "LF" /\ b[i + 1] = "LF" /\ (i + 1) - 1 = i
    BY <1>1, OccursTwo
  <2>2. b[i] = "CR"
    BY <2>1 DEF Paired
  <2> QED BY <2>1, <2>2
<1>4. ASSUME NEW i \in 1 .. Len(b), i + 2 <= 3 * n, Occurs(crlf, b, i)
      PROVE  FALSE
  <2>1. i + 3 <= Len(b) /\ b[i] = "CR" /\ b[i + 2] = "CR"
    BY <1>4, OccursFour
  <2>2. i <= 3 * n /\ i + 2 \in 1 .. Len(b) /\ i \in Nat /\ i >= 1
    BY <1>1, <1>4, <2>1
  <2>3. (i - 1) % 3 = 1
    <3>1. (i - 1) % 3 \in {0, 1, 2}
      BY <2>2
    <3>2. b[i] \notin Text /\ b[i] # "LF"
      BY <2>1 DEF Text
    <3> QED BY <1>2, <2>2, <3>1, <3>2
  <2>4. ((i + 2) - 1) % 3 = 0
    BY <2>2, <2>3, StartOfThree
  <2>5. b[i + 2] \in Text
    BY <1>2, <1>4, <2>2, <2>4
  <2> QED BY <2>1, <2>5 DEF Text
<1>5. CASE Len(b) >= 3 * n + 2
  <2> DEFINE p == 3 * n - 1
  <2>1. p \in 1 .. Len(b) /\ p + 1 \in 1 .. Len(b) /\ p + 2 \in 1 .. Len(b) /\ p + 3 \in 1 .. Len(b)
    BY <1>1, <1>5
  <2>2. b[p] = "CR" /\ b[p + 1] = "LF" /\ b[p + 2] = "CR" /\ b[p + 3] = "LF"
    <3>1. (p - 1) % 3 = 1 /\ (p + 1 - 1) % 3 = 2 /\ p <= 3 * n /\ p + 1 <= 3 * n
      BY <1>1
    <3>2. b[p] = "CR"
      <4> HIDE DEF p
      <4> QED BY <1>2, <2>1, <3>1
    <3>5. b[p + 1] = "LF"
      <4> DEFINE q == p + 1
      <4>1. q \in 1 .. Len(b) /\ q <= 3 * n /\ (q - 1) % 3 = 2
        BY <2>1, <3>1
      <4> HIDE DEF q
      <4>2. b[q] = "LF"
        BY <1>2, <4>1
      <4> QED BY <4>2 DEF q
    <3>3. p + 2 = 3 * n + 1 /\ p + 3 = 3 * n + 2
      BY <1>1
    <3>4. b[p + 2] = "CR" /\ b[p + 3] = "LF"
      BY <2>1, <3>3 DEF n
    <3> QED BY <3>2, <3>4, <3>5
  <2> HIDE DEF p
  <2>3. Occurs(crlf, b, p)
    <3>1. p + 3 <= Len(b)
      BY <1>1, <2>1
    <3> QED BY <2>1, <2>2, <3>1, OccursFour
  <2>4. FirstIn(crlf, b, p)
    <3>1. ASSUME NEW i \in DOMAIN b, Occurs(crlf, b, i) PROVE p <= i
      <4>1. i \in 1 .. Len(b) /\ ~(i + 2 <= 3 * n)
        BY <1>1, <1>4, <3>1
      <4> QED BY <1>1, <4>1 DEF p
    <3> QED BY <1>1, <2>1, <2>3, <3>1 DEF FirstIn
  <2>5. next_frame(b) = CutAt(b, p, 4)
    BY <1>3, <2>4, NextFrame
  <2> DEFINE s == SubSeq(b, 1, 3 * n - 2)
  <2>6. s \in Seq(Token) /\ Len(s) = 3 * n - 2 /\ \A i \in 1 .. 3 * n - 2 : s[i] = b[i]
    <3>1. 1 \in Int /\ 3 * n - 2 \in Int /\ \A i \in 1 .. 3 * n - 2 : b[i] \in Token
      BY <1>1, <1>5
    <3>2. /\ s \in Seq(Token) /\ Len(s) = IF 1 <= 3 * n - 2 THEN (3 * n - 2) - 1 + 1 ELSE 0
          /\ \A i \in 1 .. (3 * n - 2) - 1 + 1 : s[i] = b[1 + i - 1]
      BY <3>1, SubSeqProperties
    <3> HIDE DEF s
    <3> QED BY <1>1, <3>2
  <2> HIDE DEF s
  <2>7. Joined(s, F, 3)
    <3>1. 3 * (n - 1) + 1 <= Len(s) /\ Len(s) <= 3 * n
      BY <1>1, <2>6
    <3>2. ASSUME NEW i \in 1 .. Len(s)
          PROVE  IF (i - 1) % 3 = 0 THEN s[i] = F[(i - 1) \div 3 + 1] ELSE s[i] \in {"CR", "LF"}
      <4>1. i \in 1 .. Len(b) /\ i \in 1 .. 3 * n - 2 /\ i <= 3 * Len(F)
        BY <1>1, <1>5, <2>6 DEF n
      <4>2. s[i] = b[i] /\ (i - 1) % 3 \in {0, 1, 2}
        BY <2>6, <4>1
      <4> QED BY <4>1, <4>2
    <3> QED BY <2>6, <3>1, <3>2 DEF Joined, n
  <2> QED BY <1>5, <2>5, <2>7 DEF n, s, p
<1>6. CASE ~(Len(b) >= 3 * n + 2)
  <2>1. NoneIn(crlf, b)
    <3> SUFFICES ASSUME NEW i \in 1 .. Len(b), Occurs(crlf, b, i) PROVE FALSE
      BY <1>1 DEF NoneIn
    <3>1. i + 3 <= Len(b)
      BY OccursFour
    <3>2. i + 2 <= 3 * n
      BY <1>1, <1>6, <3>1
    <3> QED BY <1>4, <3>2
  <2>2. next_frame(b) = <<>>
    BY <1>3, <2>1, NextFrame
  <2> QED BY <1>6, <2>2 DEF n
<1> QED BY <1>5, <1>6

\* b, which r follows, is a piece of H \o R.
PieceOf(b, r, H, R) ==
  /\ \A i \in 1 .. Len(b) : i <= Len(H) => b[i] = H[i]
  /\ Len(b) + Len(r) = Len(H) + Len(R)
  /\ Len(b) >= Len(H) => /\ SubSeq(b, Len(H) + 1, Len(b)) \in Seq(Token)
                         /\ SubSeq(b, Len(H) + 1, Len(b)) \o r = R
  /\ Paired(b \o r) => Paired(b)

\* Of two ways to cut one text in two, the earlier cut leaves the longer rest.
LEMMA RestOf ==
  ASSUME NEW b \in Seq(Token), NEW r \in Seq(Token), NEW H \in Seq(Token), NEW R \in Seq(Token),
         b \o r = H \o R
  PROVE  PieceOf(b, r, H, R)
<1> DEFINE u == b \o r
           v == H \o R
<1>1. Len(b) \in Nat /\ Len(r) \in Nat /\ Len(H) \in Nat /\ Len(R) \in Nat
  OBVIOUS
<1>2. /\ Len(u) = Len(b) + Len(r)
      /\ \A i \in 1 .. Len(b) + Len(r) : u[i] = IF i <= Len(b) THEN b[i] ELSE r[i - Len(b)]
  BY ConcatProperties
<1>3. /\ Len(v) = Len(H) + Len(R)
      /\ \A i \in 1 .. Len(H) + Len(R) : v[i] = IF i <= Len(H) THEN H[i] ELSE R[i - Len(H)]
  BY ConcatProperties
<1>4. u = v
  OBVIOUS
<1> HIDE DEF u, v
<1>5. Len(b) + Len(r) = Len(H) + Len(R)
  BY <1>2, <1>3, <1>4
<1>6. ASSUME NEW i \in 1 .. Len(b), i <= Len(H) PROVE b[i] = H[i]
  <2>1. i \in 1 .. Len(b) + Len(r) /\ i \in 1 .. Len(H) + Len(R) /\ i <= Len(b)
    BY <1>1, <1>5
  <2> QED BY <1>2, <1>3, <1>4, <1>6, <2>1
<1>7. ASSUME Len(b) >= Len(H)
      PROVE  /\ SubSeq(b, Len(H) + 1, Len(b)) \in Seq(Token)
             /\ SubSeq(b, Len(H) + 1, Len(b)) \o r = R
  <2> DEFINE h == Len(H)
             d == SubSeq(b, h + 1, Len(b))
             x == d \o r
  <2>1. /\ d \in Seq(Token) /\ Len(d) = Len(b) - h
        /\ \A i \in 1 .. Len(b) - h : d[i] = b[h + i]
    <3>1. h + 1 \in Int /\ Len(b) \in Int /\ \A i \in h + 1 .. Len(b) : b[i] \in Token
      BY <1>1
    <3>2. /\ d \in Seq(Token) /\ Len(d) = IF h + 1 <= Len(b) THEN Len(b) - (h + 1) + 1 ELSE 0
          /\ \A i \in 1 .. Len(b) - (h + 1) + 1 : d[i] = b[h + 1 + i - 1]
      BY <3>1, SubSeqProperties
    <3> HIDE DEF d
    <3>3. Len(d) = Len(b) - h /\ Len(b) - (h + 1) + 1 = Len(b) - h
      BY <1>1, <1>7, <3>2
    <3>4. \A i \in 1 .. Len(b) - h : h + 1 + i - 1 = h + i
      BY <1>1
    <3> QED BY <3>2, <3>3, <3>4
  <2> HIDE DEF d
  <2>2. /\ x \in Seq(Token) /\ Len(x) = Len(d) + Len(r)
        /\ \A i \in 1 .. Len(d) + Len(r) : x[i] = IF i <= Len(d) THEN d[i] ELSE r[i - Len(d)]
    BY <2>1, ConcatProperties
  <2> HIDE DEF x
  <2>3. Len(x) = Len(R)
    BY <1>1, <1>5, <2>1, <2>2
  <2>4. ASSUME NEW i \in 1 .. Len(x) PROVE x[i] = R[i]
    <3>1. /\ h + i \in 1 .. Len(H) + Len(R) /\ h + i \in 1 .. Len(b) + Len(r)
          /\ ~(h + i <= Len(H)) /\ (h + i) - Len(H) = i /\ i \in 1 .. Len(d) + Len(r)
      BY <1>1, <1>5, <2>2, <2>3
    <3>2. R[i] = u[h + i]
      BY <1>3, <1>4, <3>1
    <3>3. CASE i <= Len(d)
      <4>1. h + i <= Len(b) /\ i \in 1 .. Len(b) - h
        BY <1>1, <2>1, <3>3
      <4> QED BY <1>2, <2>1, <2>2, <3>1, <3>2, <3>3, <4>1
    <3>4. CASE ~(i <= Len(d))
      <4>1. ~(h + i <= Len(b)) /\ (h + i) - Len(b) = i - Len(d)
        BY <1>1, <2>1, <3>4
      <4> QED BY <1>2, <2>2, <3>1, <3>2, <3>4, <4>1
    <3> QED BY <3>3, <3>4
  <2>5. x = R
    BY <2>2, <2>3, <2>4, SeqEqual
  <2> QED BY <2>1, <2>5 DEF d, x
<1>8. ASSUME Paired(u) PROVE Paired(b)
  <2>1. ASSUME NEW i \in 1 .. Len(b), b[i] = "LF" PROVE i > 1 /\ b[i - 1] = "CR"
    <3>1. i \in 1 .. Len(u) /\ u[i] = "LF"
      BY <1>1, <1>2, <2>1
    <3>2. i > 1 /\ u[i - 1] = "CR"
      BY <1>8, <3>1 DEF Paired
    <3>3. i - 1 \in 1 .. Len(b) + Len(r) /\ i - 1 <= Len(b)
      BY <1>1, <3>2
    <3> QED BY <1>2, <3>2, <3>3
  <2> QED BY <2>1 DEF Paired
<1> QED BY <1>5, <1>6, <1>7, <1>8 DEF u, PieceOf

CutIs(list, end, closed, k, b, r) ==
  \/ /\ next_frame(b) = <<>>
     /\ r = <<>> => k = 1 /\ \E w \in {2, 3} : Joined(b, list[Len(list)], w)
  \/ \E s, d, w :
       /\ next_frame(b) = <<[frame |-> s, rest |-> d]>>
       /\ w \in {2, 3} /\ Joined(s, list[Len(list) - k + 1], w)
       /\ d \in Seq(Token) /\ d \o r = Bodies(list, end, closed)[k - 1]

\* A piece b of a body, cut off before r: either the first frame is not complete
\* in it, or next_frame finds exactly that frame and the rest goes on with the next.
LEMMA CutBody ==
  ASSUME NEW list \in Seq(Seq(Text)), \A i \in 1 .. Len(list) : list[i] # <<>>,
         NEW end \in {<<"LF">>, <<"CR", "LF">>}, NEW closed \in BOOLEAN, NEW k \in 1 .. Len(list),
         NEW b \in Seq(Token), NEW r \in Seq(Token), b \o r = Bodies(list, end, closed)[k]
  PROVE  CutIs(list, end, closed, k, b, r)
<1> DEFINE N == Len(list)
           B == Bodies(list, end, closed)
           F == list[N - k + 1]
           n == Len(F)
           L == Lines(F, end)
           c == Blank(end, closed, k)
           H == L \o c
           R == B[k - 1]
           w == 1 + Len(end)
<1>1. N \in Nat /\ N - k + 1 \in 1 .. N /\ k - 1 \in 0 .. N
  OBVIOUS
<1>2. F \in Seq(Text) /\ F # <<>> /\ n \in Nat /\ n >= 1
  <2>1. F \in Seq(Text) /\ F # <<>>
    BY <1>1
  <2> HIDE DEF F
  <2> QED BY <2>1, EmptySeq
<1>3. (w = 2 /\ end = <<"LF">>) \/ (w = 3 /\ end = <<"CR", "LF">>)
  <2>1. CASE end = <<"LF">>
    <3>1. Len(end) = 1
      BY <2>1
    <3> QED BY <2>1, <3>1
  <2>2. CASE end = <<"CR", "LF">>
    <3>1. Len(end) = 2
      BY <2>2
    <3> QED BY <2>2, <3>1
  <2> QED BY <2>1, <2>2
<1>4. end \in Seq(Token)
  <2>1. <<"LF">> \in Seq(Token) /\ <<"CR", "LF">> \in Seq(Token)
    BY DEF Token
  <2> QED BY <2>1
<1>5. /\ L \in Seq(Token) /\ Len(L) = w * n
      /\ \A i \in 1 .. w * n :
          L[i] = IF (i - 1) % w = 0 THEN F[(i - 1) \div w + 1] ELSE end[(i - 1) % w]
  BY <1>2, LinesAre
<1>6. B \in [0 .. N -> Seq(Token)] /\ B[0] = <<>> /\ B[k] = H \o R
  BY BodiesAre
<1>7. c \in Seq(Token) /\ (c = end \/ (c = <<>> /\ k = 1 /\ Len(c) = 0))
  BY <1>4, EmptySeq DEF Blank
<1> HIDE DEF B, F, L, c, n, w
<1>8. /\ H \in Seq(Token) /\ Len(H) = w * n + Len(c)
      /\ \A i \in 1 .. w * n + Len(c) : H[i] = IF i <= w * n THEN L[i] ELSE c[i - w * n]
  <2>1. /\ H \in Seq(Token) /\ Len(H) = Len(L) + Len(c)
        /\ \A i \in 1 .. Len(L) + Len(c) : H[i] = IF i <= Len(L) THEN L[i] ELSE c[i - Len(L)]
    BY <1>5, <1>7, ConcatProperties
  <2> HIDE DEF H
  <2> QED BY <1>5, <2>1
<1>9. R \in Seq(Token)
  BY <1>1, <1>6
<1>10. b \o r = H \o R
  BY <1>6 DEF B
<1> HIDE DEF H, R
<1>11. /\ \A i \in 1 .. Len(b) : i <= Len(H) => b[i] = H[i]
       /\ Len(b) + Len(r) = Len(H) + Len(R)
       /\ Len(b) >= Len(H) => /\ SubSeq(b, Len(H) + 1, Len(b)) \in Seq(Token)
                              /\ SubSeq(b, Len(H) + 1, Len(b)) \o r = R
       /\ Paired(b \o r) => Paired(b)
  <2>1. H \in Seq(Token)
    BY <1>8
  <2>2. PieceOf(b, r, H, R)
    BY <2>1, <1>9, <1>10, RestOf
  <2> QED BY <2>2 DEF PieceOf
<1>12. Len(b) \in Nat /\ Len(r) \in Nat /\ Len(R) \in Nat /\ Len(c) \in Nat /\ w * n \in Nat
  <2>1. w * n \in Nat
    BY <1>2, <1>3
  <2> QED BY <1>7, <1>9, <2>1
<1>13. ASSUME NEW i \in 1 .. Len(b), i <= w * n
       PROVE  b[i] = IF (i - 1) % w = 0 THEN F[(i - 1) \div w + 1] ELSE end[(i - 1) % w]
  <2>1. i \in 1 .. w * n /\ i \in 1 .. w * n + Len(c) /\ i <= Len(H)
    BY <1>8, <1>12, <1>13
  <2> QED BY <1>5, <1>8, <1>11, <1>13, <2>1
\* without a blank line nothing follows the lines
<1>14. c = <<>> => Len(b) <= w * n
  <2>1. ASSUME c = <<>> PROVE Len(R) = 0 /\ Len(c) = 0
    <3>1. Len(c) = 0 /\ (k = 1 \/ c = end)
      BY <1>7, <2>1
    <3>2. k = 1
      <4>1. c # end
        <5>1. <<>> # <<"LF">> /\ <<>> # <<"CR", "LF">>
          OBVIOUS
        <5> QED BY <1>3, <2>1, <5>1
      <4> QED BY <3>1, <4>1
    <3>3. R = <<>>
      BY <1>6, <3>2 DEF R
    <3> QED BY <3>1, <3>3
  <2> QED BY <1>8, <1>11, <1>12, <2>1
<1>15. ASSUME NEW i \in 1 .. Len(b), NEW j \in 1 .. Len(end), i = w * n + j PROVE b[i] = end[j]
  <2>1. c = end
    BY <1>7, <1>12, <1>14, <1>15
  <2>2. Len(end) \in Nat
    BY <1>4
  <2>3. i \in 1 .. w * n + Len(c) /\ ~(i <= w * n) /\ i - w * n = j /\ i <= Len(H)
    <3> DEFINE x == w * n
    <3>1. x \in Nat /\ i = x + j /\ Len(c) = Len(end) /\ Len(H) = x + Len(c)
      BY <1>8, <1>12, <1>15, <2>1
    <3>2. j \in Nat /\ j >= 1 /\ j <= Len(end)
      BY <2>2
    <3> HIDE DEF x
    <3>3. i \in 1 .. x + Len(c) /\ ~(i <= x) /\ i - x = j /\ i <= Len(H)
      BY <2>2, <3>1, <3>2
    <3> QED BY <3>3 DEF x
  <2> QED BY <1>8, <1>11, <2>1, <2>3
\* what no frame was cut from
<1>16. ASSUME Len(b) < w * n + Len(end), r = <<>>
       PROVE  k = 1 /\ Joined(b, list[N], w)
  <2>1. Len(r) = 0 /\ Len(end) \in Nat
    BY <1>4, <1>16
  <2>2. Len(b) = w * n + Len(c) + Len(R)
    BY <1>8, <1>11, <1>12, <2>1
  <2>3. c # end
    BY <1>12, <1>16, <2>1, <2>2
  <2>4. k = 1 /\ c = <<>>
    BY <1>7, <2>3
  <2>5. Len(b) = w * n
    <3>1. Len(R) = 0 /\ Len(c) = 0
      <4>1. R = <<>> /\ c = <<>>
        BY <1>6, <2>4 DEF R
      <4> QED BY <4>1
    <3> QED BY <1>12, <2>2, <3>1
  <2>6. F = list[N]
    <3>1. N - k + 1 = N
      BY <1>1, <2>4
    <3> QED BY <3>1 DEF F
  <2>7. ASSUME NEW i \in 1 .. Len(b)
        PROVE  IF (i - 1) % w = 0 THEN b[i] = F[(i - 1) \div w + 1] ELSE b[i] \in {"CR", "LF"}
    <3>1. i <= w * n /\ i \in Nat /\ i >= 1
      BY <1>12, <2>5
    <3>2. CASE (i - 1) % w = 0
      BY <1>13, <3>1, <3>2
    <3>3. CASE (i - 1) % w # 0
      <4>1. b[i] = end[(i - 1) % w]
        BY <1>13, <3>1, <3>3
      <4>2. end[(i - 1) % w] \in {"CR", "LF"}
        <5>1. CASE w = 2 /\ end = <<"LF">>
          <6>1. (i - 1) % w = 1 /\ end[1] = "LF"
            BY <3>1, <3>3, <5>1
          <6> QED BY <6>1
        <5>2. CASE w = 3 /\ end = <<"CR", "LF">>
          <6>1. (i - 1) % w \in {1, 2} /\ end[1] = "CR" /\ end[2] = "LF"
            BY <3>1, <3>3, <5>2
          <6> QED BY <6>1
        <5> QED BY <1>3, <5>1, <5>2
      <4> QED BY <3>3, <4>1, <4>2
    <3> QED BY <3>2, <3>3
  <2>8. w * (n - 1) + 1 <= w * n
    BY <1>2, <1>3
  <2>9. Joined(b, F, w)
    <3>1. w * (Len(F) - 1) + 1 <= Len(b) /\ Len(b) <= w * Len(F)
      BY <1>12, <2>5, <2>8 DEF n
    <3> QED BY <1>2, <2>7, <3>1 DEF Joined
  <2> QED BY <2>4, <2>6, <2>9
\* what follows the frame that was cut off
<1>17. ASSUME Len(b) >= w * n + Len(end)
       PROVE  /\ SubSeq(b, w * n + Len(end) + 1, Len(b)) \in Seq(Token)
              /\ SubSeq(b, w * n + Len(end) + 1, Len(b)) \o r = R
  <2>1. Len(end) \in Nat /\ Len(end) >= 1
    BY <1>3, <1>4 DEF w
  <2>2. c = end
    BY <1>7, <1>12, <1>14, <1>17, <2>1
  <2>3. Len(H) = w * n + Len(end)
    BY <1>8, <2>2
  <2> QED BY <1>11, <1>17, <2>3
<1>18. CASE w = 2 /\ end = <<"LF">>
  <2>1. Len(end) = 1 /\ end[1] = "LF" /\ 1 \in 1 .. Len(end)
    <3>1. Len(end) = 1
      BY <1>18
    <3> QED BY <1>18, <3>1
  <2>2. ASSUME NEW i \in 1 .. Len(b), i <= 2 * Len(F)
        PROVE  IF (i - 1) % 2 = 0 THEN b[i] = F[(i - 1) \div 2 + 1] ELSE b[i] = "LF"
    <3>1. (i - 1) % 2 \in {0, 1} /\ i <= w * n
      BY <1>12, <1>18, <2>2 DEF n
    <3>2. b[i] = IF (i - 1) % 2 = 0 THEN F[(i - 1) \div 2 + 1] ELSE end[(i - 1) % 2]
      BY <1>13, <1>18, <3>1
    <3> QED BY <2>1, <3>1, <3>2
  <2>3. \A i \in 1 .. Len(b) : i = 2 * Len(F) + 1 => b[i] = "LF"
    BY <1>15, <1>18, <2>1 DEF n
  <2>4. IF Len(b) >= 2 * n + 1
        THEN next_frame(b) = CutAt(b, 2 * n, 2) /\ Joined(SubSeq(b, 1, 2 * n - 1), F, 2)
        ELSE next_frame(b) = <<>>
    BY <1>2, <2>2, <2>3, CutAfterLF DEF n
  <2>5. CASE Len(b) >= 2 * n + 1
    <3> DEFINE s == SubSeq(b, 1, 2 * n - 1)
               d == SubSeq(b, 2 * n + 2, Len(b))
    <3>1. next_frame(b) = <<[frame |-> s, rest |-> d]>>
      BY <2>4, <2>5 DEF CutAt
    <3>2. Joined(s, F, 2)
      BY <2>4, <2>5
    <3>3. d \in Seq(Token) /\ d \o r = R
      <4>1. w * n + Len(end) + 1 = 2 * n + 2 /\ Len(b) >= w * n + Len(end)
        BY <1>2, <1>18, <2>1, <2>5
      <4> QED BY <1>17, <4>1
    <3> HIDE DEF s, d
    <3> QED BY <3>1, <3>2, <3>3 DEF R, F, B, CutIs
  <2>6. CASE ~(Len(b) >= 2 * n + 1)
    <3>1. Len(b) < w * n + Len(end)
      BY <1>2, <1>12, <1>18, <2>1, <2>6
    <3> QED BY <1>16, <1>18, <2>4, <2>6, <3>1 DEF CutIs
  <2> QED BY <2>5, <2>6
<1>19. CASE w = 3 /\ end = <<"CR", "LF">>
  <2>1. /\ Len(end) = 2 /\ end[1] = "CR" /\ end[2] = "LF"
        /\ 1 \in 1 .. Len(end) /\ 2 \in 1 .. Len(end)
    <3>1. Len(end) = 2
      BY <1>19
    <3> QED BY <1>19, <3>1
  <2>2. ASSUME NEW i \in 1 .. Len(b), i <= 3 * Len(F)
        PROVE  /\ (i - 1) % 3 = 0 => b[i] = F[(i - 1) \div 3 + 1]
               /\ (i - 1) % 3 = 1 => b[i] = "CR"
               /\ (i - 1) % 3 = 2 => b[i] = "LF"
    <3>1. i <= w * n
      BY <1>12, <1>19, <2>2 DEF n
    <3>2. b[i] = IF (i - 1) % 3 = 0 THEN F[(i - 1) \div 3 + 1] ELSE end[(i - 1) % 3]
      BY <1>13, <1>19, <3>1
    <3> QED BY <2>1, <3>2
  <2>3. \A i \in 1 .. Len(b) : i = 3 * Len(F) + 1 => b[i] = "CR"
    BY <1>15, <1>19, <2>1 DEF n
  <2>4. \A i \in 1 .. Len(b) : i = 3 * Len(F) + 2 => b[i] = "LF"
    BY <1>15, <1>19, <2>1 DEF n
  <2>5. Paired(b)
    <3>1. Paired(B[k])
      BY <1>19, BodiesPaired DEF B
    <3> QED BY <1>6, <1>10, <1>11, <3>1
  <2>6. IF Len(b) >= 3 * n + 2
        THEN next_frame(b) = CutAt(b, 3 * n - 1, 4) /\ Joined(SubSeq(b, 1, 3 * n - 2), F, 3)
        ELSE next_frame(b) = <<>>
    BY <1>2, <2>2, <2>3, <2>4, <2>5, CutAfterCRLF DEF n
  <2>7. CASE Len(b) >= 3 * n + 2
    <3> DEFINE s == SubSeq(b, 1, 3 * n - 2)
               d == SubSeq(b, 3 * n + 3, Len(b))
    <3>1. next_frame(b) = <<[frame |-> s, rest |-> d]>>
      <4>1. 3 * n - 1 - 1 = 3 * n - 2 /\ 3 * n - 1 + 4 = 3 * n + 3
        BY <1>2
      <4>2. next_frame(b) = <<[frame |-> SubSeq(b, 1, 3 * n - 1 - 1),
                               rest |-> SubSeq(b, 3 * n - 1 + 4, Len(b))]>>
        BY <2>6, <2>7 DEF CutAt
      <4> QED BY <4>1, <4>2
    <3>2. Joined(s, F, 3)
      BY <2>6, <2>7
    <3>3. d \in Seq(Token) /\ d \o r = R
      <4>1. w * n + Len(end) + 1 = 3 * n + 3 /\ Len(b) >= w * n + Len(end)
        BY <1>2, <1>19, <2>1, <2>7
      <4> QED BY <1>17, <4>1
    <3> HIDE DEF s, d
    <3> QED BY <3>1, <3>2, <3>3 DEF R, F, B, CutIs
  <2>8. CASE ~(Len(b) >= 3 * n + 2)
    <3>1. Len(b) < w * n + Len(end)
      BY <1>2, <1>12, <1>19, <2>1, <2>8
    <3> QED BY <1>16, <1>19, <2>6, <2>8, <3>1 DEF CutIs
  <2> QED BY <2>7, <2>8
<1> QED BY <1>3, <1>18, <1>19

-----------------------------------------------------------------------------
\* What is delivered

Anything == Payload \cup Events

\* x leaves the last j frames in front of r, and has the events of the others.
Kept(list, end, closed, r, k, x) ==
  \E j \in 0 .. k :
    /\ x.rest \o r = Bodies(list, end, closed)[j]
    /\ next_frame(x.rest) = <<>>
    /\ Expecteds(list)[Len(list) - k] \o x.events = Expecteds(list)[Len(list) - j]

\* Concatenation of events is associative,
LEMMA Regrouped ==
  \A x, y, z \in Seq(Anything) : (x \o y) \o z = x \o (y \o z)
  BY ConcatAssociative

\* and of tokens.
LEMMA RegroupedTokens ==
  \A x, y, z \in Seq(Token) : (x \o y) \o z = x \o (y \o z)
  BY ConcatAssociative

\* There is no frame in an empty buffer.
LEMMA NoFrameInNothing == next_frame(<<>>) = <<>>
<1> DEFINE b == <<>>
<1>1. b \in Seq(Token) /\ DOMAIN b = {}
  OBVIOUS
<1> HIDE DEF b
<1>2. \A sep : NoneIn(sep, b)
  BY <1>1 DEF NoneIn
<1>3. next_frame(b) = <<>>
  BY <1>1, <1>2, NextFrame
<1> QED BY <1>3 DEF b

\* Draining gives the events of the frames it cuts, and leaves the rest of the body.
LEMMA DrainKeeps ==
  ASSUME NEW list \in Seq(Seq(Text)), \A i \in 1 .. Len(list) : list[i] # <<>>,
         NEW end \in {<<"LF">>, <<"CR", "LF">>}, NEW closed \in BOOLEAN,
         NEW r \in Seq(Token), NEW b0 \in Seq(Token), NEW k0 \in 0 .. Len(list),
         b0 \o r = Bodies(list, end, closed)[k0], Drain(b0).ok
  PROVE  Kept(list, end, closed, r, k0, Drain(b0))
<1> DEFINE N == Len(list)
           B == Bodies(list, end, closed)
           E == Expecteds(list)
           D == Suffixes(b0)
           Keeps(k, x) == Kept(list, end, closed, r, k, x)
<1>1. N \in Nat
  OBVIOUS
<1>2. PICK p : Drain(b0) = p[b0] /\ \A c \in D : p[c] \in Results /\ p[c] = Pushed(p, c)
  BY DrainIs
<1>3. /\ b0 \in D /\ Len(b0) \in Nat
      /\ \A c \in D : c \in Seq(Token) /\ Len(c) \in Nat /\ Len(c) <= Len(b0)
  BY SuffixesAre
<1>4. /\ E \in [0 .. N -> Seq(Payload)]
      /\ \A k \in 1 .. N : E[k] = E[k - 1] \o parse_frame(list[k])
  BY ExpectedsAre
<1>5. \A k \in 0 .. N : E[k] \in Seq(Anything)
  BY <1>4, SeqMonotonic DEF Anything
<1>6. B \in [0 .. N -> Seq(Token)] /\ B[0] = <<>>
  BY BodiesAre
<1> DEFINE Claim(n) == \A c \in D, k \in 0 .. N :
                          Len(c) < n /\ c \o r = B[k] /\ p[c].ok => Keeps(k, p[c])
           T == {n \in Nat : Claim(n)}
<1> HIDE DEF D, B, E
\* nothing is cut off
<1>7. ASSUME NEW c \in D, NEW k \in 0 .. N, c \o r = B[k], next_frame(c) = <<>>
      PROVE  Keeps(k, p[c])
  <2>1. p[c] = [events |-> <<>>, rest |-> c, ok |-> TRUE]
    BY <1>2, <1>7 DEF Pushed
  <2>2. N - k \in 0 .. N
    BY <1>1
  <2>3. E[N - k] \o <<>> = E[N - k]
    BY <1>5, <2>2, ConcatEmptySeq
  <2>4. p[c].rest = c /\ p[c].events = <<>>
    BY <2>1
  <2>5. k \in 0 .. k
    BY <1>1
  <2> QED BY <1>7, <2>3, <2>4, <2>5 DEF Kept, B, E
\* a frame is cut off and parsed
<1>8. ASSUME NEW n \in Nat, Claim(n), NEW c \in D, NEW k \in 1 .. N, Len(c) < n + 1,
             c \o r = B[k], p[c].ok, next_frame(c) # <<>>
      PROVE  Keeps(k, p[c])
  <2>1. PICK s, d, w : /\ next_frame(c) = <<[frame |-> s, rest |-> d]>>
                       /\ w \in {2, 3} /\ Joined(s, list[N - k + 1], w)
                       /\ d \in Seq(Token) /\ d \o r = B[k - 1]
    <3>1. c \in Seq(Token) /\ c \o r = Bodies(list, end, closed)[k]
      BY <1>3, <1>8 DEF B
    <3>2. CutIs(list, end, closed, k, c, r)
      BY <3>1, CutBody
    <3> QED BY <1>8, <3>2 DEF CutIs, B
  <2> DEFINE parsed == parse_frame(s)
             x == p[d]
  <2>2. parsed = parse_frame(list[N - k + 1])
    BY <2>1, JoinedParses
  <2>3. d \in D /\ Len(d) < n
    <3>1. PICK q \in 1 .. Len(c), v \in {2, 4} :
                 q + v <= Len(c) + 1 /\ next_frame(c) = CutAt(c, q, v)
      BY <1>3, <1>8, NextFrameCuts
    <3>2. d = SubSeq(c, q + v, Len(c))
      BY <2>1, <3>1 DEF CutAt
    <3>3. /\ q + v \in 1 .. Len(b0) + 1 /\ q + v <= Len(c) + 1
          /\ q + v \in Int /\ Len(c) \in Int
      BY <1>3, <3>1
    <3>4. d \in D
      BY <3>2, <3>3, SuffixesAre DEF D
    <3>5. Len(d) = IF q + v <= Len(c) THEN Len(c) - (q + v) + 1 ELSE 0
      <4>1. c \in Seq(Token)
        BY <1>3
      <4>2. \A i \in q + v .. Len(c) : c[i] \in Token
        BY <3>1, <4>1
      <4> QED BY <3>2, <3>3, <4>2, SubSeqProperties
    <3>6. Len(d) < Len(c)
      BY <1>3, <3>1, <3>5
    <3>7. Len(d) \in Nat /\ Len(c) \in Nat
      BY <1>3, <3>4
    <3> QED BY <1>8, <3>4, <3>6, <3>7
  <2>4. Parses(parsed) /\ x.ok /\ p[c] = [x EXCEPT !.events = parsed \o @]
    <3>1. next_frame(c)[1].frame = s /\ next_frame(c)[1].rest = d /\ next_frame(c) # <<>>
      BY <1>8, <2>1
    <3>2. p[c] = IF ~Parses(parsed) THEN [events |-> <<>>, rest |-> d, ok |-> FALSE]
                 ELSE IF x.ok THEN [x EXCEPT !.events = parsed \o @] ELSE x
      BY <1>2, <3>1 DEF Pushed
    <3> HIDE DEF parsed, x
    <3> QED BY <1>8, <3>2
  <2>5. x \in Results
    BY <1>2, <2>3
  <2>6. p[c].rest = x.rest /\ p[c].events = parsed \o x.events
    <3> HIDE DEF x, parsed
    <3> QED BY <2>4, <2>5 DEF Results
  <2>7. Keeps(k - 1, x)
    <3>1. k - 1 \in 0 .. N
      BY <1>1
    <3> HIDE DEF Keeps
    <3> QED BY <1>8, <2>1, <2>3, <2>4, <3>1
  <2>8. PICK j \in 0 .. k - 1 : /\ x.rest \o r = B[j]
                                /\ next_frame(x.rest) = <<>>
                                /\ E[N - (k - 1)] \o x.events = E[N - j]
    BY <2>7 DEF Kept, B, E
  <2>9. /\ N - k \in 0 .. N /\ N - k + 1 \in 1 .. N /\ N - (k - 1) = N - k + 1
        /\ (N - k + 1) - 1 = N - k /\ j \in 0 .. k
    <3>1. k \in Nat /\ k >= 1 /\ k <= N
      BY <1>1
    <3>2. j \in 0 .. k
      BY <3>1
    <3>3. N - k \in 0 .. N /\ N - k + 1 \in 1 .. N
      BY <1>1, <3>1
    <3>4. N - (k - 1) = N - k + 1 /\ (N - k + 1) - 1 = N - k
      BY <1>1, <3>1
    <3> QED BY <3>2, <3>3, <3>4
  <2>10. E[N - (k - 1)] = E[N - k] \o parsed
    BY <1>4, <2>2, <2>9
  <2> DEFINE a == E[N - k]
             e == x.events
  <2>11. a \in Seq(Anything) /\ parsed \in Seq(Anything) /\ e \in Seq(Anything)
    <3>1. parsed \in Seq(Payload)
      <4>1. s \in Seq(Token)
        BY <2>1 DEF Joined
      <4> QED BY <4>1, ParsedIs DEF Payload
    <3>2. parsed \in Seq(Anything)
      BY <3>1, SeqMonotonic DEF Anything
    <3>3. e \in Seq(Events)
      BY <2>5 DEF Results
    <3>4. e \in Seq(Anything)
      BY <3>3, SeqMonotonic DEF Anything
    <3> QED BY <1>5, <2>9, <3>2, <3>4
  <2>12. a \o (parsed \o e) = E[N - j]
    <3> HIDE DEF parsed
    <3>1. (a \o parsed) \o e = a \o (parsed \o e)
      <4> HIDE DEF a, e, x
      <4> QED BY ONLY <2>11, Regrouped
    <3> QED BY <2>8, <2>10, <3>1
  <2> HIDE DEF parsed, x
  <2>13. E[N - k] \o p[c].events = E[N - j]
    BY <2>6, <2>12
  <2> QED BY <2>6, <2>8, <2>9, <2>13 DEF Kept, B, E
<1>9. ASSUME NEW n \in Nat, n \in T PROVE n + 1 \in T
  <2> SUFFICES ASSUME NEW c \in D, NEW k \in 0 .. N, Len(c) < n + 1, c \o r = B[k], p[c].ok
               PROVE  Keeps(k, p[c])
    <3> HIDE DEF Keeps
    <3>1. Claim(n + 1)
      OBVIOUS
    <3> HIDE DEF Claim
    <3> QED BY <3>1
  <2> HIDE DEF Keeps
  <2>1. CASE next_frame(c) = <<>>
    BY <1>7, <2>1
  <2>2. CASE next_frame(c) # <<>>
    <3>1. k # 0
      <4>1. SUFFICES ASSUME k = 0 PROVE FALSE
        OBVIOUS
      <4>2. c \o r = <<>> /\ c \in Seq(Token)
        BY <1>3, <1>6, <4>1
      <4>3. c = <<>>
        BY <4>2, ConcatEqualIffEmpty
      <4> QED BY <2>2, <4>3, NoFrameInNothing
    <3>2. k \in 1 .. N
      BY <1>1, <3>1
    <3>3. Claim(n)
      BY <1>9
    <3> HIDE DEF Claim
    <3> QED BY <1>8, <2>2, <3>2, <3>3
  <2> QED BY <2>1, <2>2
<1>10. 0 \in T
  <2>1. \A c \in D : ~(Len(c) < 0)
    BY <1>3
  <2> HIDE DEF Keeps
  <2> QED BY <2>1
<1>11. Claim(Len(b0) + 1)
  <2> HIDE DEF Claim
  <2>1. \A n \in Nat : n \in T => n + 1 \in T
    BY <1>9
  <2> HIDE DEF T
  <2>2. Nat \subseteq T
    BY <1>10, <2>1, Induction
  <2> QED BY <1>3, <2>2 DEF T
<1>12. Keeps(k0, p[b0])
  <2>1. b0 \o r = B[k0] /\ p[b0].ok
    BY <1>2 DEF B
  <2>2. b0 \in D /\ k0 \in 0 .. N /\ Len(b0) < Len(b0) + 1
    BY <1>3
  <2> HIDE DEF Keeps
  <2> QED BY <1>11, <2>1, <2>2
<1> QED BY <1>2, <1>12

\* The last k frames are in the buffer and on the wire, the events of the others
\* have been delivered or are pending.
Standing(closed, k) ==
  /\ buffer \o wire = Bodies(frames, eol, closed)[k]
  /\ next_frame(buffer) = <<>>
  /\ delivered \o pending = Expecteds(frames)[Len(frames) - k]

StreamInv ==
  /\ frames \in Seq(Seq(Text)) /\ delivered \in Seq(Anything)
  /\ phase \in {"send", "backoff", "failed"} =>
       frames = <<>> /\ buffer = <<>> /\ pending = <<>> /\ delivered = <<>> /\ ~done
  /\ phase = "stream" =>
       /\ frames \in FrameLists /\ eol \in LineEnds /\ (done => wire = <<>>)
       /\ errors = 0 => \E closed \in BOOLEAN, k \in 0 .. Len(frames) : Standing(closed, k)
  /\ phase = "ended" /\ errors = 0 =>
       pending = <<>> /\ delivered = Expecteds(frames)[Len(frames)]

\* A server that sends no frame expects nothing.
LEMMA NothingExpected == Expecteds(<<>>)[Len(<<>>)] = <<>>
<1> DEFINE list == <<>>
<1>1. list \in Seq(Seq(Text)) /\ Len(list) = 0
  OBVIOUS
<1> HIDE DEF list
<1>2. Expecteds(list)[0] = <<>>
  BY <1>1, ExpectedsAre
<1> QED BY <1>1, <1>2 DEF list

\* Before a stream begins nothing is delivered.
LEMMA InitStream ==
  ASSUME Init
  PROVE  StreamInv
<1>1. frames = <<>> /\ buffer = <<>> /\ pending = <<>> /\ delivered = <<>> /\ done = FALSE
  BY DEF Init
<1>2. phase \in {"send", "failed"}
  BY DEF Init
<1>3. frames \in Seq(Seq(Text)) /\ delivered \in Seq(Anything)
  BY <1>1, EmptySeq
<1> QED BY <1>1, <1>2, <1>3 DEF StreamInv

\* Handing out the first pending event moves it to the end of the delivered ones.
LEMMA PopKeeps ==
  ASSUME NEW s \in Seq(Anything), NEW t \in Seq(Anything), t # <<>>
  PROVE  /\ Append(s, Head(t)) \in Seq(Anything)
         /\ Append(s, Head(t)) \o Tail(t) = s \o t
<1> DEFINE h == Head(t)
           u == Tail(t)
<1>1. h \in Anything /\ u \in Seq(Anything)
  BY HeadTailProperties
<1>2. t = <<h>> \o u
  <2>1. Len(t) \in Nat /\ Len(t) # 0
    BY EmptySeq
  <2>2. 1 \in 1 .. Len(t) /\ Len(t) \in 1 .. Len(t)
    BY <2>1
  <2>3. SubSeq(t, 1, Len(t)) = <<t[1]>> \o SubSeq(t, 1 + 1, Len(t))
    BY <2>2, SubSeqRecursiveFirst
  <2>4. SubSeq(t, 1, Len(t)) = t
    BY SubSeqFull
  <2>5. u = SubSeq(t, 2, Len(t))
    BY TailIsSubSeq
  <2>6. h = t[1]
    BY <2>2
  <2> QED BY <2>3, <2>4, <2>5, <2>6
<1> HIDE DEF h, u
<1>3. Append(s, h) = s \o <<h>> /\ Append(s, h) \in Seq(Anything) /\ <<h>> \in Seq(Anything)
  <2>1. <<h>> \in Seq(Anything)
    BY <1>1
  <2> QED BY <1>1, <2>1, AppendIsConcat, AppendProperties
<1>4. Append(s, h) \o u = s \o t
  BY <1>1, <1>2, <1>3, Regrouped
<1> QED BY <1>3, <1>4 DEF h, u

\* Every step keeps delivered, pending, buffer and wire together the whole answer.
LEMMA StepStream ==
  ASSUME StreamInv, BufferInv, [Next]_vars
  PROVE  StreamInv'
<1> DEFINE N == Len(frames)
           B(closed) == Bodies(frames, eol, closed)
           E == Expecteds(frames)
<1>0. /\ frames \in Seq(Seq(Text)) /\ delivered \in Seq(Anything)
      /\ wire \in Seq(Token) /\ buffer \in Seq(Token) /\ pending \in Seq(Events)
      /\ errors \in Nat /\ N \in Nat /\ pending \in Seq(Anything)
  <2>1. frames \in Seq(Seq(Text)) /\ delivered \in Seq(Anything)
    BY DEF StreamInv
  <2>2. wire \in Seq(Token) /\ buffer \in Seq(Token) /\ pending \in Seq(Events) /\ errors \in Nat
    BY DEF BufferInv
  <2>3. pending \in Seq(Anything)
    BY <2>2, SeqMonotonic DEF Anything
  <2> QED BY <2>1, <2>2, <2>3
\* what holds while the stream is read
<1>a. ASSUME phase = "stream"
      PROVE  /\ frames \in FrameLists /\ eol \in LineEnds /\ (done => wire = <<>>)
             /\ \A i \in 1 .. N : frames[i] # <<>>
             /\ eol \in {<<"LF">>, <<"CR", "LF">>}
             /\ errors = 0 => \E closed \in BOOLEAN, k \in 0 .. N : Standing(closed, k)
  <2>1. /\ frames \in FrameLists /\ eol \in LineEnds /\ (done => wire = <<>>)
        /\ errors = 0 => \E closed \in BOOLEAN, k \in 0 .. N : Standing(closed, k)
    BY <1>a DEF StreamInv
  <2>2. \A i \in 1 .. N : frames[i] # <<>>
    BY <2>1, Streams
  <2>3. eol \in {<<"LF">>, <<"CR", "LF">>}
    BY <2>1, EventStreams
  <2> QED BY <2>1, <2>2, <2>3
\* the frames stay what they are in every step but one
<1>b. ASSUME UNCHANGED <<frames, streamVars>>, phase' = phase, UNCHANGED eol PROVE StreamInv'
  <2>1. UNCHANGED <<frames, wire, buffer, pending, done, delivered, errors, phase, eol>>
    BY <1>b DEF streamVars
  <2>2. \A closed, k : Standing(closed, k) => Standing(closed, k)'
    BY <2>1 DEF Standing
  <2> QED BY <2>1, <2>2 DEF StreamInv
<1>c. ASSUME UNCHANGED <<frames, streamVars>>, phase \in {"send", "backoff"},
             phase' \in {"send", "backoff", "failed"}
      PROVE  StreamInv'
  BY <1>c DEF StreamInv, streamVars
<1>1. CASE SendFails
  <2>1. phase' \in {"backoff", "failed"} /\ UNCHANGED <<frames, streamVars>> /\ phase = "send"
    BY <1>1 DEF SendFails, ExchangeFails, Fail
  <2> QED BY <1>c, <2>1
<1>2. CASE SendMessage
  <2>1. phase' \in {"ended", "failed"} /\ UNCHANGED <<frames, streamVars>> /\ phase = "send"
    BY <1>2 DEF SendMessage
  <2>2. /\ UNCHANGED <<frames, buffer, pending, delivered, done>>
        /\ frames = <<>> /\ pending = <<>> /\ delivered = <<>>
    BY <2>1 DEF streamVars, StreamInv
  <2>3. delivered' = Expecteds(frames')[Len(frames')]
    BY <2>2, NothingExpected
  <2> QED BY <1>0, <2>1, <2>2, <2>3 DEF StreamInv
<1>3. CASE SendSucceeds
  <2>1. PICK closed \in BOOLEAN : wire' = Render(frames', eol', closed)
    BY <1>3 DEF SendSucceeds
  <2>2. /\ frames' \in FrameLists /\ eol' \in LineEnds /\ phase' = "stream" /\ phase = "send"
        /\ UNCHANGED <<buffer, pending, delivered, done, errors>>
    BY <1>3 DEF SendSucceeds
  <2>3. buffer = <<>> /\ pending = <<>> /\ delivered = <<>> /\ ~done
    BY <2>2 DEF StreamInv
  <2>4. frames' \in Seq(Seq(Text)) /\ eol' \in {<<"LF">>, <<"CR", "LF">>}
    BY <2>2, Streams, EventStreams
  <2> DEFINE n == Len(frames')
  <2>5. n \in Nat /\ n \in 0 .. n /\ n - n = 0
    BY <2>4
  <2>6. wire' = Bodies(frames', eol', closed)[n] /\ wire' \in Seq(Token)
    <3>1. /\ wire' = Bodies(frames', eol', closed)[n]
          /\ Bodies(frames', eol', closed) \in [0 .. n -> Seq(Token)]
      BY <2>1, <2>4, BodiesAre
    <3> HIDE DEF n
    <3> QED BY <2>5, <3>1
  <2>7. buffer' \o wire' = Bodies(frames', eol', closed)[n]
    BY <2>2, <2>3, <2>6, ConcatEmptySeq
  <2>8. delivered' \o pending' = Expecteds(frames')[n - n]
    <3>1. Expecteds(frames')[0] = <<>>
      BY <2>4, ExpectedsAre
    <3>2. delivered' \o pending' = <<>>
      <4>1. <<>> \o <<>> = <<>>
        OBVIOUS
      <4> QED BY <2>2, <2>3, <4>1
    <3> QED BY <2>5, <3>1, <3>2
  <2>9. next_frame(buffer') = <<>>
    BY <2>2, <2>3, NoFrameInNothing
  <2>10. \A m : m = n => Standing(closed, m)'
    BY <2>7, <2>8, <2>9 DEF Standing
  <2>11. (\E c \in BOOLEAN, k \in 0 .. Len(frames) : Standing(c, k))'
    BY <2>5, <2>10
  <2> QED BY <1>0, <2>2, <2>3, <2>4, <2>11 DEF StreamInv
<1>4. CASE Backoff
  <2>1. phase' \in {"send", "failed"} /\ UNCHANGED <<frames, streamVars>> /\ phase = "backoff"
    BY <1>4 DEF Backoff
  <2> QED BY <1>c, <2>1
<1>5. CASE Pop
  <2>1. /\ phase = "stream" /\ phase' = phase /\ pending # <<>>
        /\ UNCHANGED <<frames, eol, wire, buffer, done, errors>>
        /\ delivered' = Append(delivered, Head(pending)) /\ pending' = Tail(pending)
    BY <1>5 DEF Pop
  <2>2. delivered' \in Seq(Anything) /\ delivered' \o pending' = delivered \o pending
    BY <1>0, <2>1, PopKeeps
  <2>3. \A closed, k : Standing(closed, k) => Standing(closed, k)'
    BY <2>1, <2>2 DEF Standing
  <2> QED BY <1>0, <1>a, <2>1, <2>2, <2>3 DEF StreamInv
<1>6. CASE Chunk
  <2> DEFINE piece(n) == SubSeq(wire, 1, n)
             b(n) == buffer \o piece(n)
             r(n) == Drain(b(n))
  <2>1. PICK n \in 1 .. Len(wire) :
          /\ wire' = SubSeq(wire, n + 1, Len(wire))
          /\ buffer' = r(n).rest /\ pending' = r(n).events
          /\ errors' = errors + (IF r(n).ok THEN 0 ELSE 1)
    BY <1>6 DEF Chunk
  <2>2. /\ phase = "stream" /\ phase' = phase /\ pending = <<>> /\ ~done
        /\ UNCHANGED <<frames, eol, done, delivered>>
    BY <1>6 DEF Chunk
  <2>3. /\ piece(n) \in Seq(Token) /\ wire' \in Seq(Token)
        /\ piece(n) \o wire' = wire
    <3>1. /\ Len(wire) \in Nat /\ 1 \in 1 .. Len(wire) + 1
          /\ n \in 1 - 1 .. Len(wire) /\ Len(wire) \in n .. Len(wire)
      BY <1>0
    <3>2. piece(n) \o wire' = SubSeq(wire, 1, Len(wire))
      BY <1>0, <2>1, <3>1, ConcatAdjacentSubSeq
    <3>3. SubSeq(wire, 1, Len(wire)) = wire
      BY <1>0, SubSeqFull
    <3>4. /\ 1 \in Int /\ n \in Int /\ n + 1 \in Int /\ Len(wire) \in Int
          /\ \A i \in 1 .. n : wire[i] \in Token
          /\ \A i \in n + 1 .. Len(wire) : wire[i] \in Token
      BY <1>0, <3>1
    <3>5. piece(n) \in Seq(Token) /\ SubSeq(wire, n + 1, Len(wire)) \in Seq(Token)
      BY <3>4, SubSeqProperties
    <3> QED BY <2>1, <3>2, <3>3, <3>5
  <2> HIDE DEF piece
  <2>4. b(n) \in Seq(Token) /\ b(n) \o wire' = buffer \o wire
    <3>1. (buffer \o piece(n)) \o wire' = buffer \o (piece(n) \o wire')
      <4> DEFINE p == piece(n)  w == wire'
      <4>1. buffer \in Seq(Token) /\ p \in Seq(Token) /\ w \in Seq(Token)
        BY <1>0, <2>3
      <4> HIDE DEF p, w
      <4>2. (buffer \o p) \o w = buffer \o (p \o w)
        BY ONLY <4>1, RegroupedTokens
      <4> QED BY <4>2 DEF p, w
    <3> QED BY <1>0, <2>3, <3>1, ConcatProperties
  <2> HIDE DEF b
  <2>5. errors' = 0 => errors = 0 /\ r(n).ok
    <3> HIDE DEF r
    <3> QED BY <1>0, <2>1
  <2>6. ASSUME errors' = 0
        PROVE  (\E closed \in BOOLEAN, k \in 0 .. Len(frames) : Standing(closed, k))'
    <3>1. PICK closed \in BOOLEAN, k \in 0 .. N : Standing(closed, k)
      BY <1>a, <2>2, <2>5, <2>6
    <3>2. b(n) \o wire' = Bodies(frames, eol, closed)[k]
      BY <2>4, <3>1 DEF Standing
    <3>3. Kept(frames, eol, closed, wire', k, r(n))
      <4>1. \A i \in 1 .. N : frames[i] # <<>>
        BY <1>a, <2>2
      <4>2. eol \in {<<"LF">>, <<"CR", "LF">>}
        BY <1>a, <2>2
      <4>3. Drain(b(n)).ok
        BY <2>5, <2>6
      <4> QED BY <1>0, <2>3, <2>4, <3>2, <4>1, <4>2, <4>3, DrainKeeps
    <3>4. PICK j \in 0 .. k : /\ buffer' \o wire' = Bodies(frames, eol, closed)[j]
                              /\ next_frame(buffer') = <<>>
                              /\ Expecteds(frames)[N - k] \o pending' = Expecteds(frames)[N - j]
      <4> HIDE DEF r
      <4> QED BY <2>1, <3>3 DEF Kept
    <3>5. delivered = Expecteds(frames)[N - k]
      <4>1. delivered \o pending = delivered
        BY <1>0, <2>2, ConcatEmptySeq
      <4> QED BY <3>1, <4>1 DEF Standing
    <3>6. delivered' \o pending' = Expecteds(frames)[N - j]
      BY <2>2, <3>4, <3>5
    <3>7. Standing(closed, j)'
      BY <2>2, <3>4, <3>6 DEF Standing, next_frame
    <3>8. j \in 0 .. N
      BY <1>0
    <3> QED BY <2>2, <3>7, <3>8
  <2> QED BY <1>0, <1>a, <2>2, <2>6 DEF StreamInv
<1>7. CASE EndOfBody
  <2>1. /\ phase = "stream" /\ pending = <<>> /\ wire = <<>> /\ done' = ~broken
        /\ errors' = errors + (IF broken THEN 1 ELSE 0)
        /\ phase' = IF broken THEN "ended" ELSE phase
        /\ UNCHANGED <<frames, eol, wire, buffer, pending, delivered>>
    BY <1>7 DEF EndOfBody
  <2>2. \A closed, k : Standing(closed, k) => Standing(closed, k)'
    BY <2>1 DEF Standing
  <2>3. CASE broken
    <3>1. errors' # 0 /\ phase' = "ended"
      BY <1>0, <2>1, <2>3
    <3> QED BY <1>0, <2>1, <3>1 DEF StreamInv
  <2>4. CASE ~broken
    <3>1. errors' = errors /\ phase' = "stream"
      BY <1>0, <2>1, <2>4
    <3> QED BY <1>0, <1>a, <2>1, <2>2, <3>1 DEF StreamInv
  <2> QED BY <2>3, <2>4
<1>8. CASE Finish
  <2> DEFINE parsed == finish(buffer)
             ok == Parses(parsed)
  <2>1. /\ phase = "stream" /\ pending = <<>> /\ done /\ buffer' = <<>>
        /\ delivered' = IF ok THEN delivered \o parsed ELSE delivered
        /\ errors' = errors + (IF ok THEN 0 ELSE 1)
        /\ phase' = IF ok /\ parsed # <<>> THEN phase ELSE "ended"
        /\ UNCHANGED <<frames, eol, wire, pending, done>>
    BY <1>8 DEF Finish
  <2>2. wire = <<>> /\ buffer \o wire = buffer
    BY <1>0, <1>a, <2>1, ConcatEmptySeq
  <2>3. parsed \in Seq(Anything)
    <3>1. parse_frame(buffer) \in Seq(Payload)
      BY <1>0, ParsedIs DEF Payload
    <3>2. parse_frame(buffer) \in Seq(Anything)
      BY <3>1, SeqMonotonic DEF Anything
    <3> QED BY <3>2, EmptySeq DEF finish
  <2> HIDE DEF parsed
  <2>4. delivered' \in Seq(Anything)
    BY <1>0, <2>1, <2>3, ConcatProperties
  <2>5. ASSUME errors' = 0
        PROVE  delivered' = Expecteds(frames)[N]
    <3>1. errors = 0 /\ ok
      <4> HIDE DEF ok
      <4> QED BY <1>0, <2>1, <2>5
    <3>2. delivered' = delivered \o parsed
      BY <2>1, <3>1
    <3>3. PICK closed \in BOOLEAN, k \in 0 .. N : Standing(closed, k)
      BY <1>a, <2>1, <3>1
    <3>4. buffer = Bodies(frames, eol, closed)[k] /\ next_frame(buffer) = <<>>
      BY <2>2, <3>3 DEF Standing
    <3>5. delivered = Expecteds(frames)[N - k]
      <4>1. delivered \o pending = delivered
        BY <1>0, <2>1, ConcatEmptySeq
      <4> QED BY <3>3, <4>1 DEF Standing
    <3>6. CASE k = 0
      <4>1. eol \in {<<"LF">>, <<"CR", "LF">>}
        BY <1>a, <2>1
      <4>2. Bodies(frames, eol, closed)[0] = <<>>
        BY <1>0, <4>1, BodiesAre
      <4>3. parsed = <<>>
        BY <3>4, <3>6, <4>2 DEF parsed, finish
      <4>4. N - k = N
        BY <1>0, <3>6
      <4> QED BY <1>0, <3>2, <3>5, <4>3, <4>4, ConcatEmptySeq
    <3>7. CASE k # 0
      <4>1. k \in 1 .. N
        BY <1>0, <3>7
      <4>2. CutIs(frames, eol, closed, k, buffer, wire)
        <5>1. \A i \in 1 .. Len(frames) : frames[i] # <<>>
          BY <1>a, <2>1
        <5>2. eol \in {<<"LF">>, <<"CR", "LF">>}
          BY <1>a, <2>1
        <5>3. buffer \o wire = Bodies(frames, eol, closed)[k]
          BY <2>2, <3>4
        <5> QED BY <1>0, <4>1, <5>1, <5>2, <5>3, CutBody
      <4>3. k = 1 /\ \E w \in {2, 3} : Joined(buffer, frames[N], w)
        <5>1. \A s, d : next_frame(buffer) # <<[frame |-> s, rest |-> d]>>
          BY <3>4
        <5> QED BY <2>2, <4>2, <5>1 DEF CutIs
      <4>4. PICK w \in {2, 3} : Joined(buffer, frames[N], w)
        BY <4>3
      <4>5. buffer # <<>>
        <5>1. frames[N] \in Seq(Text) /\ frames[N] # <<>>
          BY <4>4 DEF Joined
        <5> DEFINE m == Len(frames[N])
        <5>2. m \in Nat /\ m >= 1
          <6> DEFINE F == frames[N]
          <6>1. F \in Seq(Text) /\ F # <<>>
            BY <5>1
          <6> HIDE DEF F
          <6>2. Len(F) \in Nat /\ Len(F) >= 1
            BY <6>1, EmptySeq
          <6> QED BY <6>2 DEF F
        <5>3. w * (m - 1) + 1 <= Len(buffer)
          BY <4>4 DEF Joined
        <5> HIDE DEF m
        <5>4. Len(buffer) # 0
          <6>1. CASE w = 2
            BY <5>2, <5>3, <6>1
          <6>2. CASE w = 3
            BY <5>2, <5>3, <6>2
          <6> QED BY <6>1, <6>2
        <5> QED BY <5>4
      <4>6. parsed = parse_frame(frames[N])
        BY <4>4, <4>5, JoinedParses DEF parsed, finish
      <4>7. N \in 1 .. N /\ N - k = N - 1
        BY <1>0, <4>1, <4>3
      <4>8. Expecteds(frames)[N] = Expecteds(frames)[N - 1] \o parse_frame(frames[N])
        BY <1>0, <4>7, ExpectedsAre
      <4> QED BY <3>2, <3>5, <4>6, <4>7, <4>8
    <3> QED BY <3>6, <3>7
  <2>6. CASE phase' = "ended"
    BY <1>0, <2>1, <2>4, <2>5, <2>6 DEF StreamInv
  <2>7. CASE phase' = "stream"
    <3>1. eol \in {<<"LF">>, <<"CR", "LF">>} /\ frames \in FrameLists /\ eol \in LineEnds
      BY <1>a, <2>1
    <3>2. buffer' \o wire' = Bodies(frames, eol, TRUE)[0]
      <4>1. Bodies(frames, eol, TRUE)[0] = <<>>
        BY <1>0, <3>1, BodiesAre
      <4>2. <<>> \o <<>> = <<>>
        OBVIOUS
      <4> QED BY <2>1, <2>2, <4>1, <4>2
    <3>3. next_frame(buffer') = <<>>
      BY <2>1, NoFrameInNothing
    <3>4. ASSUME errors' = 0 PROVE Standing(TRUE, 0)'
      <4>1. delivered' \o pending' = delivered'
        BY <2>1, <2>4, ConcatEmptySeq
      <4>2. delivered' \o pending' = Expecteds(frames)[N - 0]
        <5>1. N - 0 = N
          BY <1>0
        <5> QED BY <2>5, <3>4, <4>1, <5>1
      <4> QED BY <2>1, <3>2, <3>3, <4>2 DEF Standing, next_frame
    <3>5. errors' = 0 => (\E closed \in BOOLEAN, k \in 0 .. Len(frames) : Standing(closed, k))'
      <4>1. 0 \in 0 .. Len(frames')
        BY <1>0, <2>1
      <4> QED BY <3>4, <4>1
    <3> QED BY <1>0, <2>1, <2>2, <2>4, <2>7, <3>1, <3>5 DEF StreamInv
  <2> QED BY <2>1, <2>6, <2>7
<1>9. CASE UNCHANGED vars
  BY <1>9, <1>b DEF vars
<1>10. CASE Over
  BY <1>10, <1>b DEF Over, vars
<1> QED BY <1>1, <1>2, <1>3, <1>4, <1>5, <1>6, <1>7, <1>8, <1>9, <1>10 DEF Next, Step

\* The stream stands at a frame of the answer in every reachable state.
THEOREM StreamInvariance == Spec => [](BufferInv /\ StreamInv)
<1>1. Init => BufferInv /\ StreamInv
  BY InitRetries, InitStream
<1>2. BufferInv /\ StreamInv /\ [Next]_vars => (BufferInv /\ StreamInv)'
  BY StepBuffer, StepStream
<1> QED BY <1>1, <1>2, PTL DEF Spec

\* However the body is cut into chunks, next_event returns the events of the
\* server, once and in order, up to the first error, and all of them by the end.
THEOREM StreamHolds == Spec => []StreamIsFaithful
<1>1. RetryInv /\ BufferInv /\ StreamInv => StreamIsFaithful
  <2> SUFFICES ASSUME AttemptInv, BufferInv, StreamInv PROVE StreamIsFaithful
    BY DEF RetryInv
  <2> DEFINE N == Len(frames)
             E == Expecteds(frames)
  <2>1. Expected = E[N]
    BY DEF Expected, Expecteds
  <2>2. frames \in Seq(Seq(Text)) /\ N \in Nat /\ delivered \in Seq(Anything)
    BY DEF StreamInv
  <2>3. \A k \in 0 .. N : IsPrefix(E[k], E[N])
    BY <2>2, ExpectedsAre
  <2>4. N \in 0 .. N /\ \A k \in 0 .. N : N - k \in 0 .. N
    BY <2>2
  <2> HIDE DEF N, E
  <2>5. NothingLost
    BY <2>1 DEF NothingLost, StreamInv, N, E
  <2>6. ASSUME errors = 0 PROVE IsPrefix(delivered \o pending, Expected)
    <3>1. CASE phase \in {"send", "backoff", "failed"}
      <4>1. frames = <<>> /\ pending = <<>> /\ delivered = <<>>
        BY <3>1 DEF StreamInv
      <4>2. E[N] = <<>>
        BY <4>1, NothingExpected DEF E, N
      <4>3. delivered \o pending = <<>>
        <5>1. <<>> \o <<>> = <<>>
          OBVIOUS
        <5> QED BY <4>1, <5>1
      <4> QED BY <2>1, <2>3, <2>4, <4>2, <4>3
    <3>2. CASE phase = "stream"
      <4>1. PICK closed \in BOOLEAN, k \in 0 .. N : Standing(closed, k)
        BY <2>6, <3>2 DEF StreamInv, N
      <4>2. delivered \o pending = E[N - k]
        BY <4>1 DEF Standing, E, N
      <4> QED BY <2>1, <2>3, <2>4, <4>2
    <3>3. CASE phase = "ended"
      <4>1. pending = <<>> /\ delivered = E[N]
        BY <2>6, <3>3 DEF StreamInv, E, N
      <4>2. delivered \o pending = E[N]
        BY <2>2, <4>1, ConcatEmptySeq
      <4> QED BY <2>1, <2>3, <2>4, <4>2
    <3>4. phase \in {"send", "backoff", "failed", "stream", "ended"}
      BY DEF AttemptInv
    <3> QED BY <3>1, <3>2, <3>3, <3>4
  <2> QED BY <2>5, <2>6 DEF StreamIsFaithful, PrefixUntilError
<1> QED BY <1>1, RetryInvariance, StreamInvariance, PTL

=============================================================================
