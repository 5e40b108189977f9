-------------------------- MODULE StatusFreshProofs -------------------------
(***************************************************************************)
(* What the lines under way say: the answer of a round is no older than    *)
(* the round, and when all is read everybody agrees.  The lines of a       *)
(* socket are read in the order they were written, and that is what both   *)
(* theorems rest on.                                                       *)
(***************************************************************************)
EXTENDS StatusRoundProofs

-----------------------------------------------------------------------------
(***************************************************************************)
(* Lines that say on or off.                                               *)
(***************************************************************************)
\* No line of s is one of M.
Without(s, M) == \A i \in DOMAIN s : s[i] \notin M

\* After line i no line of s is one of M.
WithoutAfter(s, M, i) == \A j \in DOMAIN s : j > i => s[j] \notin M

\* Who knows cur and reads the lines s ends up with b.
Shows(s, on, off, cur, b) ==
  IF Without(s, {on, off}) THEN cur <=> b
  ELSE \E i \in DOMAIN s : /\ s[i] = IF b THEN on ELSE off
                           /\ WithoutAfter(s, {on, off}, i)

\* The places of a line and what is added to it.
LEMMA AppendPlaces ==
  ASSUME NEW S, NEW s \in Seq(S), NEW e \in S
  PROVE  /\ Append(s, e) \in Seq(S) /\ Len(s) \in Nat
         /\ DOMAIN s = 1 .. Len(s) /\ DOMAIN Append(s, e) = 1 .. Len(s) + 1
         /\ \A i \in 1 .. Len(s) : Append(s, e)[i] = s[i]
         /\ Append(s, e)[Len(s) + 1] = e
OBVIOUS

\* The places of a line without its head.
LEMMA TailPlaces ==
  ASSUME NEW S, NEW s \in Seq(S), s # << >>
  PROVE  /\ Tail(s) \in Seq(S) /\ Len(s) \in Nat \ {0} /\ Head(s) = s[1]
         /\ Head(s) \in S
         /\ DOMAIN s = 1 .. Len(s) /\ DOMAIN Tail(s) = 1 .. Len(s) - 1
         /\ \A i \in 1 .. Len(s) - 1 : Tail(s)[i] = s[i + 1]
OBVIOUS

\* Other lines change nothing.
LEMMA ShowsOther ==
  ASSUME NEW S, NEW s \in Seq(S), NEW e \in S, NEW on, NEW off,
         e \notin {on, off}, NEW cur, NEW b, Shows(s, on, off, cur, b)
  PROVE  Shows(Append(s, e), on, off, cur, b)
<1> DEFINE q == Append(s, e)
           M == {on, off}
<1>1. /\ Len(s) \in Nat /\ DOMAIN s = 1 .. Len(s) /\ DOMAIN q = 1 .. Len(s) + 1
      /\ \A i \in 1 .. Len(s) : q[i] = s[i]
      /\ q[Len(s) + 1] = e /\ e \notin M
  BY AppendPlaces
<1> HIDE DEF q, M
<1>2. Without(q, M) <=> Without(s, M)
  BY <1>1 DEF Without
<1>3. \A i \in DOMAIN s : WithoutAfter(s, M, i) => WithoutAfter(q, M, i)
  BY <1>1 DEF WithoutAfter
<1>4. CASE Without(s, M)
  BY <1>2, <1>4 DEF Shows, M, q
<1>5. CASE ~Without(s, M)
  <2>1. PICK i \in DOMAIN s : /\ s[i] = IF b THEN on ELSE off
                              /\ WithoutAfter(s, M, i)
    BY <1>5 DEF Shows, M
  <2>2. /\ i \in DOMAIN q /\ q[i] = IF b THEN on ELSE off
        /\ WithoutAfter(q, M, i)
    BY <1>1, <1>3, <2>1
  <2>3. QED
    BY <1>2, <1>5, <2>2 DEF Shows, M, q
<1>6. QED
  BY <1>4, <1>5

\* The last line counts.
LEMMA ShowsLast ==
  ASSUME NEW S, NEW s \in Seq(S), NEW on \in S, NEW off \in S, NEW cur, NEW b
  PROVE  Shows(Append(s, IF b THEN on ELSE off), on, off, cur, b)
<1> DEFINE e == IF b THEN on ELSE off
           q == Append(s, e)
           M == {on, off}
<1>1. e \in S /\ e \in M
  OBVIOUS
<1>2. /\ Len(s) \in Nat /\ DOMAIN q = 1 .. Len(s) + 1 /\ q[Len(s) + 1] = e
  BY <1>1, AppendPlaces
<1> HIDE DEF q, M
<1>3. ~Without(q, M)
  BY <1>1, <1>2 DEF Without
<1>4. WithoutAfter(q, M, Len(s) + 1)
  BY <1>2 DEF WithoutAfter
<1>5. Shows(q, on, off, cur, b)
  BY <1>2, <1>3, <1>4 DEF Shows, M
<1>6. QED
  BY <1>5 DEF q

\* What is known once the head is read.
Reading(h, on, off, cur) == IF h \in {on, off} THEN h = on ELSE cur

\* Reading brings one nearer to what is shown.
LEMMA ShowsTail ==
  ASSUME NEW S, NEW s \in Seq(S), s # << >>, NEW on, NEW off, on # off,
         NEW cur, NEW b, Shows(s, on, off, cur, b)
  PROVE  Shows(Tail(s), on, off, Reading(Head(s), on, off, cur), b)
<1> DEFINE q == Tail(s)
           M == {on, off}
           h == Head(s)
           r == Reading(h, on, off, cur)
<1>1. /\ Len(s) \in Nat \ {0} /\ DOMAIN s = 1 .. Len(s)
      /\ DOMAIN q = 1 .. Len(s) - 1 /\ h = s[1]
      /\ \A i \in 1 .. Len(s) - 1 : q[i] = s[i + 1]
  BY TailPlaces
<1> HIDE DEF q, M, h
<1>2. \A j \in DOMAIN s : j # 1 => j - 1 \in DOMAIN q /\ s[j] = q[j - 1]
  BY <1>1
<1>3. ASSUME NEW i \in DOMAIN s, WithoutAfter(s, M, i), i # 1
      PROVE  i - 1 \in DOMAIN q /\ q[i - 1] = s[i] /\ WithoutAfter(q, M, i - 1)
  BY <1>1, <1>3 DEF WithoutAfter
<1>4. WithoutAfter(s, M, 1) <=> Without(q, M)
  <2>1. WithoutAfter(s, M, 1) => Without(q, M)
    BY <1>1 DEF WithoutAfter, Without
  <2>2. Without(q, M) => WithoutAfter(s, M, 1)
    BY <1>1, <1>2 DEF WithoutAfter, Without
  <2>3. QED
    BY <2>1, <2>2
<1>5. CASE Without(s, M)
  <2>1. h \notin M /\ Without(q, M)
    BY <1>1, <1>5 DEF Without
  <2>2. (cur <=> b) /\ r = cur
    BY <1>5, <2>1 DEF Shows, Reading, M
  <2>3. QED
    BY <2>1, <2>2 DEF Shows, M, q, h
<1>6. CASE ~Without(s, M)
  <2>1. PICK i \in DOMAIN s : /\ s[i] = IF b THEN on ELSE off
                              /\ WithoutAfter(s, M, i)
    BY <1>6 DEF Shows, M
  <2>2. CASE i = 1
    <3>1. Without(q, M) /\ h = IF b THEN on ELSE off
      BY <1>1, <1>4, <2>1, <2>2
    <3>2. r <=> b
      BY <3>1 DEF Reading
    <3>3. QED
      BY <3>1, <3>2 DEF Shows, M, q, h
  <2>3. CASE i # 1
    <3>1. /\ i - 1 \in DOMAIN q /\ q[i - 1] = IF b THEN on ELSE off
          /\ WithoutAfter(q, M, i - 1)
      BY <1>3, <2>1, <2>3
    <3>2. ~Without(q, M)
      BY <3>1 DEF Without, M
    <3>3. QED
      BY <3>1, <3>2 DEF Shows, M, q
  <2>4. QED
    BY <2>2, <2>3
<1>7. QED
  BY <1>5, <1>6

\* When everything is read nothing else is known.
LEMMA ShowsEmpty ==
  ASSUME NEW on, NEW off, NEW cur, NEW b
  PROVE  Shows(<< >>, on, off, cur, b) <=> (cur <=> b)
<1>1. Without(<< >>, {on, off})
  BY DEF Without
<1>2. QED
  BY <1>1 DEF Shows

-----------------------------------------------------------------------------
(***************************************************************************)
(* Lines that say that a device is at work.                                *)
(***************************************************************************)
\* Who knows w and reads s learns of the work at once and of no end of it,
Known(s, w) == w /\ Without(s, {"S0"})

\* or has learnt of it before line i and learns of no end of it.
KnownBy(s, w, i) ==
  \/ Known(s, w)
  \/ \E k \in DOMAIN s : k < i /\ s[k] = "S1" /\ WithoutAfter(s, {"S0"}, k)

\* It is known by every line t.
KnownAt(s, w, t) == \A i \in DOMAIN s : s[i] = t => KnownBy(s, w, i)

\* What is known by the lines of s and w is known by those of q and v.
Keeps(s, w, q, v) ==
  /\ Known(s, w) => Known(q, v)
  /\ \A t \in {"+0", "status_info"} : KnownAt(s, w, t) => KnownAt(q, v, t)

\* A line that does not occur says nothing.
LEMMA KnownNever ==
  ASSUME NEW s \in Seq(Texts), NEW w, NEW t, Count(s, t) = 0
  PROVE  KnownAt(s, w, t)
<1>1. IsFiniteSet(Places(s, {t})) /\ Cardinality(Places(s, {t})) = 0
  BY PlacesFinite, CountIsAmong DEF Among
<1>2. Places(s, {t}) = {}
  BY <1>1, FS_EmptySet
<1>3. QED
  BY <1>2 DEF KnownAt, Places

\* What every line shows is known in the end.
LEMMA KnownEnd ==
  ASSUME NEW s \in Seq(Texts), NEW w, Shows(s, "S1", "S0", w, TRUE)
  PROVE  KnownBy(s, w, Len(s) + 1)
<1>1. Len(s) \in Nat /\ DOMAIN s = 1 .. Len(s)
  OBVIOUS
<1>2. CASE Without(s, {"S1", "S0"})
  BY <1>2 DEF Shows, KnownBy, Known, Without
<1>3. CASE ~Without(s, {"S1", "S0"})
  <2>1. PICK i \in DOMAIN s : s[i] = "S1" /\ WithoutAfter(s, {"S1", "S0"}, i)
    BY <1>3 DEF Shows
  <2>2. i < Len(s) + 1 /\ WithoutAfter(s, {"S0"}, i)
    BY <1>1, <2>1 DEF WithoutAfter
  <2>3. QED
    BY <2>1, <2>2 DEF KnownBy
<1>4. QED
  BY <1>2, <1>3

\* As long as the device works it writes nothing that says otherwise.
LEMMA KnownAppend ==
  ASSUME NEW s \in Seq(Texts), NEW e \in Texts, e # "S0", NEW w
  PROVE  /\ Known(s, w) => Known(Append(s, e), w)
         /\ \A i : KnownBy(s, w, i) => KnownBy(Append(s, e), w, i)
<1> DEFINE q == Append(s, e)
<1>1. /\ Len(s) \in Nat /\ DOMAIN s = 1 .. Len(s) /\ DOMAIN q = 1 .. Len(s) + 1
      /\ \A i \in 1 .. Len(s) : q[i] = s[i]
      /\ q[Len(s) + 1] = e
  BY AppendPlaces
<1> HIDE DEF q
<1>2. Without(s, {"S0"}) => Without(q, {"S0"})
  BY <1>1 DEF Without
<1>3. \A k \in DOMAIN s : WithoutAfter(s, {"S0"}, k) => WithoutAfter(q, {"S0"}, k)
  BY <1>1 DEF WithoutAfter
<1>4. Known(s, w) => Known(q, w)
  BY <1>2 DEF Known
<1>5. \A i : KnownBy(s, w, i) => KnownBy(q, w, i)
  BY <1>1, <1>3, <1>4 DEF KnownBy
<1>6. QED
  BY <1>4, <1>5 DEF q

\* A device at work writes a line.
LEMMA KeepsAppend ==
  ASSUME NEW s \in Seq(Texts), NEW e \in Texts, e # "S0", NEW w,
         Shows(s, "S1", "S0", w, TRUE)
  PROVE  Keeps(s, w, Append(s, e), w)
<1> DEFINE q == Append(s, e)
<1>1. /\ Len(s) \in Nat /\ DOMAIN s = 1 .. Len(s) /\ DOMAIN q = 1 .. Len(s) + 1
      /\ \A i \in 1 .. Len(s) : q[i] = s[i]
  BY AppendPlaces
<1>2. /\ Known(s, w) => Known(q, w)
      /\ \A i : KnownBy(s, w, i) => KnownBy(q, w, i)
  BY KnownAppend
<1>3. KnownBy(s, w, Len(s) + 1)
  BY KnownEnd
<1> HIDE DEF q
<1>4. ASSUME NEW t, KnownAt(s, w, t) PROVE KnownAt(q, w, t)
  BY <1>1, <1>2, <1>3, <1>4 DEF KnownAt
<1>5. Keeps(s, w, q, w)
  BY <1>2, <1>4 DEF Keeps
<1>6. QED
  BY <1>5 DEF q

\* What a line that is read for a device at work brings.
LEMMA KnownTail ==
  ASSUME NEW s \in Seq(Texts), s # << >>, NEW w
  PROVE  LET v == Reading(Head(s), "S1", "S0", w)
         IN  /\ Known(s, w) => Known(Tail(s), v)
             /\ \A i \in DOMAIN s : KnownBy(s, w, i) => KnownBy(Tail(s), v, i - 1)
<1> DEFINE q == Tail(s)
           h == Head(s)
           v == Reading(h, "S1", "S0", w)
           M == {"S0"}
<1>1. /\ Len(s) \in Nat \ {0} /\ DOMAIN s = 1 .. Len(s)
      /\ DOMAIN q = 1 .. Len(s) - 1 /\ h = s[1]
      /\ \A i \in 1 .. Len(s) - 1 : q[i] = s[i + 1]
  BY TailPlaces
<1> HIDE DEF q, h, M
<1>2. Known(s, w) => Known(q, v)
  <2>1. Without(s, M) => Without(q, M) /\ h \notin M
    BY <1>1 DEF Without
  <2>2. h \notin M => (w => v)
    BY DEF Reading, M
  <2>3. QED
    BY <2>1, <2>2 DEF Known, M
<1>3. ASSUME NEW k \in DOMAIN s, s[k] = "S1", WithoutAfter(s, M, k)
      PROVE  \/ k = 1 /\ Known(q, v)
             \/ k - 1 \in DOMAIN q /\ q[k - 1] = "S1" /\ WithoutAfter(q, M, k - 1)
  <2>1. CASE k = 1
    <3>1. Without(q, M)
      BY <1>1, <1>3, <2>1 DEF Without, WithoutAfter
    <3>2. v
      BY <1>1, <1>3, <2>1 DEF Reading
    <3>3. QED
      BY <2>1, <3>1, <3>2 DEF Known, M
  <2>2. CASE k # 1
    BY <1>1, <1>3, <2>2 DEF WithoutAfter
  <2>3. QED
    BY <2>1, <2>2
<1>4. ASSUME NEW i \in DOMAIN s, KnownBy(s, w, i) PROVE KnownBy(q, v, i - 1)
  <2>1. CASE Known(s, w)
    BY <1>2, <2>1 DEF KnownBy
  <2>2. CASE ~Known(s, w)
    <3>1. PICK k \in DOMAIN s : k < i /\ s[k] = "S1" /\ WithoutAfter(s, M, k)
      BY <1>4, <2>2 DEF KnownBy, M
    <3>2. k - 1 < i - 1
      BY <1>1, <3>1
    <3>3. QED
      BY <1>3, <3>1, <3>2 DEF KnownBy, M
  <2>3. QED
    BY <2>1, <2>2
<1>5. QED
  BY <1>2, <1>4 DEF q, h

\* Reading a line keeps what is known,
LEMMA KeepsTail ==
  ASSUME NEW s \in Seq(Texts), s # << >>, NEW w
  PROVE  Keeps(s, w, Tail(s), Reading(Head(s), "S1", "S0", w))
<1> DEFINE q == Tail(s)
           v == Reading(Head(s), "S1", "S0", w)
<1>1. /\ Len(s) \in Nat \ {0} /\ DOMAIN s = 1 .. Len(s)
      /\ DOMAIN q = 1 .. Len(s) - 1
      /\ \A i \in 1 .. Len(s) - 1 : q[i] = s[i + 1]
  BY TailPlaces
<1>2. /\ Known(s, w) => Known(q, v)
      /\ \A i \in DOMAIN s : KnownBy(s, w, i) => KnownBy(q, v, i - 1)
  BY KnownTail
<1> HIDE DEF q, v
<1>3. ASSUME NEW t, KnownAt(s, w, t), NEW i \in DOMAIN q, q[i] = t
      PROVE  KnownBy(q, v, i)
  <2>1. i + 1 \in DOMAIN s /\ s[i + 1] = t /\ (i + 1) - 1 = i
    BY <1>1, <1>3
  <2>2. KnownBy(s, w, i + 1)
    BY <1>3, <2>1 DEF KnownAt
  <2>3. KnownBy(q, v, (i + 1) - 1)
    BY <1>2, <2>1, <2>2
  <2>4. QED
    BY <2>1, <2>3
<1>4. Keeps(s, w, q, v)
  BY <1>2, <1>3 DEF Keeps, KnownAt
<1>5. QED
  BY <1>4 DEF q, v

\* and what is known by the line that is read is known for good.
LEMMA KnownAtHead ==
  ASSUME NEW s \in Seq(Texts), s # << >>, NEW w, KnownAt(s, w, Head(s))
  PROVE  Known(s, w)
<1>1. /\ 1 \in DOMAIN s /\ s[1] = Head(s)
      /\ \A k \in DOMAIN s : ~(k < 1)
  BY TailPlaces
<1>2. KnownBy(s, w, 1)
  BY <1>1 DEF KnownAt
<1>3. QED
  BY <1>1, <1>2 DEF KnownBy

-----------------------------------------------------------------------------
(***************************************************************************)
(* What centrald writes on its connections.                                *)
(***************************************************************************)
\* The running commands and the calls on the line change together, and what c
\* holds on behalf of A stays where it is.
Steady(c, p, A) ==
  /\ \A a \in A : /\ Queues(c, a) => Queues(p, a)
                  /\ c.running = AskFor(a) => p.running = AskFor(a)
  /\ Among(p.out, Askers) + (IF c.running = NoCommand THEN 0 ELSE 1)
       = Among(c.out, Askers) + (IF p.running = NoCommand THEN 0 ELSE 1)

\* Who is told b by c is told it by p.
Quiet(c, p) ==
  \A cur, b : Shows(c.out, "B1", "B0", cur, b) => Shows(p.out, "B1", "B0", cur, b)

\* Whoever reads p is told b.
Says(p, b) == \A cur : Shows(p.out, "B1", "B0", cur, b)

\* The numbers of status calls on the line of a plain connection.
LEMMA AmongPlain ==
  ASSUME NEW N, NEW c, Plain(c, N)
  PROVE  /\ c.out \in Seq(Texts) /\ Among(c.out, Askers) \in Nat
         /\ \A m \in Texts : Among(Append(c.out, m), Askers)
                               = Among(c.out, Askers) + (IF m \in Askers THEN 1 ELSE 0)
<1>1. c.out \in Seq(Texts)
  BY DEF Plain, PlainConns
<1>2. QED
  BY <1>1, PlacesFinite, AmongAppend

\* The words of the protocol are no devices.
LEMMA WordsFacts ==
  /\ \A m \in {"run", "device_status", "status_info", "S0", "S1", "B0", "B1", "+0"} :
       m \in Texts /\ m \notin Askers
  /\ \A n \in Askers : n \in Texts /\ n \notin {"B1", "B0"} /\ n # "+0"
BY TextNames DEF Askers, Texts

\* A line with the same commands.
LEMMA AlikeSteady ==
  ASSUME NEW c, NEW p, Alike(c, p), Among(p.out, Askers) = Among(c.out, Askers),
         NEW A
  PROVE  Steady(c, p, A)
BY DEF Alike, Steady, Queues

\* A line that is neither a call nor a BOP state.
LEMMA WriteSteady ==
  ASSUME NEW N, NEW c, Plain(c, N), NEW m \in Texts, m \notin Askers
  PROVE  /\ Plain(sendMsg(c, m), N) /\ Wrote(c, sendMsg(c, m), m)
         /\ Steady(c, sendMsg(c, m), Devices)
<1> DEFINE p == sendMsg(c, m)
<1>1. Plain(p, N) /\ Alike(c, p) /\ Wrote(c, p, m)
  BY WritePlain DEF Wrote
<1> HIDE DEF p
<1>2. Among(p.out, Askers) = Among(c.out, Askers)
  <2>1. Among(c.out, Askers) \in Nat
        /\ Among(Append(c.out, m), Askers) = Among(c.out, Askers) + 0
    BY AmongPlain
  <2>2. QED
    BY <1>1, <2>1 DEF Wrote
<1>3. Steady(c, p, Devices)
  BY <1>1, <1>2, AlikeSteady
<1>4. QED
  BY <1>1, <1>3 DEF p

\* What is no BOP state is no news.
LEMMA WroteQuiet ==
  ASSUME NEW c, c.out \in Seq(Texts), NEW m \in Texts, m \notin {"B1", "B0"},
         NEW p, Wrote(c, p, m)
  PROVE  Quiet(c, p)
<1> SUFFICES ASSUME NEW cur, NEW b, Shows(c.out, "B1", "B0", cur, b)
             PROVE  Shows(p.out, "B1", "B0", cur, b)
  BY DEF Quiet
<1>1. Shows(Append(c.out, m), "B1", "B0", cur, b)
  BY ShowsOther
<1>2. QED
  BY <1>1 DEF Wrote

\* A BOP state is.
LEMMA WroteSays ==
  ASSUME NEW c, c.out \in Seq(Texts), NEW b, NEW p, Wrote(c, p, BopState(b))
  PROVE  Says(p, b)
<1> SUFFICES ASSUME NEW cur PROVE Shows(p.out, "B1", "B0", cur, b)
  BY DEF Says
<1>1. "B1" \in Texts /\ "B0" \in Texts
  BY WordsFacts
<1>2. Shows(Append(c.out, IF b THEN "B1" ELSE "B0"), "B1", "B0", cur, b)
  BY <1>1, ShowsLast
<1>3. QED
  BY <1>2 DEF Wrote, BopState

\* Steps that follow each other.
LEMMA SteadyTwice ==
  ASSUME NEW A, NEW c, NEW p, NEW q, NEW L, NEW M, NEW N,
         Plain(c, L), Plain(p, M), Plain(q, N),
         Steady(c, p, A), Steady(p, q, A)
  PROVE  Steady(c, q, A)
<1>1. /\ Among(c.out, Askers) \in Nat /\ Among(p.out, Askers) \in Nat
      /\ Among(q.out, Askers) \in Nat
  BY AmongPlain
<1>2. \A a \in A : /\ Queues(c, a) => Queues(q, a)
                   /\ c.running = AskFor(a) => q.running = AskFor(a)
  BY DEF Steady
<1>3. Among(q.out, Askers) + (IF c.running = NoCommand THEN 0 ELSE 1)
        = Among(c.out, Askers) + (IF q.running = NoCommand THEN 0 ELSE 1)
  BY <1>1 DEF Steady
<1>4. QED
  BY <1>2, <1>3 DEF Steady

\* bopMaskChanged on one connection.
LEMMA TellSteady ==
  ASSUME NEW N, NEW c, Plain(c, N), NEW b
  PROVE  /\ Plain(sendMsg(c, BopState(b)), N)
         /\ Steady(c, sendMsg(c, BopState(b)), Devices)
         /\ Says(sendMsg(c, BopState(b)), b)
<1> DEFINE m == BopState(b)
           p == sendMsg(c, m)
<1>1. m \in Texts /\ m \notin Askers
  BY WordsFacts DEF BopState
<1> HIDE DEF m
<1>2. Plain(p, N) /\ Wrote(c, p, m) /\ Steady(c, p, Devices)
  BY <1>1, WriteSteady
<1> HIDE DEF p
<1>3. Says(p, b)
  BY <1>2, AmongPlain, WroteSays DEF m
<1>4. QED
  BY <1>2, <1>3 DEF p, m

\* The answer of a round.
LEMMA EndingSteady ==
  ASSUME NEW N, NEW c, Plain(c, N), NEW b
  PROVE  /\ Plain(Ending(c, b), N) /\ Steady(c, Ending(c, b), Devices)
         /\ Says(Ending(c, b), b)
<1> DEFINE p == sendMsg(c, BopState(b))
           q == sendMsg(p, "+0")
<1>1. Plain(p, N) /\ Steady(c, p, Devices) /\ Says(p, b)
  BY TellSteady
<1> HIDE DEF p
<1>2. "+0" \in Texts /\ "+0" \notin Askers /\ "+0" \notin {"B1", "B0"}
  BY WordsFacts
<1>3. Plain(q, N) /\ Wrote(p, q, "+0") /\ Steady(p, q, Devices)
  BY <1>1, <1>2, WriteSteady
<1> HIDE DEF q
<1>4. p.out \in Seq(Texts)
  BY <1>1, AmongPlain
<1>5. Quiet(p, q)
  BY <1>2, <1>3, <1>4, WroteQuiet
<1>6. Says(q, b)
  BY <1>1, <1>5 DEF Quiet, Says
<1>7. Steady(c, q, Devices)
  BY <1>1, <1>3, SteadyTwice
<1>8. QED
  BY <1>3, <1>6, <1>7 DEF q, p, Ending

\* A status call on behalf of d.
LEMMA AskSteady ==
  ASSUME NEW e, NEW c, Plain(c, Askers \ {e}), NEW d \in Devices, d # e
  PROVE  /\ Steady(c, queCommand(c, AskFor(d)), Devices)
         /\ Quiet(c, queCommand(c, AskFor(d)))
<1> DEFINE p == queCommand(c, AskFor(d))
<1>1. /\ c.running # NoCommand => Behind(c, p, d)
      /\ c.running = NoCommand => AtOnce(c, p, d)
  BY AskPlain
<1>2. HoldsMore(c, p, d)
  BY AskHolds
<1> HIDE DEF p
<1>3. /\ d \in Texts /\ d \in Askers /\ d \notin {"B1", "B0"}
      /\ AskFor(d) # NoCommand /\ \A a \in Devices : AskFor(a) # NoCommand
  BY WordsFacts, TextNames, AskFacts DEF Askers
<1>4. /\ c.out \in Seq(Texts) /\ Among(c.out, Askers) \in Nat
      /\ Among(Append(c.out, d), Askers) = Among(c.out, Askers) + 1
  BY <1>3, AmongPlain
<1>5. \A a \in Devices : Queues(c, a) => Queues(p, a)
  BY <1>2 DEF HoldsMore
<1>6. CASE c.running # NoCommand
  <2>1. p.running = c.running /\ p.out = c.out
    BY <1>1, <1>6 DEF Behind
  <2>2. QED
    BY <1>5, <2>1 DEF Steady, Quiet, p
<1>7. CASE c.running = NoCommand
  <2>1. p.running = AskFor(d) /\ Wrote(c, p, d)
    BY <1>1, <1>7 DEF AtOnce
  <2>2. Quiet(c, p)
    BY <1>3, <1>4, <2>1, WroteQuiet
  <2>3. Among(p.out, Askers) = Among(c.out, Askers) + 1
    BY <1>4, <2>1 DEF Wrote
  <2>4. Steady(c, p, Devices)
    BY <1>3, <1>4, <1>5, <1>7, <2>1, <2>3 DEF Steady
  <2>5. QED
    BY <2>2, <2>4 DEF p
<1>8. QED
  BY <1>6, <1>7

\* The return of a status call: the next one is written, if there is one.
LEMMA ReturnSteady ==
  ASSUME NEW e, NEW c, Plain(c, Askers \ {e})
  PROVE  /\ Quiet(c, commandReturn(c))
         /\ Among(commandReturn(c).out, Askers)
              = Among(c.out, Askers)
                  + (IF commandReturn(c).running = NoCommand THEN 0 ELSE 1)
<1> DEFINE N == Askers \ {e}
           p == commandReturn(c)
           h == Head(c.queue)
<1>1. N \subseteq Texts /\ N \subseteq Askers /\ Plain(c, N)
  BY SideTexts
<1> HIDE DEF N
<1>2. /\ c.queue = << >> => p.running = NoCommand /\ p.out = c.out
      /\ c.queue # << >> => /\ p.running = h /\ h \in Asks(N)
                            /\ Wrote(c, p, h.name)
  BY <1>1, ReturnPlain
<1>3. \A cmd \in Asks(N) : cmd.name \in Askers /\ cmd # NoCommand
  BY <1>1, AsksFacts
<1>4. c.out \in Seq(Texts) /\ Among(c.out, Askers) \in Nat
  BY <1>1, AmongPlain
<1> HIDE DEF p, h
<1>5. CASE c.queue = << >>
  BY <1>2, <1>4, <1>5 DEF Quiet, p
<1>6. CASE c.queue # << >>
  <2>1. p.running # NoCommand /\ Wrote(c, p, h.name) /\ h.name \in Askers
    BY <1>2, <1>3, <1>6
  <2>2. h.name \in Texts /\ h.name \notin {"B1", "B0"}
    BY <2>1, WordsFacts
  <2>3. Quiet(c, p)
    BY <1>4, <2>1, <2>2, WroteQuiet
  <2>4. Among(Append(c.out, h.name), Askers) = Among(c.out, Askers) + 1
    BY <1>1, <2>1, <2>2, AmongPlain
  <2>5. Among(p.out, Askers) = Among(c.out, Askers) + 1
    BY <2>1, <2>4 DEF Wrote
  <2>6. QED
    BY <2>1, <2>3, <2>5 DEF p
<1>7. QED
  BY <1>5, <1>6

\* What a lost device leaves behind.
LEMMA OrphanSteady ==
  ASSUME NEW e \in Devices, NEW c, Plain(c, Askers \ {e}), NEW d \in Devices
  PROVE  /\ Plain(Orphan(c, d), Askers \ {e})
         /\ Steady(c, Orphan(c, d), Devices \ {d})
<1> DEFINE N == Askers \ {e}
           p == Orphan(c, d)
<1>1. N \subseteq Askers /\ "orphan" \in N /\ Plain(c, N)
  BY TextNames DEF Askers
<1> HIDE DEF N
<1>2. /\ Plain(p, N) /\ p.out = c.out
      /\ p.running = NoCommand <=> c.running = NoCommand
      /\ \A a \in Devices : /\ p.running = AskFor(a) <=> c.running = AskFor(a) /\ a # d
                            /\ Queues(p, a) <=> Queues(c, a) /\ a # d
  BY <1>1, OrphanHolds
<1> HIDE DEF p
<1>3. Steady(c, p, Devices \ {d})
  BY <1>2 DEF Steady
<1>4. QED
  BY <1>2, <1>3 DEF N, p

-----------------------------------------------------------------------------
(***************************************************************************)
(* The steps of centrald, seen from the lines.                             *)
(***************************************************************************)
\* The connections of the listed devices are plain.
LEMMA Links ==
  ASSUME IInv, NEW e \in listed
  PROVE  /\ e \in Devices
         /\ Plain(master[e], {"status_info"}) /\ master[e].out \in Seq(Texts)
         /\ Plain(peer[e], Askers \ {e}) /\ peer[e].out \in Seq(Texts)
         /\ Among(peer[e].out, Askers) \in Nat
         /\ \A m : /\ Count(master[e].out, m) \in Nat
                   /\ Count(peer[e].out, m) \in Nat
         /\ waits[e] \in Nat
<1>1. /\ e \in Devices /\ master[e].out \in Seq(Texts) /\ peer[e].out \in Seq(Texts)
      /\ waits[e] \in Nat
  BY Types
<1>2. Plain(master[e], {"status_info"}) /\ Plain(peer[e], Askers \ {e})
  BY DEF IInv, Linked
<1>3. \A m : Count(master[e].out, m) \in Nat /\ Count(peer[e].out, m) \in Nat
  BY <1>1, CountFacts
<1>4. Among(peer[e].out, Askers) \in Nat
  BY <1>2, AmongPlain
<1>5. QED
  BY <1>1, <1>2, <1>3, <1>4

\* What centrald learns of a line.
LEMMA CentraldLines ==
  ASSUME IInv, NEW d \in Devices, CentraldReads(d)
  PROVE  /\ d \in listed /\ master[d].out # << >>
         /\ master'[d].out = Tail(master[d].out)
         /\ word'[d] = Reading(Head(master[d].out), "S1", "S0", word[d])
         /\ \A e \in Devices \ {d} : master'[e] = master[e] /\ word'[e] = word[e]
         /\ \A e \in listed : /\ master'[e].running = master[e].running
                              /\ master'[e].bop = master[e].bop
         /\ UNCHANGED <<conn, toClient, listed, owner, busy, camera, alive, since, runs>>
<1>1. /\ d \in listed /\ master[d].out # << >>
      /\ StatusInfo(d) \/ StatusReport(d) \/ StatusReturn(d)
      /\ master' = [master EXCEPT ![d] = Rest(master[d])]
      /\ UNCHANGED <<conn, toClient, listed, owner, busy, camera, alive, since, runs>>
  BY DEF CentraldReads
<1>2. /\ master'[d].out = Tail(master[d].out)
      /\ \A e \in Devices \ {d} : master'[e] = master[e]
      /\ \A e \in listed : Alike(master[e], master'[e])
  BY <1>1, Types, CentraldReadsEffect
<1>3. /\ word'[d] = Reading(Head(master[d].out), "S1", "S0", word[d])
      /\ \A e \in Devices \ {d} : word'[e] = word[e]
  <2>1. CASE StatusReport(d)
    <3>1. /\ Head(master[d].out) \in {"S0", "S1"}
          /\ word' = [word EXCEPT ![d] = Head(master[d].out) = "S1"]
      BY <2>1 DEF StatusReport
    <3>2. QED
      BY <3>1, Types DEF Reading
  <2>2. CASE StatusInfo(d)
    BY <2>2 DEF StatusInfo, Reading
  <2>3. CASE StatusReturn(d)
    BY <2>3 DEF StatusReturn, Reading
  <2>4. QED
    BY <1>1, <2>1, <2>2, <2>3
<1>4. QED
  BY <1>1, <1>2, <1>3 DEF Alike

\* Centrald::statusInfo writes calls or, when there is nobody to ask, a return.
LEMMA StatusInfoPeers ==
  ASSUME IInv, NEW d \in listed, StatusInfo(d)
  PROVE  /\ UNCHANGED word
         /\ \A e \in listed : /\ Steady(peer[e], peer'[e], Devices)
                              /\ Quiet(peer[e], peer'[e])
<1> DEFINE asked == (listed \cap BlockedBy[d]) \ {d}
<1>1. UNCHANGED word
  BY DEF StatusInfo
<1>2. CASE asked = {}
  <2>1. peer' = [peer EXCEPT ![d] = sendMsg(peer[d], "+0")]
    BY <1>2 DEF StatusInfo
  <2>2. "+0" \in Texts /\ "+0" \notin Askers /\ "+0" \notin {"B1", "B0"}
    BY WordsFacts
  <2>3. Plain(peer[d], Askers \ {d}) /\ peer[d].out \in Seq(Texts)
    BY Links
  <2>4. /\ Wrote(peer[d], sendMsg(peer[d], "+0"), "+0")
        /\ Steady(peer[d], sendMsg(peer[d], "+0"), Devices)
    BY <2>2, <2>3, WriteSteady
  <2>5. Quiet(peer[d], sendMsg(peer[d], "+0"))
    BY <2>2, <2>3, <2>4, WroteQuiet
  <2>6. \A e \in listed : Steady(peer[e], peer[e], Devices) /\ Quiet(peer[e], peer[e])
    BY DEF Steady, Quiet
  <2>7. \A e \in listed : peer'[e] = IF e = d THEN sendMsg(peer[d], "+0") ELSE peer[e]
    BY <2>1, Types
  <2>8. QED
    BY <1>1, <2>4, <2>5, <2>6, <2>7
<1>3. CASE asked # {}
  <2>1. peer' = [e \in Devices |-> IF e \in asked
                                   THEN queCommand(peer[e], AskFor(d)) ELSE peer[e]]
    BY <1>3 DEF StatusInfo
  <2>2. d \in Devices /\ d \notin asked /\ asked \subseteq listed
    BY Links
  <2> HIDE DEF asked
  <2> SUFFICES ASSUME NEW e \in listed
               PROVE  Steady(peer[e], peer'[e], Devices) /\ Quiet(peer[e], peer'[e])
    BY <1>1
  <2>3. e \in Devices /\ Plain(peer[e], Askers \ {e})
    BY Links
  <2>4. CASE e \in asked
    <3>1. peer'[e] = queCommand(peer[e], AskFor(d)) /\ d # e
      BY <2>1, <2>2, <2>3, <2>4
    <3>2. /\ Steady(peer[e], queCommand(peer[e], AskFor(d)), Devices)
          /\ Quiet(peer[e], queCommand(peer[e], AskFor(d)))
      BY <2>2, <2>3, <3>1, AskSteady
    <3>3. QED
      BY <3>1, <3>2
  <2>5. CASE e \notin asked
    <3>1. peer'[e] = peer[e]
      BY <2>1, <2>3, <2>5
    <3>2. QED
      BY <3>1 DEF Steady, Quiet
  <2>6. QED
    BY <2>4, <2>5
<1>4. QED
  BY <1>2, <1>3

\* ConnCentrald::setState tells everybody, when there is something to tell.
LEMMA StatusReportPeers ==
  ASSUME IInv, NEW d \in listed, StatusReport(d), NEW e \in listed
  PROVE  /\ Steady(peer[e], peer'[e], Devices)
         /\ IF word' = word THEN peer'[e] = peer[e]
            ELSE Says(peer'[e], BopFor(listed, word', e))
         /\ UNCHANGED waits
<1>1. /\ peer' = IF word' = word THEN peer ELSE TellAll(peer, listed, word')
      /\ UNCHANGED waits
  BY DEF StatusReport
<1>2. e \in Devices /\ Plain(peer[e], Askers \ {e})
  BY Links
<1>3. CASE word' = word
  BY <1>1, <1>3 DEF Steady
<1>4. CASE word' # word
  <2> DEFINE b == BopFor(listed, word', e)
  <2>1. peer'[e] = sendMsg(peer[e], BopState(b))
    BY <1>1, <1>2, <1>4 DEF TellAll
  <2> HIDE DEF b
  <2>2. /\ Steady(peer[e], sendMsg(peer[e], BopState(b)), Devices)
        /\ Says(sendMsg(peer[e], BopState(b)), b)
    BY <1>2, TellSteady
  <2>3. QED
    BY <1>1, <1>4, <2>1, <2>2 DEF b
<1>5. QED
  BY <1>3, <1>4

\* A return that ends a round tells the device that asked.
LEMMA StatusReturnPeers ==
  ASSUME IInv, NEW d \in listed, StatusReturn(d), NEW e \in listed
  PROVE  /\ UNCHANGED word
         /\ e # d => Steady(peer[e], peer'[e], Devices)
         /\ Quiet(peer[e], peer'[e]) \/ Says(peer'[e], BopFor(listed, word, e))
<1>1. UNCHANGED word
  BY DEF StatusReturn
<1>2. CASE peer[d].running = NoCommand
  <2>1. peer' = peer
    BY <1>2 DEF StatusReturn
  <2>2. QED
    BY <1>1, <2>1 DEF Steady, Quiet
<1>3. CASE peer[d].running # NoCommand
  <2> DEFINE a == peer[d].running.name
  <2>1. /\ a \in Askers \ {d} /\ peer'[d] = commandReturn(peer[d])
        /\ \A f \in listed \ {a, d} : peer'[f] = peer[f]
        /\ Over(a, d) => peer'[a] = Ending(peer[a], BopFor(listed, word, a))
        /\ ~Over(a, d) => (a \in listed => peer'[a] = peer[a])
    BY <1>3, StatusReturnEffect
  <2> HIDE DEF a
  <2>2. e \in Devices /\ Plain(peer[e], Askers \ {e})
    BY Links
  <2>3. CASE e = d
    <3>1. Quiet(peer[e], commandReturn(peer[e]))
      BY <2>2, ReturnSteady
    <3>2. QED
      BY <1>1, <2>1, <2>3, <3>1
  <2>4. CASE e # d /\ e = a /\ Over(a, d)
    <3> DEFINE b == BopFor(listed, word, e)
    <3>1. peer'[e] = Ending(peer[e], b)
      BY <2>1, <2>4
    <3> HIDE DEF b
    <3>2. Steady(peer[e], Ending(peer[e], b), Devices) /\ Says(Ending(peer[e], b), b)
      BY <2>2, EndingSteady
    <3>3. QED
      BY <1>1, <3>1, <3>2 DEF b
  <2>5. CASE e # d /\ ~(e = a /\ Over(a, d))
    <3>1. peer'[e] = peer[e]
      BY <2>1, <2>5
    <3>2. QED
      BY <1>1, <3>1 DEF Steady, Quiet
  <2>6. QED
    BY <2>3, <2>4, <2>5
<1>4. QED
  BY <1>2, <1>3

\* The loss of a device is told to everybody.
LEMMA CentraldRemovesPeers ==
  ASSUME IInv, NEW d \in Devices, CentraldRemoves(d), NEW e \in listed \ {d}
  PROVE  /\ Steady(peer[e], peer'[e], Devices \ {d})
         /\ Says(peer'[e], BopFor(listed \ {d}, word, e))
<1> DEFINE b == BopFor(listed \ {d}, word, e)
           o == Orphan(peer[e], d)
           p == sendMsg(o, BopState(b))
           q == Ending(p, b)
<1>1. e \in Devices /\ Plain(peer[e], Askers \ {e})
  BY Links
<1>2. peer'[e] = IF LeftAlone(e, d) THEN q ELSE p
  BY CentraldRemovesEffect DEF Parted
<1> HIDE DEF b
<1>3. Plain(o, Askers \ {e}) /\ Steady(peer[e], o, Devices \ {d})
  BY <1>1, OrphanSteady
<1> HIDE DEF o
<1>4. Plain(p, Askers \ {e}) /\ Steady(o, p, Devices) /\ Says(p, b)
  BY <1>3, TellSteady
<1> HIDE DEF p
<1>5. Plain(q, Askers \ {e}) /\ Steady(p, q, Devices) /\ Says(q, b)
  BY <1>4, EndingSteady
<1> HIDE DEF q
<1>6. Steady(o, p, Devices \ {d}) /\ Steady(p, q, Devices \ {d})
  BY <1>4, <1>5 DEF Steady
<1>7. Steady(peer[e], p, Devices \ {d})
  BY <1>1, <1>3, <1>4, <1>6, SteadyTwice
<1>8. Steady(peer[e], q, Devices \ {d})
  BY <1>1, <1>4, <1>5, <1>6, <1>7, SteadyTwice
<1>9. QED
  BY <1>2, <1>4, <1>5, <1>7, <1>8 DEF b

-----------------------------------------------------------------------------
(***************************************************************************)
(* The lines under way end with what their writer knows.                   *)
(***************************************************************************)
Replies == {"B0", "B1", "+0"}

\* centrald will know whether d is at work,
WordShows(d) == Shows(master[d].out, "S1", "S0", word[d], busy[d])

\* d whether something that centrald knows of blocks it,
BopShows(d) ==
  Shows(peer[d].out, "B1", "B0", master[d].bop # {}, BopFor(listed, word, d))

\* A device that knows whether something blocks it tells its clients v: a
\* block more when value changes wait, one less when it has told its own word
\* since.
Fits(d, v) ==
  /\ v => master[d].bop # {} \/ d \in held
  /\ master[d].bop # {} => v \/ d \in overwritten

\* Client x will know what its device has told.
ClientShows(x) ==
  \E v \in BOOLEAN : /\ Shows(toClient[x], "B1", "B0", conn[x].bop # {}, v)
                     /\ Fits(TargetOf[x], v)

Shown ==
  /\ \A d \in alive : WordShows(d) /\ BopShows(d)
  /\ \A x \in Clients : /\ toClient[x] \in Seq(Replies)
                        /\ TargetOf[x] \in alive => ClientShows(x)

\* At first nothing is at work and everybody knows.
LEMMA InitShown == Init => Shown
<1> SUFFICES ASSUME Init PROVE Shown
  OBVIOUS
<1>1. /\ NewConnection("open").out = << >> /\ NewConnection("open").bop = {}
      /\ << >> \in Seq(Replies)
  BY DEF NewConnection
<1>2. ASSUME NEW d \in Devices PROVE WordShows(d) /\ BopShows(d)
  <2>1. /\ master[d].out = << >> /\ peer[d].out = << >> /\ master[d].bop = {}
        /\ word[d] = FALSE /\ busy[d] = FALSE
    BY <1>1 DEF Init
  <2>2. BopFor(listed, word, d) = FALSE
    BY DEF Init, BopFor
  <2>3. QED
    BY <2>1, <2>2, ShowsEmpty DEF WordShows, BopShows
<1>3. ASSUME NEW x \in Clients PROVE toClient[x] \in Seq(Replies) /\ ClientShows(x)
  <2>1. /\ toClient[x] = << >> /\ conn[x].bop = {} /\ master[TargetOf[x]].bop = {}
    BY <1>1, TopologyAssumption DEF Init
  <2>2. Shows(toClient[x], "B1", "B0", conn[x].bop # {}, FALSE)
    BY <2>1, ShowsEmpty
  <2>3. Fits(TargetOf[x], FALSE)
    BY <2>1 DEF Fits
  <2>4. QED
    BY <1>1, <2>1, <2>2, <2>3 DEF ClientShows
<1>4. QED
  BY <1>2, <1>3 DEF Init, Shown

\* The camera e makes no changes and is told nothing of centrald.
FitsOn(e) ==
  (e \in held => e \in held') /\ (e \in overwritten => e \in overwritten')

LEMMA CamerasSame ==
  ASSUME UNCHANGED camera
  PROVE  \A e : FitsOn(e)
BY DEF camera, FitsOn

\* What a step leaves to one client,
LEMMA ClientKept ==
  ASSUME NEW x, ClientShows(x), toClient'[x] = toClient[x],
         conn'[x].bop = conn[x].bop, FitsOn(TargetOf[x]),
         master'[TargetOf[x]].bop = master[TargetOf[x]].bop
  PROVE  ClientShows(x)'
<1>1. PICK v \in BOOLEAN : /\ Shows(toClient[x], "B1", "B0", conn[x].bop # {}, v)
                           /\ Fits(TargetOf[x], v)
  BY DEF ClientShows
<1>2. Fits(TargetOf[x], v)'
  BY <1>1 DEF Fits, FitsOn
<1>3. QED
  BY <1>1, <1>2 DEF ClientShows

\* and to all of them.
LEMMA ClientsKept ==
  ASSUME Shown, alive' \subseteq alive, UNCHANGED toClient,
         \A x \in Clients : conn'[x].bop = conn[x].bop,
         \A e \in alive' : master'[e].bop = master[e].bop /\ FitsOn(e)
  PROVE  \A x \in Clients : /\ toClient'[x] \in Seq(Replies)
                            /\ TargetOf[x] \in alive' => ClientShows(x)'
BY ClientKept DEF Shown

\* What it leaves to the devices and centrald.
LEMMA LinkKept ==
  ASSUME Shown, NEW e \in alive, UNCHANGED <<listed, word>>,
         master'[e] = master[e], peer'[e] = peer[e], busy'[e] = busy[e]
  PROVE  WordShows(e)' /\ BopShows(e)'
BY DEF Shown, WordShows, BopShows, BopFor

\* A client queues a command: nothing is told.
LEMMA ClientQueuesShown ==
  ASSUME IInv, Shown, NEW x \in Clients, ClientQueues(x)
  PROVE  Shown'
<1>1. /\ conn' = [conn EXCEPT ![x] = queCommand(conn[x], NewCommand("run", {Bit}, FALSE))]
      /\ UNCHANGED <<toClient, master, peer, listed, word, busy, camera, alive>>
  BY DEF ClientQueues
<1>2. queCommand(conn[x], NewCommand("run", {Bit}, FALSE)).bop = conn[x].bop
  BY Types, NamedFacts, QueClient
<1>3. \A y \in Clients : conn'[y].bop = conn[y].bop
  BY <1>1, <1>2, Types
<1>4. \A e \in alive : WordShows(e)' /\ BopShows(e)'
  BY <1>1, LinkKept
<1>5. QED
  BY <1>1, <1>3, <1>4, ClientsKept, CamerasSame DEF Shown

\* A client reads what it is told.
LEMMA ClientReadsShown ==
  ASSUME IInv, Shown, NEW x \in Clients, ClientReads(x)
  PROVE  Shown'
<1> DEFINE h == Head(toClient[x])
           c == conn[x]
           n == IF h # "+0" THEN setBopState(c, BitsIn(h))
                ELSE IF c.running = NoCommand THEN c ELSE commandReturn(c)
<1>1. /\ toClient[x] # << >> /\ toClient[x] \in Seq(Replies)
      /\ conn' = [conn EXCEPT ![x] = n]
      /\ toClient' = [toClient EXCEPT ![x] = Tail(toClient[x])]
      /\ UNCHANGED <<master, peer, listed, word, busy, camera, alive>>
  BY DEF ClientReads, Shown
<1>2. c \in ClientConns /\ h \in Replies /\ Tail(toClient[x]) \in Seq(Replies)
  BY <1>1, Types
<1>3. (n.bop # {}) <=> Reading(h, "B1", "B0", c.bop # {})
  <2>1. CASE h # "+0"
    <3>1. BitsIn(h) \in SUBSET {Bit}
      BY DEF BitsIn
    <3>2. n.bop = BitsIn(h)
      BY <1>2, <2>1, <3>1, BopClient
    <3>3. h \in {"B1", "B0"}
      BY <1>2, <2>1 DEF Replies
    <3>4. (BitsIn(h) # {}) <=> h = "B1"
      BY DEF BitsIn
    <3>5. QED
      BY <3>2, <3>3, <3>4 DEF Reading
  <2>2. CASE h = "+0"
    <3>1. commandReturn(c).bop = c.bop
      BY <1>2, ReturnClient
    <3>2. n.bop = c.bop
      BY <2>2, <3>1
    <3>3. QED
      BY <2>2, <3>2 DEF Reading
  <2>3. QED
    BY <2>1, <2>2
<1> HIDE DEF n, h
<1>4. TargetOf[x] \in alive => ClientShows(x)'
  <2> SUFFICES ASSUME TargetOf[x] \in alive PROVE ClientShows(x)'
    OBVIOUS
  <2> DEFINE cur == c.bop # {}
             r == Reading(h, "B1", "B0", cur)
  <2>1. PICK v \in BOOLEAN : /\ Shows(toClient[x], "B1", "B0", cur, v)
                             /\ Fits(TargetOf[x], v)
    BY DEF Shown, ClientShows
  <2> HIDE DEF cur
  <2>2. Shows(Tail(toClient[x]), "B1", "B0", r, v)
    BY <1>1, <2>1, ShowsTail DEF h
  <2>3. (n.bop # {}) = r
    BY <1>3 DEF Reading, cur
  <2>4. toClient'[x] = Tail(toClient[x]) /\ conn'[x] = n
    BY <1>1, Types
  <2>5. Fits(TargetOf[x], v)'
    BY <1>1, <2>1 DEF Fits, camera
  <2>6. QED
    BY <2>2, <2>3, <2>4, <2>5 DEF ClientShows
<1>5. \A y \in Clients \ {x} : toClient'[y] = toClient[y] /\ conn'[y] = conn[y]
  BY <1>1
<1>6. \A y \in Clients : /\ toClient'[y] \in Seq(Replies)
                         /\ TargetOf[y] \in alive' => ClientShows(y)'
  <2>1. toClient'[x] \in Seq(Replies)
    BY <1>1, <1>2, Types
  <2>2. ASSUME NEW y \in Clients \ {x}
        PROVE  /\ toClient'[y] \in Seq(Replies)
               /\ TargetOf[y] \in alive' => ClientShows(y)'
    BY <1>1, <1>5, ClientKept, CamerasSame DEF Shown
  <2>3. QED
    BY <1>1, <1>4, <2>1, <2>2
<1>7. \A e \in alive : WordShows(e)' /\ BopShows(e)'
  BY <1>1, LinkKept
<1>8. QED
  BY <1>1, <1>6, <1>7 DEF Shown

-----------------------------------------------------------------------------
(***************************************************************************)
(* The steps of devices, seen from the lines.                              *)
(***************************************************************************)
\* Asking, a device says nothing else.
LEMMA AsksLine ==
  ASSUME IInv, NEW x \in Clients, TargetOf[x] \in alive, AsksStatus(x)
  PROVE  LET d == TargetOf[x]
         IN  /\ \A e \in Devices \ {d} : master'[e] = master[e]
             /\ master'[d].running # NoCommand /\ master'[d].bop = master[d].bop
             /\ master'[d].out = IF master[d].running = NoCommand
                                 THEN Append(master[d].out, "status_info")
                                 ELSE master[d].out
<1> DEFINE d == TargetOf[x]
<1>1. PICK m : /\ master' = [master EXCEPT ![d] = m]
               /\ m.running # NoCommand /\ m.bop = master[d].bop
               /\ m.out = IF master[d].running = NoCommand
                          THEN Append(master[d].out, "status_info")
                          ELSE master[d].out
  BY AsksStatusEffect
<1>2. d \in Devices
  BY Types
<1> HIDE DEF d
<1>3. /\ \A e \in Devices \ {d} : master'[e] = master[e]
      /\ master'[d] = m
  BY <1>1, <1>2, Types
<1>4. QED
  BY <1>1, <1>3 DEF d

\* A device at work says so once.
LEMMA RunsLine ==
  ASSUME IInv, NEW x \in Clients, TargetOf[x] \in alive, Runs(x)
  PROVE  LET d == TargetOf[x]
         IN  /\ \A e \in Devices \ {d} : master'[e] = master[e]
             /\ master'[d].running = master[d].running
             /\ master'[d].bop = master[d].bop
             /\ master'[d].out = IF busy[d] THEN master[d].out
                                 ELSE Append(master[d].out, "S1")
<1> DEFINE d == TargetOf[x]
           m == sendMsg(master[d], "S1")
<1>1. /\ d \in listed /\ d \in Devices
      /\ master' = IF busy[d] THEN master ELSE [master EXCEPT ![d] = m]
  BY Types DEF Runs
<1>2. /\ Plain(master[d], {"status_info"}) /\ "S1" \in Texts
  BY <1>1, Links, WordsFacts
<1> HIDE DEF d
<1>3. /\ m.running = master[d].running /\ m.bop = master[d].bop
      /\ m.out = Append(master[d].out, "S1")
  BY <1>2, WritePlain DEF Alike
<1> HIDE DEF m
<1>4. /\ \A e \in Devices \ {d} : master'[e] = master[e]
      /\ master'[d] = IF busy[d] THEN master[d] ELSE m
  BY <1>1, Types
<1>5. QED
  BY <1>3, <1>4 DEF d

\* So it does when the work ends.
LEMMA FinishesLine ==
  ASSUME IInv, NEW d \in Devices, DeviceFinishes(d)
  PROVE  /\ \A e \in Devices \ {d} : master'[e] = master[e]
         /\ master'[d].running = master[d].running
         /\ master'[d].bop = master[d].bop
         /\ master'[d].out = Append(master[d].out, "S0")
<1> DEFINE m == sendMsg(master[d], "S0")
<1>1. /\ d \in listed
      /\ master' = [master EXCEPT ![d] = m]
  BY Types DEF DeviceFinishes
<1>2. /\ Plain(master[d], {"status_info"}) /\ "S0" \in Texts
  BY <1>1, Links, WordsFacts
<1>3. /\ m.running = master[d].running /\ m.bop = master[d].bop
      /\ m.out = Append(master[d].out, "S0")
  BY <1>2, WritePlain DEF Alike
<1> HIDE DEF m
<1>4. /\ \A e \in Devices \ {d} : master'[e] = master[e]
      /\ master'[d] = m
  BY <1>1, Types
<1>5. QED
  BY <1>3, <1>4

\* A camera that has read its chip says what it did not need to.
LEMMA ReadingEndsLine ==
  ASSUME IInv, NEW d \in Devices, ReadingEnds(d)
  PROVE  /\ \A e \in Devices \ {d} : master'[e] = master[e]
         /\ master'[d].running = master[d].running
         /\ master'[d].bop = master[d].bop
         /\ master'[d].out = Append(master[d].out, StatusWord(busy[d]))
<1> DEFINE t == StatusWord(busy[d])
           m == sendMsg(master[d], t)
<1>1. /\ d \in listed
      /\ master' = [master EXCEPT ![d] = m]
  BY Types DEF ReadingEnds
<1>2. /\ Plain(master[d], {"status_info"}) /\ t \in Texts
  BY <1>1, Links, WordsFacts DEF StatusWord
<1> HIDE DEF t
<1>3. /\ m.running = master[d].running /\ m.bop = master[d].bop
      /\ m.out = Append(master[d].out, t)
  BY <1>2, WritePlain DEF Alike
<1> HIDE DEF m
<1>4. /\ \A e \in Devices \ {d} : master'[e] = master[e]
      /\ master'[d] = m
  BY <1>1, Types
<1>5. QED
  BY <1>3, <1>4 DEF t

\* It answers with its state.
LEMMA AnswersLine ==
  ASSUME IInv, NEW d \in alive, AnswersStatusInfo(d)
  PROVE  /\ \A e \in Devices \ {d} : master'[e] = master[e]
         /\ master'[d].running = master[d].running
         /\ master'[d].bop = master[d].bop
         /\ master'[d].out = Append(Append(master[d].out, StatusWord(busy[d])), "+0")
<1>1. PICK m : /\ master' = [master EXCEPT ![d] = m] /\ Alike(master[d], m)
               /\ m.out = Append(Append(master[d].out, StatusWord(busy[d])), "+0")
  BY AnswersEffect
<1>2. d \in Devices
  BY Types
<1>3. /\ \A e \in Devices \ {d} : master'[e] = master[e]
      /\ master'[d] = m
  BY <1>1, <1>2, Types
<1>4. QED
  BY <1>1, <1>3 DEF Alike

\* It takes over a BOP state,
LEMMA BopLine ==
  ASSUME IInv, NEW d \in alive, ReadsBop(d)
  PROVE  /\ \A e \in Devices \ {d} : master'[e] = master[e]
         /\ master'[d].running = master[d].running
         /\ master'[d].bop = BitsIn(Head(peer[d].out))
         /\ master'[d].out = master[d].out
<1> DEFINE bits == BitsIn(Head(peer[d].out))
           m == setBopState(master[d], bits)
<1>1. /\ d \in listed /\ d \in Devices /\ master' = [master EXCEPT ![d] = m]
  BY Types DEF ReadsBop
<1>2. bits \in SUBSET {Bit} /\ Plain(master[d], {"status_info"})
  BY <1>1, Links DEF BitsIn
<1> HIDE DEF bits
<1>3. m.bop = bits /\ m.out = master[d].out /\ m.running = master[d].running
  BY <1>2, SideTexts, BopPlain
<1> HIDE DEF m
<1>4. /\ \A e \in Devices \ {d} : master'[e] = master[e]
      /\ master'[d] = m
  BY <1>1, Types
<1>5. QED
  BY <1>3, <1>4 DEF bits

\* and begins the next round when one ends.
LEMMA ReturnLine ==
  ASSUME IInv, NEW d \in alive, ReadsReturn(d), peer[d].out # << >>
  PROVE  /\ \A e \in Devices \ {d} : master'[e] = master[e]
         /\ master'[d].running = NoCommand <=> master[d].queue = << >>
         /\ master'[d].bop = master[d].bop
         /\ master'[d].out = IF master[d].queue = << >> THEN master[d].out
                             ELSE Append(master[d].out, "status_info")
         /\ waits[d] = 0 /\ Count(master[d].out, "status_info") = 0
<1> DEFINE m == commandReturn(master[d])
<1>1. /\ d \in listed /\ d \in Devices /\ Head(peer[d].out) = "+0"
      /\ master' = [master EXCEPT ![d] = IF master[d].running = NoCommand
                                         THEN master[d] ELSE m]
  BY Types DEF ReadsReturn
<1>2. /\ Plain(master[d], {"status_info"})
      /\ master[d].running # NoCommand
      /\ waits[d] = 0 /\ Count(master[d].out, "status_info") = 0
  <2> DEFINE n == Count(master[d].out, "status_info")
             k == Count(Tail(peer[d].out), "+0")
  <2>1. /\ n \in Nat /\ k \in Nat /\ waits[d] \in Nat
        /\ n + waits[d] + (k + 1) = IF master[d].running = NoCommand THEN 0 ELSE 1
        /\ Plain(master[d], {"status_info"})
    BY <1>1, ReadsEffect
  <2>2. QED
    BY <2>1
<1>3. /\ m.bop = master[d].bop
      /\ m.running = NoCommand <=> master[d].queue = << >>
      /\ m.out = IF master[d].queue = << >> THEN master[d].out
                 ELSE Append(master[d].out, "status_info")
  BY <1>2, ReturnStatus
<1> HIDE DEF m
<1>4. /\ \A e \in Devices \ {d} : master'[e] = master[e]
      /\ master'[d] = m
  BY <1>1, <1>2, Types
<1>5. QED
  BY <1>2, <1>3, <1>4

\* What a living device reads.
LEMMA MasterLine ==
  ASSUME IInv, NEW d \in Devices, DeviceReadsMaster(d)
  PROVE  /\ d \in alive /\ peer[d].out # << >>
         /\ \A e \in Devices \ {d} : peer'[e] = peer[e]
         /\ Alike(peer[d], peer'[d]) /\ peer'[d].out = Tail(peer[d].out)
         /\ UNCHANGED <<conn, listed, word, waits, busy, held, alive, runs>>
<1>1. /\ d \in alive /\ peer[d].out # << >>
      /\ peer' = [peer EXCEPT ![d] = Rest(peer[d])]
      /\ UNCHANGED <<conn, listed, word, waits, busy, held, alive, runs>>
  BY DEF DeviceReadsMaster
<1>2. Alike(peer[d], Rest(peer[d])) /\ Rest(peer[d]).out = Tail(peer[d].out)
  BY <1>1, ReadsEffect
<1>3. peer'[d] = Rest(peer[d]) /\ \A e \in Devices \ {d} : peer'[e] = peer[e]
  BY <1>1, Types
<1>4. QED
  BY <1>1, <1>2, <1>3

-----------------------------------------------------------------------------
\* A device asks for its status.
LEMMA AsksStatusShown ==
  ASSUME IInv, Shown, NEW x \in Clients, DeviceReadsClient(x), AsksStatus(x)
  PROVE  Shown'
<1> DEFINE d == TargetOf[x]
<1>1. /\ d \in alive /\ d \in Devices /\ conn[x].out # << >>
      /\ conn' = [conn EXCEPT ![x] = Rest(conn[x])]
      /\ UNCHANGED <<toClient, peer, listed, word, camera, alive, busy>>
  BY Types DEF DeviceReadsClient, AsksStatus
<1>2. /\ \A e \in Devices \ {d} : master'[e] = master[e]
      /\ master'[d].bop = master[d].bop
      /\ master'[d].out = IF master[d].running = NoCommand
                          THEN Append(master[d].out, "status_info")
                          ELSE master[d].out
  BY <1>1, AsksLine
<1>3. \A y \in Clients : conn'[y].bop = conn[y].bop
  <2>1. Rest(conn[x]).bop = conn[x].bop
    BY <1>1, Types, RestClient
  <2>2. QED
    BY <1>1, <2>1, Types
<1>4. \A e \in alive : master'[e].bop = master[e].bop
  BY <1>2, Types
<1>5. WordShows(d)' /\ BopShows(d)'
  <2>1. master[d].out \in Seq(Texts) /\ "status_info" \in Texts
        /\ "status_info" \notin {"S1", "S0"}
    BY <1>1, Types, WordsFacts
  <2>2. WordShows(d) /\ BopShows(d)
    BY <1>1 DEF Shown
  <2>3. Shows(Append(master[d].out, "status_info"), "S1", "S0", word[d], busy[d])
    BY <2>1, <2>2, ShowsOther DEF WordShows
  <2>4. Shows(master'[d].out, "S1", "S0", word[d], busy[d])
    BY <1>2, <2>2, <2>3 DEF WordShows
  <2>5. QED
    BY <1>1, <1>2, <2>2, <2>4 DEF WordShows, BopShows, BopFor
<1>6. \A e \in alive \ {d} : WordShows(e)' /\ BopShows(e)'
  BY <1>1, <1>2, Types, LinkKept
<1>7. QED
  BY <1>1, <1>3, <1>4, <1>5, <1>6, ClientsKept, CamerasSame DEF Shown

\* A device begins to work.
LEMMA RunsShown ==
  ASSUME IInv, Shown, NEW x \in Clients, DeviceReadsClient(x), Runs(x)
  PROVE  Shown'
<1> DEFINE d == TargetOf[x]
<1>1. /\ d \in alive /\ d \in Devices /\ conn[x].out # << >>
      /\ conn' = [conn EXCEPT ![x] = Rest(conn[x])]
      /\ busy' = [busy EXCEPT ![d] = TRUE]
      /\ toClient' = [toClient EXCEPT ![x] = Append(toClient[x], "+0")]
      /\ UNCHANGED <<peer, listed, word, camera, alive>>
  BY Types DEF DeviceReadsClient, Runs
<1>2. /\ \A e \in Devices \ {d} : master'[e] = master[e]
      /\ master'[d].bop = master[d].bop
      /\ master'[d].out = IF busy[d] THEN master[d].out
                          ELSE Append(master[d].out, "S1")
  BY <1>1, RunsLine
<1>3. \A y \in Clients : conn'[y].bop = conn[y].bop
  <2>1. Rest(conn[x]).bop = conn[x].bop
    BY <1>1, Types, RestClient
  <2>2. QED
    BY <1>1, <2>1, Types
<1>4. \A e \in alive : master'[e].bop = master[e].bop
  BY <1>2, Types
<1>5. WordShows(d)' /\ BopShows(d)'
  <2>1. master[d].out \in Seq(Texts) /\ "S1" \in Texts /\ "S0" \in Texts
    BY <1>1, Types, WordsFacts
  <2>2. WordShows(d) /\ BopShows(d) /\ busy'[d] = TRUE /\ busy[d] \in BOOLEAN
    BY <1>1, Types DEF Shown
  <2>3. Shows(Append(master[d].out, IF TRUE THEN "S1" ELSE "S0"), "S1", "S0", word[d], TRUE)
    BY <2>1, ShowsLast
  <2>4. Shows(master'[d].out, "S1", "S0", word[d], TRUE)
    BY <1>2, <2>2, <2>3 DEF WordShows
  <2>5. QED
    BY <1>1, <1>2, <2>2, <2>4 DEF WordShows, BopShows, BopFor
<1>6. \A e \in alive \ {d} : WordShows(e)' /\ BopShows(e)'
  BY <1>1, <1>2, Types, LinkKept
<1>7. ASSUME NEW y \in Clients
      PROVE  /\ toClient'[y] \in Seq(Replies)
             /\ TargetOf[y] \in alive' => ClientShows(y)'
  <2>1. CASE y # x
    <3>1. toClient'[y] = toClient[y]
      BY <1>1, <2>1
    <3>2. QED
      BY <1>1, <1>3, <1>4, <3>1, ClientKept, CamerasSame DEF Shown
  <2>2. CASE y = x
    <3> DEFINE cur == conn[x].bop # {}
    <3>1. toClient[x] \in Seq(Replies) /\ ClientShows(x)
      BY <1>1 DEF Shown
    <3>2. PICK v \in BOOLEAN : Shows(toClient[x], "B1", "B0", cur, v) /\ Fits(d, v)
      BY <3>1 DEF ClientShows
    <3>3. Fits(d, v)'
      BY <1>1, <1>2, <3>2 DEF Fits, camera
    <3>4. "+0" \in Replies /\ "+0" \notin {"B1", "B0"}
      BY DEF Replies
    <3> HIDE DEF cur
    <3>5. Shows(Append(toClient[x], "+0"), "B1", "B0", cur, v)
      BY <3>1, <3>2, <3>4, ShowsOther
    <3>6. Append(toClient[x], "+0") \in Seq(Replies)
      BY <3>1, <3>4
    <3>7. toClient'[x] = Append(toClient[x], "+0")
      BY <1>1, Types
    <3>8. QED
      BY <1>3, <2>2, <3>3, <3>5, <3>6, <3>7 DEF ClientShows, cur
  <2>3. QED
    BY <2>1, <2>2
<1>8. QED
  BY <1>1, <1>5, <1>6, <1>7 DEF Shown

\* Lines are written one after the other.
LEMMA ConcatLines ==
  ASSUME NEW S, NEW s \in Seq(S), NEW e \in S
  PROVE  s \o << >> = s /\ s \o <<e>> = Append(s, e)
<1>1. s \o << >> = s
  OBVIOUS
<1>2. s \o <<e>> = Append(s, e)
  OBVIOUS
<1>3. QED
  BY <1>1, <1>2

\* The owner of a device_status is returned it, which is no news.
LEMMA EndsReply ==
  ASSUME NEW s \in Seq(Replies), NEW cur, NEW b, Shows(s, "B1", "B0", cur, b),
         NEW own
  PROVE  LET q == s \o (IF own THEN <<"+0">> ELSE << >>)
         IN  q \in Seq(Replies) /\ Shows(q, "B1", "B0", cur, b)
<1>1. "+0" \in Replies /\ "+0" \notin {"B1", "B0"}
  BY DEF Replies
<1>2. CASE own
  <2>1. s \o <<"+0">> = Append(s, "+0") /\ Append(s, "+0") \in Seq(Replies)
    BY <1>1, ConcatLines
  <2>2. Shows(Append(s, "+0"), "B1", "B0", cur, b)
    BY <1>1, ShowsOther
  <2>3. QED
    BY <1>2, <2>1, <2>2
<1>3. CASE ~own
  <2>1. s \o << >> = s
    OBVIOUS
  <2>2. QED
    BY <1>3, <2>1
<1>4. QED
  BY <1>2, <1>3

\* What the clients are told at the end of a round.
LEMMA ReturnReplies ==
  ASSUME IInv, Shown, NEW d \in alive, EndsStatus(d, << >>),
         UNCHANGED <<conn, alive, held, overwritten>>,
         \A e \in alive : master'[e].bop = master[e].bop
  PROVE  \A x \in Clients : /\ toClient'[x] \in Seq(Replies)
                            /\ TargetOf[x] \in alive' => ClientShows(x)'
<1> SUFFICES ASSUME NEW x \in Clients
             PROVE  /\ toClient'[x] \in Seq(Replies)
                    /\ TargetOf[x] \in alive' => ClientShows(x)'
  OBVIOUS
<1>1. CASE TargetOf[x] # d
  <2>1. toClient'[x] = toClient[x] /\ FitsOn(TargetOf[x])
    BY <1>1 DEF EndsStatus, FitsOn
  <2>2. QED
    BY <2>1, ClientKept DEF Shown
<1>2. CASE TargetOf[x] = d
  <2> DEFINE s == toClient[x]
             own == owner[d] = x
             cur == conn[x].bop # {}
             q == s \o (IF own THEN <<"+0">> ELSE << >>)
  <2>1. s \in Seq(Replies) /\ ClientShows(x)
    BY <1>2 DEF Shown
  <2>2. PICK v \in BOOLEAN : Shows(s, "B1", "B0", cur, v) /\ Fits(d, v)
    BY <1>2, <2>1 DEF ClientShows
  <2>3. Fits(d, v)'
    BY <2>2 DEF Fits
  <2>4. toClient'[x] = q
    <3>1. toClient'[x] = s \o << >> \o (IF own THEN <<"+0">> ELSE << >>)
      BY <1>2 DEF EndsStatus
    <3>2. s \o << >> = s
      BY <2>1
    <3>3. QED
      BY <3>1, <3>2
  <2> HIDE DEF s, own, cur
  <2>5. q \in Seq(Replies) /\ Shows(q, "B1", "B0", cur, v)
    BY <2>1, <2>2, EndsReply
  <2> HIDE DEF q
  <2>6. QED
    BY <1>2, <2>3, <2>4, <2>5 DEF ClientShows, cur
<1>3. QED
  BY <1>1, <1>2

\* What they are told of a BOP state.
LEMMA BopReplies ==
  ASSUME IInv, Shown, NEW d \in alive, NEW m \in {"B0", "B1"},
         EndsStatus(d, <<m>>), UNCHANGED <<conn, alive>>, Fits(d, m = "B1")',
         \A e \in alive \ {d} : master'[e].bop = master[e].bop /\ FitsOn(e)
  PROVE  \A x \in Clients : /\ toClient'[x] \in Seq(Replies)
                            /\ TargetOf[x] \in alive' => ClientShows(x)'
<1> SUFFICES ASSUME NEW x \in Clients
             PROVE  /\ toClient'[x] \in Seq(Replies)
                    /\ TargetOf[x] \in alive' => ClientShows(x)'
  OBVIOUS
<1>1. CASE TargetOf[x] # d
  <2>1. toClient'[x] = toClient[x]
    BY <1>1 DEF EndsStatus
  <2>2. QED
    BY <1>1, <2>1, ClientKept DEF Shown
<1>2. CASE TargetOf[x] = d
  <2> DEFINE s == toClient[x]
             own == owner[d] = x
             cur == conn[x].bop # {}
             b == m = "B1"
             t == Append(s, m)
             q == t \o (IF own THEN <<"+0">> ELSE << >>)
  <2>1. s \in Seq(Replies) /\ m \in Replies /\ "B1" \in Replies /\ "B0" \in Replies
    BY DEF Shown, Replies
  <2>2. s \o <<m>> = t /\ t \in Seq(Replies)
    BY <2>1, ConcatLines
  <2>3. toClient'[x] = q
    <3>1. toClient'[x] = s \o <<m>> \o (IF own THEN <<"+0">> ELSE << >>)
      BY <1>2 DEF EndsStatus
    <3>2. QED
      BY <2>2, <3>1
  <2>4. /\ b \in BOOLEAN /\ Fits(d, b)'
        /\ m = IF b THEN "B1" ELSE "B0"
    OBVIOUS
  <2> HIDE DEF s, own, cur, b
  <2>5. Shows(t, "B1", "B0", cur, b)
    <3>1. Shows(Append(s, IF b THEN "B1" ELSE "B0"), "B1", "B0", cur, b)
      BY <2>1, ShowsLast
    <3>2. QED
      BY <2>4, <3>1
  <2> HIDE DEF t
  <2>6. q \in Seq(Replies) /\ Shows(q, "B1", "B0", cur, b)
    BY <2>2, <2>5, EndsReply
  <2> HIDE DEF q
  <2>7. QED
    BY <1>2, <2>3, <2>4, <2>6 DEF ClientShows, cur
<1>3. QED
  BY <1>1, <1>2

\* What they are told when the changes that waited are made.
LEMMA ChangesReplies ==
  ASSUME IInv, Shown, NEW d \in alive,
         MakesNone \/ \E left \in BOOLEAN : MakesChanges(d, left),
         UNCHANGED <<conn, alive>>,
         \A e \in alive : master'[e].bop = master[e].bop
  PROVE  \A x \in Clients : /\ toClient'[x] \in Seq(Replies)
                            /\ TargetOf[x] \in alive' => ClientShows(x)'
<1>1. CASE MakesNone
  <2>1. UNCHANGED toClient /\ \A e : FitsOn(e)
    BY <1>1 DEF MakesNone, FitsOn
  <2>2. QED
    BY <2>1, ClientsKept
<1>2. ASSUME NEW left \in BOOLEAN, MakesChanges(d, left)
      PROVE  \A x \in Clients : /\ toClient'[x] \in Seq(Replies)
                                /\ TargetOf[x] \in alive' => ClientShows(x)'
  <2> DEFINE m == BopState(left)
  <2>1. /\ d \in held /\ EndsStatus(d, <<m>>)
        /\ held' = IF left THEN held ELSE held \ {d}
        /\ overwritten' = overwritten \cup {d}
    BY <1>2 DEF MakesChanges
  <2>2. m \in {"B0", "B1"} /\ (m = "B1" => left)
    BY DEF BopState
  <2> HIDE DEF m
  <2>3. Fits(d, m = "B1")'
    BY <2>1, <2>2 DEF Fits
  <2>4. \A e \in alive \ {d} : FitsOn(e)
    BY <2>1 DEF FitsOn
  <2>5. QED
    BY <2>1, <2>2, <2>3, <2>4, BopReplies
<1>3. QED
  BY <1>1, <1>2

\* The work of a device ends.
LEMMA FinishesShown ==
  ASSUME IInv, Shown, NEW d \in Devices, DeviceFinishes(d)
  PROVE  Shown'
<1>1. /\ d \in alive /\ busy' = [busy EXCEPT ![d] = FALSE]
      /\ MakesNone \/ \E left \in BOOLEAN : MakesChanges(d, left)
      /\ UNCHANGED <<conn, peer, listed, word, alive>>
  BY DEF DeviceFinishes, Idles, BeginsReading, MakesAll
<1>2. /\ \A e \in Devices \ {d} : master'[e] = master[e]
      /\ master'[d].bop = master[d].bop
      /\ master'[d].out = Append(master[d].out, "S0")
  BY FinishesLine
<1>3. \A e \in alive : master'[e].bop = master[e].bop
  BY <1>2, Types
<1>4. WordShows(d)' /\ BopShows(d)'
  <2>1. master[d].out \in Seq(Texts) /\ "S1" \in Texts /\ "S0" \in Texts
    BY Types, WordsFacts
  <2>2. BopShows(d) /\ busy'[d] = FALSE
    BY <1>1, Types DEF Shown
  <2>3. Shows(Append(master[d].out, IF FALSE THEN "S1" ELSE "S0"), "S1", "S0", word[d], FALSE)
    BY <2>1, ShowsLast
  <2>4. Shows(master'[d].out, "S1", "S0", word[d], FALSE)
    BY <1>2, <2>3
  <2>5. QED
    BY <1>1, <1>2, <2>2, <2>4 DEF WordShows, BopShows, BopFor
<1>5. \A e \in alive \ {d} : WordShows(e)' /\ BopShows(e)'
  BY <1>1, <1>2, Types, LinkKept
<1>6. QED
  BY <1>1, <1>3, <1>4, <1>5, ChangesReplies DEF Shown

\* The chip of a camera has been read.
LEMMA ReadingEndsShown ==
  ASSUME IInv, Shown, NEW d \in Devices, ReadingEnds(d)
  PROVE  Shown'
<1> DEFINE b == busy[d]
<1>1. /\ d \in alive
      /\ MakesNone \/ \E left \in BOOLEAN : MakesChanges(d, left)
      /\ UNCHANGED <<conn, peer, listed, word, busy, alive>>
  BY DEF ReadingEnds, MakesAll
<1>2. /\ \A e \in Devices \ {d} : master'[e] = master[e]
      /\ master'[d].bop = master[d].bop
      /\ master'[d].out = Append(master[d].out, StatusWord(b))
  BY ReadingEndsLine
<1>3. \A e \in alive : master'[e].bop = master[e].bop
  BY <1>2, Types
<1>4. WordShows(d)' /\ BopShows(d)'
  <2>1. master[d].out \in Seq(Texts) /\ "S1" \in Texts /\ "S0" \in Texts
    BY Types, WordsFacts
  <2>2. BopShows(d) /\ busy'[d] = b
    BY <1>1 DEF Shown
  <2>3. master'[d].out = Append(master[d].out, IF b THEN "S1" ELSE "S0")
    BY <1>2 DEF StatusWord
  <2> HIDE DEF b
  <2>4. Shows(master'[d].out, "S1", "S0", word[d], b)
    BY <2>1, <2>3, ShowsLast
  <2>5. QED
    BY <1>1, <1>2, <2>2, <2>4 DEF WordShows, BopShows, BopFor
<1>5. \A e \in alive \ {d} : WordShows(e)' /\ BopShows(e)'
  BY <1>1, <1>2, Types, LinkKept
<1>6. QED
  BY <1>1, <1>3, <1>4, <1>5, ChangesReplies DEF Shown

\* A value change has to wait, which is told later.
LEMMA QueuesValueShown ==
  ASSUME IInv, Shown, NEW d \in Devices, QueuesValue(d)
  PROVE  Shown'
<1>1. /\ held' = held \cup {d}
      /\ UNCHANGED <<conn, toClient, master, peer, listed, word, busy, overwritten, alive>>
  BY DEF QueuesValue
<1>2. \A e : FitsOn(e)
  BY <1>1 DEF FitsOn
<1>3. \A e \in alive : WordShows(e)' /\ BopShows(e)'
  BY <1>1, LinkKept
<1>4. QED
  BY <1>1, <1>2, <1>3, ClientsKept DEF Shown

\* A device has read a line of centrald.
LEMMA BopRead ==
  ASSUME IInv, Shown, NEW d \in Devices, DeviceReadsMaster(d),
         (master'[d].bop # {}) <=> Reading(Head(peer[d].out), "B1", "B0",
                                           master[d].bop # {})
  PROVE  BopShows(d)'
<1> DEFINE cur == master[d].bop # {}
           b == BopFor(listed, word, d)
           r == Reading(Head(peer[d].out), "B1", "B0", cur)
<1>1. /\ d \in alive /\ peer[d].out # << >> /\ peer'[d].out = Tail(peer[d].out)
      /\ UNCHANGED <<listed, word>> /\ peer[d].out \in Seq(Texts)
  BY MasterLine, Types
<1>2. Shows(peer[d].out, "B1", "B0", cur, b)
  BY <1>1 DEF Shown, BopShows
<1>3. BopFor(listed', word', d) = b
  BY <1>1
<1>4. (master'[d].bop # {}) = r
  BY DEF Reading
<1> HIDE DEF cur, b
<1>5. Shows(Tail(peer[d].out), "B1", "B0", r, b)
  BY <1>1, <1>2, ShowsTail
<1>6. QED
  BY <1>1, <1>3, <1>4, <1>5 DEF BopShows

\* A device reads a status call, a BOP state or a return.
LEMMA DeviceReadsMasterShown ==
  ASSUME IInv, Shown, NEW d \in Devices, DeviceReadsMaster(d)
  PROVE  Shown'
<1> DEFINE h == Head(peer[d].out)
           s == master[d].out
           w == word[d]
           b == busy[d]
<1>1. /\ d \in alive /\ d \in Devices /\ peer[d].out # << >>
      /\ \A e \in Devices \ {d} : peer'[e] = peer[e]
      /\ UNCHANGED <<conn, listed, word, waits, busy, held, alive, runs>>
      /\ AnswersStatusInfo(d) \/ ReadsBop(d) \/ ReadsReturn(d)
  BY MasterLine DEF DeviceReadsMaster
<1>2. s \in Seq(Texts) /\ Shows(s, "S1", "S0", w, b)
  BY <1>1, Types DEF Shown, WordShows
<1>3. ASSUME \A e \in Devices \ {d} : master'[e] = master[e],
             Shows(master'[d].out, "S1", "S0", w, b),
             (master'[d].bop # {}) <=> Reading(h, "B1", "B0", master[d].bop # {}),
             \A x \in Clients : /\ toClient'[x] \in Seq(Replies)
                                /\ TargetOf[x] \in alive' => ClientShows(x)'
      PROVE  Shown'
  <2>1. WordShows(d)' /\ BopShows(d)'
    BY <1>1, <1>3, BopRead DEF WordShows
  <2>2. \A e \in alive \ {d} : WordShows(e)' /\ BopShows(e)'
    BY <1>1, <1>3, Types, LinkKept
  <2>3. QED
    BY <1>1, <1>3, <2>1, <2>2 DEF Shown
<1> HIDE DEF s, w, b
<1>4. CASE AnswersStatusInfo(d)
  <2>1. /\ \A e \in Devices \ {d} : master'[e] = master[e]
        /\ master'[d].bop = master[d].bop
        /\ master'[d].out = Append(Append(s, StatusWord(b)), "+0")
    BY <1>1, <1>4, AnswersLine DEF s, b
  <2>2. h \in Askers /\ UNCHANGED <<toClient, overwritten>>
    BY <1>4 DEF AnswersStatusInfo, Askers
  <2>3. /\ "S1" \in Texts /\ "S0" \in Texts /\ "+0" \in Texts
        /\ "+0" \notin {"S1", "S0"} /\ h \notin {"B1", "B0"}
    BY <2>2, WordsFacts
  <2> DEFINE t == Append(s, IF b THEN "S1" ELSE "S0")
  <2>4. t \in Seq(Texts) /\ Shows(t, "S1", "S0", w, b)
    <3>1. Append(s, IF b THEN "S1" ELSE "S0") \in Seq(Texts)
      BY <1>2, <2>3
    <3>2. QED
      BY <1>2, <2>3, <3>1, ShowsLast
  <2>5. master'[d].out = Append(t, "+0")
    BY <2>1 DEF StatusWord
  <2> HIDE DEF t
  <2>6. Shows(master'[d].out, "S1", "S0", w, b)
    BY <2>3, <2>4, <2>5, ShowsOther
  <2>7. (master'[d].bop # {}) <=> Reading(h, "B1", "B0", master[d].bop # {})
    BY <2>1, <2>3 DEF Reading
  <2>8. \A e \in alive : master'[e].bop = master[e].bop /\ FitsOn(e)
    BY <1>1, <2>1, <2>2, Types DEF FitsOn
  <2>9. \A x \in Clients : /\ toClient'[x] \in Seq(Replies)
                           /\ TargetOf[x] \in alive' => ClientShows(x)'
    BY <1>1, <2>2, <2>8, ClientsKept
  <2>10. QED
    BY <1>3, <2>1, <2>6, <2>7, <2>9
<1>5. CASE ReadsBop(d)
  <2>1. /\ \A e \in Devices \ {d} : master'[e] = master[e]
        /\ master'[d].bop = BitsIn(h) /\ master'[d].out = s
    BY <1>1, <1>5, BopLine DEF s
  <2>2. /\ h \in {"B0", "B1"} /\ EndsStatus(d, <<IF d \in held THEN "B1" ELSE h>>)
        /\ overwritten' = overwritten \ {d}
    BY <1>5 DEF ReadsBop
  <2>3. (master'[d].bop # {}) <=> Reading(h, "B1", "B0", master[d].bop # {})
    BY <2>1, <2>2 DEF Reading, BitsIn
  <2>4. \A e \in alive \ {d} : master'[e].bop = master[e].bop /\ FitsOn(e)
    BY <1>1, <2>1, <2>2, Types DEF FitsOn
  <2>5. PICK m \in {"B0", "B1"} : m = IF d \in held THEN "B1" ELSE h
    BY <2>2
  <2>6. EndsStatus(d, <<m>>) /\ Fits(d, m = "B1")'
    BY <1>1, <2>1, <2>2, <2>5 DEF Fits, BitsIn
  <2> HIDE DEF h
  <2>7. \A x \in Clients : /\ toClient'[x] \in Seq(Replies)
                           /\ TargetOf[x] \in alive' => ClientShows(x)'
    BY <1>1, <2>4, <2>6, BopReplies
  <2>8. QED
    BY <1>2, <1>3, <2>1, <2>3, <2>7 DEF h
<1>6. CASE ReadsReturn(d)
  <2>1. /\ \A e \in Devices \ {d} : master'[e] = master[e]
        /\ master'[d].bop = master[d].bop
        /\ master'[d].out = IF master[d].queue = << >> THEN s
                            ELSE Append(s, "status_info")
    BY <1>1, <1>6, ReturnLine DEF s
  <2>2. h = "+0" /\ EndsStatus(d, << >>) /\ UNCHANGED overwritten
    BY <1>6 DEF ReadsReturn
  <2>3. (master'[d].bop # {}) <=> Reading(h, "B1", "B0", master[d].bop # {})
    BY <2>1, <2>2 DEF Reading
  <2>4. Shows(Append(s, "status_info"), "S1", "S0", w, b)
    <3>1. "status_info" \in Texts /\ "status_info" \notin {"S1", "S0"}
      BY WordsFacts
    <3>2. QED
      BY <1>2, <3>1, ShowsOther
  <2>5. \A e \in alive : master'[e].bop = master[e].bop
    BY <2>1, Types
  <2>6. \A x \in Clients : /\ toClient'[x] \in Seq(Replies)
                           /\ TargetOf[x] \in alive' => ClientShows(x)'
    BY <1>1, <2>2, <2>5, ReturnReplies
  <2>7. QED
    BY <1>2, <1>3, <2>1, <2>3, <2>4, <2>6
<1>7. QED
  BY <1>1, <1>4, <1>5, <1>6

\* A device crashes: the others go on.
LEMMA CrashShown ==
  ASSUME IInv, Shown, NEW d \in Devices, Crash(d)
  PROVE  Shown'
<1>1. /\ alive' = alive \ {d}
      /\ \A e \in Devices \ {d} : /\ master'[e] = master[e] /\ peer'[e] = peer[e]
                                  /\ busy'[e] = busy[e]
      /\ held' = held \ {d} /\ overwritten' = overwritten \ {d}
      /\ UNCHANGED <<conn, toClient, listed, word>>
  BY Types DEF Crash
<1>2. \A e \in alive' : WordShows(e)' /\ BopShows(e)'
  BY <1>1, Types, LinkKept
<1>3. \A e \in alive' : master'[e].bop = master[e].bop /\ FitsOn(e)
  BY <1>1, Types DEF FitsOn
<1>4. QED
  BY <1>1, <1>2, <1>3, ClientsKept DEF Shown

\* centrald writes what it knows.
LEMMA BopWritten ==
  ASSUME Shown, NEW e \in alive, master'[e].bop = master[e].bop,
         \/ /\ Quiet(peer[e], peer'[e])
            /\ BopFor(listed', word', e) <=> BopFor(listed, word, e)
         \/ Says(peer'[e], BopFor(listed', word', e))
  PROVE  BopShows(e)'
<1> DEFINE cur == master[e].bop # {}
           b == BopFor(listed, word, e)
           v == BopFor(listed', word', e)
<1>1. Shows(peer[e].out, "B1", "B0", cur, b)
  BY DEF Shown, BopShows
<1>2. b \in BOOLEAN /\ v \in BOOLEAN
  BY DEF BopFor
<1>3. (Quiet(peer[e], peer'[e]) /\ b = v) \/ Says(peer'[e], v)
  BY <1>2
<1>4. (master'[e].bop # {}) = cur
  OBVIOUS
<1> HIDE DEF cur, b, v
<1>5. Shows(peer'[e].out, "B1", "B0", cur, v)
  BY <1>1, <1>3 DEF Quiet, Says
<1>6. QED
  BY <1>4, <1>5 DEF BopShows, v

\* centrald reads a line.
LEMMA CentraldReadsShown ==
  ASSUME IInv, Shown, NEW d \in Devices, CentraldReads(d)
  PROVE  Shown'
<1>1. /\ d \in listed /\ master[d].out # << >>
      /\ master'[d].out = Tail(master[d].out)
      /\ word'[d] = Reading(Head(master[d].out), "S1", "S0", word[d])
      /\ \A e \in Devices \ {d} : master'[e] = master[e] /\ word'[e] = word[e]
      /\ \A e \in listed : master'[e].bop = master[e].bop
      /\ UNCHANGED <<conn, toClient, listed, busy, camera, alive>>
  BY CentraldLines
<1>2. ASSUME NEW e \in alive PROVE WordShows(e)'
  <2>1. WordShows(e) /\ e \in Devices /\ master[e].out \in Seq(Texts)
    BY Types DEF Shown
  <2>2. CASE e = d
    <3>1. Shows(Tail(master[d].out), "S1", "S0",
                Reading(Head(master[d].out), "S1", "S0", word[d]), busy[d])
      BY <1>1, <2>1, <2>2, ShowsTail DEF WordShows
    <3>2. QED
      BY <1>1, <2>2, <3>1 DEF WordShows
  <2>3. CASE e # d
    BY <1>1, <2>1, <2>3 DEF WordShows
  <2>4. QED
    BY <2>2, <2>3
<1>3. ASSUME NEW e \in alive PROVE BopShows(e)'
  <2>1. e \in listed /\ master'[e].bop = master[e].bop
    BY <1>1, Types
  <2>2. CASE StatusInfo(d)
    BY <1>1, <2>1, <2>2, StatusInfoPeers, BopWritten
  <2>3. CASE StatusReport(d)
    <3>1. IF word' = word THEN peer'[e] = peer[e]
          ELSE Says(peer'[e], BopFor(listed, word', e))
      BY <1>1, <2>1, <2>3, StatusReportPeers
    <3>2. \/ Quiet(peer[e], peer'[e]) /\ word' = word
          \/ Says(peer'[e], BopFor(listed, word', e))
      BY <3>1 DEF Quiet
    <3>3. QED
      BY <1>1, <2>1, <3>2, BopWritten
  <2>4. CASE StatusReturn(d)
    <3>1. /\ UNCHANGED word
          /\ Quiet(peer[e], peer'[e]) \/ Says(peer'[e], BopFor(listed, word, e))
      BY <1>1, <2>1, <2>4, StatusReturnPeers
    <3>2. QED
      BY <1>1, <2>1, <3>1, BopWritten
  <2>5. QED
    BY <2>2, <2>3, <2>4 DEF CentraldReads
<1>4. \A x \in Clients : /\ toClient'[x] \in Seq(Replies)
                         /\ TargetOf[x] \in alive' => ClientShows(x)'
  BY <1>1, Types, ClientsKept, CamerasSame
<1>5. QED
  BY <1>1, <1>2, <1>3, <1>4 DEF Shown

\* centrald drops a lost device.
LEMMA CentraldRemovesShown ==
  ASSUME IInv, Shown, NEW d \in Devices, CentraldRemoves(d)
  PROVE  Shown'
<1>1. /\ d \notin alive /\ listed' = listed \ {d}
      /\ word' = [word EXCEPT ![d] = FALSE]
      /\ \A e \in Devices \ {d} : master'[e] = master[e] /\ word'[e] = word[e]
      /\ UNCHANGED <<conn, toClient, busy, camera, alive>>
  BY Types DEF CentraldRemoves
<1>2. \A e \in alive : e \in listed \ {d} /\ e \in Devices \ {d}
  BY <1>1, Types
<1>3. ASSUME NEW e \in alive PROVE WordShows(e)' /\ BopShows(e)'
  <2>1. WordShows(e)'
    BY <1>1, <1>2 DEF Shown, WordShows
  <2>2. Says(peer'[e], BopFor(listed \ {d}, word, e))
    BY <1>2, CentraldRemovesPeers
  <2>3. BopFor(listed', word', e) = BopFor(listed \ {d}, word, e)
    <3>1. \A f \in (listed \ {d}) \cap BlockedBy[e] : word'[f] = word[f]
      BY <1>1, Types
    <3>2. QED
      BY <1>1, <3>1 DEF BopFor
  <2>4. master'[e].bop = master[e].bop
    BY <1>1, <1>2
  <2>5. BopShows(e)'
    BY <2>2, <2>3, <2>4, BopWritten
  <2>6. QED
    BY <2>1, <2>5
<1>4. \A x \in Clients : /\ toClient'[x] \in Seq(Replies)
                         /\ TargetOf[x] \in alive' => ClientShows(x)'
  BY <1>1, <1>2, ClientsKept, CamerasSame
<1>5. QED
  BY <1>1, <1>3, <1>4 DEF Shown

\* So every step leaves the lines true.
LEMMA NextShown == IInv /\ Shown /\ [Next]_vars => Shown'
<1> SUFFICES ASSUME IInv, Shown, [Next]_vars PROVE Shown'
  OBVIOUS
<1>1. ASSUME NEW x \in Clients, ClientQueues(x) PROVE Shown'
  BY <1>1, ClientQueuesShown
<1>2. ASSUME NEW x \in Clients, ClientReads(x) PROVE Shown'
  BY <1>2, ClientReadsShown
<1>3. ASSUME NEW x \in Clients, DeviceReadsClient(x) PROVE Shown'
  <2>1. AsksStatus(x) \/ Runs(x)
    BY <1>3 DEF DeviceReadsClient
  <2>2. QED
    BY <1>3, <2>1, AsksStatusShown, RunsShown
<1>4. ASSUME NEW d \in Devices, DeviceFinishes(d) PROVE Shown'
  BY <1>4, FinishesShown
<1>5. ASSUME NEW d \in Devices, DeviceReadsMaster(d) PROVE Shown'
  BY <1>5, DeviceReadsMasterShown
<1>6. ASSUME NEW d \in Devices, Crash(d) PROVE Shown'
  BY <1>6, CrashShown
<1>7. ASSUME NEW d \in Devices, CentraldReads(d) PROVE Shown'
  BY <1>7, CentraldReadsShown
<1>8. ASSUME NEW d \in Devices, CentraldRemoves(d) PROVE Shown'
  BY <1>8, CentraldRemovesShown
<1>9. ASSUME NEW d \in Devices, QueuesValue(d) PROVE Shown'
  BY <1>9, QueuesValueShown
<1>10. ASSUME NEW d \in Devices, ReadingEnds(d) PROVE Shown'
  BY <1>10, ReadingEndsShown
<1>11. CASE UNCHANGED vars
  <2>1. UNCHANGED <<conn, toClient, master, peer, listed, word, busy, camera, alive>>
    BY <1>11 DEF vars, camera
  <2>2. \A e \in alive : WordShows(e)' /\ BopShows(e)'
    BY <2>1, LinkKept
  <2>3. QED
    BY <2>1, <2>2, ClientsKept, CamerasSame DEF Shown
<1>12. QED
  BY <1>1, <1>2, <1>3, <1>4, <1>5, <1>6, <1>7, <1>8, <1>9, <1>10, <1>11 DEF Next

\* When nothing is under way the client knows what is.
LEMMA QuietAgreed == IInv /\ Shown => QuietAgree
<1> SUFFICES ASSUME IInv, Shown, listed = alive,
                    \A d \in alive : master[d].out = << >> /\ peer[d].out = << >>,
                    NEW x \in Clients, toClient[x] = << >>, TargetOf[x] \in alive
             PROVE  /\ conn[x].bop # {} =>
                         BopFor(alive, busy, TargetOf[x]) \/ TargetOf[x] \in held
                    /\ BopFor(alive, busy, TargetOf[x]) =>
                         conn[x].bop # {} \/ TargetOf[x] \in overwritten
  BY DEF QuietAgree, AllRead
<1> DEFINE d == TargetOf[x]
           at == master[d].bop # {}
           cl == conn[x].bop # {}
           b == BopFor(listed, word, d)
<1>1. PICK v \in BOOLEAN : Shows(<< >>, "B1", "B0", cl, v) /\ Fits(d, v)
  BY DEF Shown, ClientShows
<1>2. (v => at \/ d \in held) /\ (at => v \/ d \in overwritten)
  BY <1>1 DEF Fits
<1>3. Shows(<< >>, "B1", "B0", at, b)
  BY DEF Shown, BopShows
<1>4. \A e \in alive : Shows(<< >>, "S1", "S0", word[e], busy[e])
  BY DEF Shown, WordShows
<1>5. \A e \in alive : word[e] <=> busy[e]
  BY <1>4, ShowsEmpty
<1>6. b <=> BopFor(alive, busy, d)
  BY <1>5 DEF BopFor
<1> HIDE DEF at, cl, b
<1>7. (cl <=> v) /\ (at <=> b)
  BY <1>1, <1>3, ShowsEmpty
<1>8. QED
  BY <1>2, <1>6, <1>7 DEF cl

\* When everything written has been read, every client knows whether something
\* at work blocks its device: no order of status words, BOP states, rounds and
\* losses leaves a stale one.  What a client may know too much of are value
\* changes that wait, and what it may miss is what a camera has told its own
\* word over (Device::checkQueChanges) since centrald told it last.
THEOREM WhenQuietAgreed == Spec => []QuietAgree
<1>1. Init => IInv /\ Shown
  BY InitIInv, InitShown
<1>2. IInv /\ Shown /\ [Next]_vars => (IInv /\ Shown)'
  BY NextIInv, NextShown
<1>3. QED
  BY <1>1, <1>2, QuietAgreed, PTL DEF Spec

-----------------------------------------------------------------------------
(***************************************************************************)
(* What centrald knows when it answers a round.                            *)
(***************************************************************************)
\* Device e still has to answer for the round of d, and its answer will come
\* after the news of its work; or the news is known.
Owes(e, d) ==
  \/ Queues(peer[e], d)
  \/ peer[e].running = AskFor(d) /\ KnownAt(master[e].out, word[e], "+0")
  \/ Known(master[e].out, word[e])

\* The work of d itself is known by the time its round is asked for.
OwnWork(d) ==
  /\ KnownAt(master[d].out, word[d], "status_info")
  /\ waits[d] > 0 => Known(master[d].out, word[d])

\* All that was at work when the round of d began and still is has told so, or
\* will before centrald answers.
FreshFor(d) ==
  /\ since[d] # {} => d \in alive /\ master[d].running # NoCommand
  /\ \A e \in since[d] : e \in alive /\ busy[e]
  /\ d \in since[d] => OwnWork(d)
  /\ waits[d] > 0 => \A e \in (since[d] \cap BlockedBy[d]) \ {d} : Owes(e, d)

\* The status call that runs is on its way to e, or its return on the way back.
Served(e) ==
  Among(peer[e].out, Askers) + Count(master[e].out, "+0")
    = IF peer[e].running = NoCommand THEN 0 ELSE 1

Fresh == (\A d \in Devices : FreshFor(d)) /\ (\A e \in alive : Served(e))

\* No round has begun.
LEMMA InitFresh == Init => Fresh
<1> SUFFICES ASSUME Init PROVE Fresh
  OBVIOUS
<1>1. /\ NewConnection("open").out = << >>
      /\ NewConnection("open").running = NoCommand
  BY DEF NewConnection
<1>2. ASSUME NEW d \in Devices PROVE FreshFor(d)
  BY DEF Init, FreshFor
<1>3. ASSUME NEW e \in alive PROVE Served(e)
  <2>1. /\ peer[e].out = << >> /\ master[e].out = << >>
        /\ peer[e].running = NoCommand
    BY <1>1 DEF Init
  <2>2. QED
    BY <2>1, AmongEmpty, CountFacts DEF Served
<1>4. QED
  BY <1>2, <1>3 DEF Fresh

\* What was owed is owed or known.
LEMMA OwesKept ==
  ASSUME NEW e, NEW d, Owes(e, d),
         Keeps(master[e].out, word[e], master'[e].out, word'[e]),
         Queues(peer[e], d) => Queues(peer'[e], d),
         peer[e].running = AskFor(d) => peer'[e].running = AskFor(d)
  PROVE  Owes(e, d)'
BY DEF Owes, Keeps

\* A round that goes on stays fresh,
LEMMA FreshForKept ==
  ASSUME NEW d, FreshFor(d), since'[d] \subseteq since[d],
         since'[d] # {} => d \in alive' /\ master'[d].running # NoCommand,
         \A e \in since'[d] :
            /\ e \in alive' /\ busy'[e]
            /\ Keeps(master[e].out, word[e], master'[e].out, word'[e]),
         waits'[d] > 0 => /\ waits[d] > 0
                          /\ \A e \in since'[d] : Owes(e, d) => Owes(e, d)'
  PROVE  FreshFor(d)'
<1>1. d \in since'[d] => OwnWork(d)'
  BY DEF FreshFor, OwnWork, Keeps
<1>2. QED
  BY <1>1 DEF FreshFor

\* and so does one that does, and of which centrald still holds what it held.
LEMMA FreshForSteady ==
  ASSUME NEW d, FreshFor(d), since'[d] \subseteq since[d],
         since'[d] # {} => d \in alive' /\ master'[d].running # NoCommand,
         \A e \in since'[d] :
            /\ e \in alive' /\ busy'[e]
            /\ Keeps(master[e].out, word[e], master'[e].out, word'[e])
            /\ Queues(peer[e], d) => Queues(peer'[e], d)
            /\ peer[e].running = AskFor(d) => peer'[e].running = AskFor(d),
         waits'[d] > 0 => waits[d] > 0
  PROVE  FreshFor(d)'
<1>1. \A e \in since'[d] : Owes(e, d) => Owes(e, d)'
  BY OwesKept
<1>2. QED
  BY <1>1, FreshForKept

\* Who neither reads nor writes keeps what is known,
LEMMA KeepsSame ==
  ASSUME NEW s, NEW w
  PROVE  Keeps(s, w, s, w)
BY DEF Keeps

LEMMA KeepsTwice ==
  ASSUME NEW s, NEW w, NEW q, NEW v, NEW r, NEW u,
         Keeps(s, w, q, v), Keeps(q, v, r, u)
  PROVE  Keeps(s, w, r, u)
BY DEF Keeps

\* and so does a device at work that writes.
LEMMA KeepsWrites ==
  ASSUME IInv, Shown, NEW e \in alive, busy[e], word'[e] = word[e],
         NEW m \in Texts, m # "S0",
         master'[e].out \in {master[e].out, Append(master[e].out, m)}
  PROVE  Keeps(master[e].out, word[e], master'[e].out, word'[e])
<1> DEFINE s == master[e].out
           w == word[e]
<1>1. s \in Seq(Texts)
  BY Types
<1>2. busy[e] = TRUE
  BY Types
<1>3. Shows(s, "S1", "S0", w, TRUE)
  BY <1>2 DEF Shown, WordShows
<1> HIDE DEF s, w
<1>4. Keeps(s, w, Append(s, m), w) /\ Keeps(s, w, s, w)
  BY <1>1, <1>3, KeepsAppend, KeepsSame
<1>5. QED
  BY <1>4 DEF s, w

\* A device is served as before when other lines are read and written.
LEMMA ServedKept ==
  ASSUME NEW e, Served(e),
         Among(peer'[e].out, Askers) = Among(peer[e].out, Askers),
         Count(master'[e].out, "+0") = Count(master[e].out, "+0"),
         peer'[e].running = peer[e].running
  PROVE  Served(e)'
BY DEF Served

\* Clients take no part.
LEMMA FreshUnchanged ==
  ASSUME Fresh, UNCHANGED <<master, peer, word, waits, busy, alive, since>>
  PROVE  Fresh'
BY DEF Fresh, FreshFor, Served, Owes, OwnWork

\* What is no return is not counted as one.
LEMMA ReturnsKept ==
  ASSUME IInv, NEW e \in alive, NEW m \in Texts, m # "+0",
         master'[e].out \in {master[e].out, Append(master[e].out, m)}
  PROVE  Count(master'[e].out, "+0") = Count(master[e].out, "+0")
<1>1. master[e].out \in Seq(Texts)
  BY Types
<1>2. Count(Append(master[e].out, m), "+0") = Count(master[e].out, "+0")
  BY <1>1, CountOther
<1>3. QED
  BY <1>2

\* A round begins with what is at work.
LEMMA RoundBegins ==
  ASSUME IInv, Shown, NEW d \in alive,
         UNCHANGED <<word, waits, busy, alive>>, since'[d] = AtWork,
         waits[d] = 0, Count(master[d].out, "status_info") = 0,
         master'[d].running # NoCommand,
         master'[d].out = Append(master[d].out, "status_info")
  PROVE  FreshFor(d)'
<1>1. \A e \in since'[d] : e \in alive' /\ busy'[e]
  BY DEF AtWork
<1>2. d \in since'[d] => OwnWork(d)'
  <2> SUFFICES ASSUME d \in since'[d] PROVE OwnWork(d)'
    OBVIOUS
  <2>1. busy[d] /\ master[d].out \in Seq(Texts)
    BY <1>1, Types
  <2>2. KnownAt(master[d].out, word[d], "status_info")
    BY <2>1, KnownNever
  <2>3. "status_info" \in Texts /\ "status_info" # "S0"
    BY WordsFacts
  <2>4. Keeps(master[d].out, word[d], master'[d].out, word'[d])
    BY <2>1, <2>3, KeepsWrites
  <2>5. QED
    BY <2>2, <2>4 DEF OwnWork, Keeps
<1>3. QED
  BY <1>1, <1>2 DEF FreshFor

\* Device::queDeviceStatusCommand.
LEMMA AsksStatusFresh ==
  ASSUME IInv, Shown, Fresh, NEW x \in Clients, DeviceReadsClient(x), AsksStatus(x)
  PROVE  Fresh'
<1> DEFINE d == TargetOf[x]
           m == "status_info"
<1>1. /\ d \in alive /\ d \in Devices
      /\ since' = [since EXCEPT ![d] = IF master[d].running = NoCommand
                                       THEN AtWork ELSE since[d]]
      /\ UNCHANGED <<peer, word, waits, alive, busy>>
  BY Types DEF DeviceReadsClient, AsksStatus
<1>2. /\ \A e \in Devices \ {d} : master'[e] = master[e]
      /\ master'[d].running # NoCommand
      /\ master'[d].out = IF master[d].running = NoCommand
                          THEN Append(master[d].out, m) ELSE master[d].out
  BY <1>1, AsksLine
<1> HIDE DEF d
<1>3. m \in Texts /\ m # "S0" /\ m # "+0" /\ \A e \in alive : e \in Devices
  BY WordsFacts, Types
<1>4. ASSUME NEW e \in alive, busy[e]
      PROVE  Keeps(master[e].out, word[e], master'[e].out, word'[e])
  <2>1. master'[e].out \in {master[e].out, Append(master[e].out, m)}
    BY <1>2, <1>3
  <2> HIDE DEF m
  <2>2. QED
    BY <1>1, <1>3, <1>4, <2>1, KeepsWrites
<1>5. ASSUME NEW b \in Devices PROVE FreshFor(b)'
  <2>1. CASE b = d /\ master[d].running = NoCommand
    <3>1. waits[d] = 0 /\ Count(master[d].out, m) = 0
      <4>1. /\ d \in listed
            /\ Count(master[d].out, m) + waits[d] + Count(peer[d].out, "+0") = 0
        BY <1>1, <2>1, Types DEF IInv, Balanced, Balance
      <4>2. /\ Count(master[d].out, m) \in Nat /\ waits[d] \in Nat
            /\ Count(peer[d].out, "+0") \in Nat
        BY <4>1, Links
      <4>3. QED
        BY <4>1, <4>2
    <3>2. since'[d] = AtWork
      BY <1>1, <2>1, Types
    <3>3. QED
      BY <1>1, <1>2, <2>1, <3>1, <3>2, RoundBegins
  <2>2. CASE ~(b = d /\ master[d].running = NoCommand)
    <3>1. since'[b] = since[b] /\ FreshFor(b)
      BY <1>1, <2>2, Types DEF Fresh
    <3>2. master[b].running # NoCommand => master'[b].running # NoCommand
      BY <1>2
    <3>3. \A e \in since[b] : e \in alive /\ busy[e]
      BY <3>1 DEF FreshFor
    <3>4. QED
      BY <1>1, <1>4, <3>1, <3>2, <3>3, FreshForSteady DEF FreshFor
  <2>3. QED
    BY <2>1, <2>2
<1>6. ASSUME NEW e \in alive PROVE Served(e)'
  <2>1. master'[e].out \in {master[e].out, Append(master[e].out, m)}
        /\ peer'[e] = peer[e]
    BY <1>1, <1>2, <1>3
  <2> HIDE DEF m
  <2>2. Count(master'[e].out, "+0") = Count(master[e].out, "+0")
    BY <1>3, <2>1, ReturnsKept
  <2>3. QED
    BY <1>1, <2>1, <2>2, ServedKept DEF Fresh
<1>7. QED
  BY <1>1, <1>5, <1>6 DEF Fresh

\* The device begins to work.
LEMMA RunsFresh ==
  ASSUME IInv, Shown, Fresh, NEW x \in Clients, DeviceReadsClient(x), Runs(x)
  PROVE  Fresh'
<1> DEFINE d == TargetOf[x]
           m == "S1"
<1>1. /\ d \in alive /\ d \in Devices /\ busy' = [busy EXCEPT ![d] = TRUE]
      /\ UNCHANGED <<peer, word, waits, alive, since>>
  BY Types DEF DeviceReadsClient, Runs
<1>2. /\ \A e \in Devices \ {d} : master'[e] = master[e]
      /\ master'[d].running = master[d].running
      /\ master'[d].out = IF busy[d] THEN master[d].out ELSE Append(master[d].out, m)
  BY <1>1, RunsLine
<1> HIDE DEF d
<1>3. m \in Texts /\ m # "S0" /\ m # "+0" /\ \A e \in alive : e \in Devices
  BY WordsFacts, Types
<1>4. ASSUME NEW e \in alive, busy[e]
      PROVE  /\ busy'[e]
             /\ Keeps(master[e].out, word[e], master'[e].out, word'[e])
  <2>1. master'[e].out \in {master[e].out, Append(master[e].out, m)} /\ busy'[e]
    BY <1>1, <1>2, <1>3, <1>4, Types
  <2> HIDE DEF m
  <2>2. QED
    BY <1>1, <1>3, <1>4, <2>1, KeepsWrites
<1>5. ASSUME NEW b \in Devices PROVE FreshFor(b)'
  <2>1. FreshFor(b) /\ master'[b].running = master[b].running
    BY <1>2 DEF Fresh
  <2>2. \A e \in since[b] : e \in alive /\ busy[e]
    BY <2>1 DEF FreshFor
  <2>3. QED
    BY <1>1, <1>4, <2>1, <2>2, FreshForSteady DEF FreshFor
<1>6. ASSUME NEW e \in alive PROVE Served(e)'
  <2>1. master'[e].out \in {master[e].out, Append(master[e].out, m)}
        /\ peer'[e] = peer[e]
    BY <1>1, <1>2, <1>3
  <2> HIDE DEF m
  <2>2. Count(master'[e].out, "+0") = Count(master[e].out, "+0")
    BY <1>3, <2>1, ReturnsKept
  <2>3. QED
    BY <1>1, <2>1, <2>2, ServedKept DEF Fresh
<1>7. QED
  BY <1>1, <1>5, <1>6 DEF Fresh

\* Its work ends, and no round counts it any more.
LEMMA FinishesFresh ==
  ASSUME IInv, Shown, Fresh, NEW d \in Devices, DeviceFinishes(d)
  PROVE  Fresh'
<1> DEFINE m == "S0"
<1>1. /\ busy' = [busy EXCEPT ![d] = FALSE]
      /\ since' = [e \in Devices |-> since[e] \ {d}]
      /\ UNCHANGED <<peer, word, waits, alive>>
  BY DEF DeviceFinishes
<1>2. /\ \A e \in Devices \ {d} : master'[e] = master[e]
      /\ master'[d].running = master[d].running
      /\ master'[d].out = Append(master[d].out, m)
  BY FinishesLine
<1>3. m \in Texts /\ m # "+0" /\ \A e \in alive : e \in Devices
  BY WordsFacts, Types
<1>4. ASSUME NEW b \in Devices PROVE FreshFor(b)'
  <2>1. /\ FreshFor(b) /\ master'[b].running = master[b].running
        /\ since'[b] = since[b] \ {d}
    BY <1>1, <1>2 DEF Fresh
  <2>2. ASSUME NEW e \in since'[b]
        PROVE  /\ e \in alive' /\ busy'[e]
               /\ Keeps(master[e].out, word[e], master'[e].out, word'[e])
    <3>1. e \in alive /\ busy[e] /\ e # d
      BY <2>1, <2>2 DEF FreshFor
    <3>2. master'[e].out = master[e].out /\ busy'[e] = busy[e] /\ word'[e] = word[e]
      BY <1>1, <1>2, <1>3, <3>1, Types
    <3>3. QED
      BY <1>1, <3>1, <3>2, KeepsSame
  <2>3. QED
    BY <1>1, <2>1, <2>2, FreshForSteady DEF FreshFor
<1>5. ASSUME NEW e \in alive PROVE Served(e)'
  <2>1. master'[e].out \in {master[e].out, Append(master[e].out, m)}
        /\ peer'[e] = peer[e]
    BY <1>1, <1>2, <1>3
  <2> HIDE DEF m
  <2>2. Count(master'[e].out, "+0") = Count(master[e].out, "+0")
    BY <1>3, <2>1, ReturnsKept
  <2>3. QED
    BY <1>1, <2>1, <2>2, ServedKept DEF Fresh
<1>6. QED
  BY <1>1, <1>4, <1>5 DEF Fresh

\* A camera that has read its chip says again whether it is at work.
LEMMA ReadingEndsFresh ==
  ASSUME IInv, Shown, Fresh, NEW d \in Devices, ReadingEnds(d)
  PROVE  Fresh'
<1> DEFINE m == StatusWord(busy[d])
<1>1. UNCHANGED <<peer, word, waits, busy, alive, since>>
  BY DEF ReadingEnds
<1>2. /\ \A e \in Devices \ {d} : master'[e] = master[e]
      /\ master'[d].running = master[d].running
      /\ master'[d].out = Append(master[d].out, m)
  BY ReadingEndsLine
<1>3. /\ m \in Texts /\ m # "+0" /\ (busy[d] => m # "S0")
      /\ \A e \in alive : e \in Devices
  BY WordsFacts, Types DEF StatusWord
<1> HIDE DEF m
<1>4. ASSUME NEW e \in alive, busy[e]
      PROVE  Keeps(master[e].out, word[e], master'[e].out, word'[e])
  <2>1. CASE e = d
    BY <1>1, <1>2, <1>3, <1>4, <2>1, KeepsWrites
  <2>2. CASE e # d
    BY <1>1, <1>2, <1>3, <2>2, KeepsSame
  <2>3. QED
    BY <2>1, <2>2
<1>5. ASSUME NEW b \in Devices PROVE FreshFor(b)'
  <2>1. FreshFor(b) /\ master'[b].running = master[b].running
    BY <1>2 DEF Fresh
  <2>2. \A e \in since[b] : e \in alive /\ busy[e]
    BY <2>1 DEF FreshFor
  <2>3. QED
    BY <1>1, <1>4, <2>1, <2>2, FreshForSteady DEF FreshFor
<1>6. ASSUME NEW e \in alive PROVE Served(e)'
  <2>1. master'[e].out \in {master[e].out, Append(master[e].out, m)}
        /\ peer'[e] = peer[e]
    BY <1>1, <1>2, <1>3
  <2>2. Count(master'[e].out, "+0") = Count(master[e].out, "+0")
    BY <1>3, <2>1, ReturnsKept
  <2>3. QED
    BY <1>1, <2>1, <2>2, ServedKept DEF Fresh
<1>7. QED
  BY <1>1, <1>5, <1>6 DEF Fresh

\* It is lost.
LEMMA CrashFresh ==
  ASSUME IInv, Shown, Fresh, NEW d \in Devices, Crash(d)
  PROVE  Fresh'
<1>1. /\ alive' = alive \ {d} /\ since' = [e \in Devices |-> IF e = d THEN {}
                                                            ELSE since[e] \ {d}]
      /\ \A e \in Devices \ {d} : /\ master'[e] = master[e] /\ peer'[e] = peer[e]
                                  /\ busy'[e] = busy[e]
      /\ UNCHANGED <<word, waits>>
  BY Types DEF Crash
<1>2. \A e \in alive : e \in Devices
  BY Types
<1>3. ASSUME NEW b \in Devices PROVE FreshFor(b)'
  <2>1. CASE b = d
    <3>1. since'[b] = {}
      BY <1>1, <2>1
    <3>2. QED
      BY <3>1 DEF FreshFor
  <2>2. CASE b # d
    <3>1. /\ FreshFor(b) /\ master'[b].running = master[b].running
          /\ since'[b] = since[b] \ {d}
      BY <1>1, <2>2 DEF Fresh
    <3>2. ASSUME NEW e \in since'[b]
          PROVE  /\ e \in alive' /\ busy'[e] /\ peer'[e] = peer[e]
                 /\ Keeps(master[e].out, word[e], master'[e].out, word'[e])
      <4>1. e \in alive /\ busy[e] /\ e # d
        BY <3>1, <3>2 DEF FreshFor
      <4>2. /\ master'[e].out = master[e].out /\ busy'[e] = busy[e]
            /\ word'[e] = word[e] /\ peer'[e] = peer[e]
        BY <1>1, <1>2, <4>1
      <4>3. QED
        BY <1>1, <4>1, <4>2, KeepsSame
    <3>3. since'[b] # {} => b \in alive' /\ master'[b].running # NoCommand
      BY <1>1, <2>2, <3>1 DEF FreshFor
    <3>4. QED
      BY <1>1, <3>1, <3>2, <3>3, FreshForSteady
  <2>3. QED
    BY <2>1, <2>2
<1>4. ASSUME NEW e \in alive' PROVE Served(e)'
  <2>1. Served(e) /\ master'[e] = master[e] /\ peer'[e] = peer[e]
    BY <1>1, <1>2, <1>4 DEF Fresh
  <2>2. QED
    BY <2>1, ServedKept
<1>5. QED
  BY <1>3, <1>4 DEF Fresh

\* Rounds when the device d has read a line and no round has begun.
LEMMA DeviceReadsFresh ==
  ASSUME IInv, Fresh, NEW d \in Devices, DeviceReadsMaster(d),
         NEW b \in Devices, since'[b] = since[b],
         \A e \in Devices \ {d} : master'[e] = master[e],
         busy[d] => Keeps(master[d].out, word[d], master'[d].out, word'[d]),
         master[b].running # NoCommand => master'[b].running # NoCommand
  PROVE  FreshFor(b)'
<1>1. /\ \A e \in Devices \ {d} : peer'[e] = peer[e]
      /\ Alike(peer[d], peer'[d])
      /\ UNCHANGED <<word, waits, busy, alive>>
  BY MasterLine
<1>2. FreshFor(b)
  BY DEF Fresh
<1>3. ASSUME NEW e \in since'[b]
      PROVE  /\ e \in alive' /\ busy'[e]
             /\ Keeps(master[e].out, word[e], master'[e].out, word'[e])
             /\ Queues(peer[e], b) => Queues(peer'[e], b)
             /\ peer[e].running = AskFor(b) => peer'[e].running = AskFor(b)
  <2>1. e \in alive /\ busy[e] /\ e \in Devices
    BY <1>2, <1>3, Types DEF FreshFor
  <2>2. Keeps(master[e].out, word[e], master'[e].out, word'[e])
    <3>1. e # d => master'[e].out = master[e].out /\ word'[e] = word[e]
      BY <1>1, <2>1
    <3>2. QED
      BY <2>1, <3>1, KeepsSame
  <2>3. /\ Queues(peer[e], b) => Queues(peer'[e], b)
        /\ peer[e].running = AskFor(b) => peer'[e].running = AskFor(b)
    BY <1>1, <2>1 DEF Alike, Queues
  <2>4. QED
    BY <1>1, <2>1, <2>2, <2>3
<1>4. since'[b] # {} => b \in alive' /\ master'[b].running # NoCommand
  BY <1>1, <1>2 DEF FreshFor
<1>5. QED
  BY <1>1, <1>2, <1>3, <1>4, FreshForSteady

\* A line that is read is no call, or it is answered.
LEMMA DeviceReadsServed ==
  ASSUME IInv, Fresh, NEW d \in Devices, DeviceReadsMaster(d),
         \A e \in Devices \ {d} : master'[e] = master[e],
         Count(master'[d].out, "+0") = Count(master[d].out, "+0")
                          + (IF Head(peer[d].out) \in Askers THEN 1 ELSE 0)
  PROVE  \A e \in alive' : Served(e)'
<1> SUFFICES ASSUME NEW e \in alive' PROVE Served(e)'
  OBVIOUS
<1>1. /\ d \in alive /\ peer[d].out # << >>
      /\ \A f \in Devices \ {d} : peer'[f] = peer[f]
      /\ Alike(peer[d], peer'[d]) /\ peer'[d].out = Tail(peer[d].out)
      /\ UNCHANGED alive
  BY MasterLine
<1>2. Served(e) /\ e \in Devices
  BY <1>1, Types DEF Fresh
<1>3. CASE e # d
  BY <1>1, <1>2, <1>3 DEF Served
<1>4. CASE e = d
  <2> DEFINE s == peer[d].out
             k == IF Head(s) \in Askers THEN 1 ELSE 0
             n == Count(master[d].out, "+0")
  <2>1. d \in listed /\ s \in Seq(Texts) /\ Tail(s) \in Seq(Texts)
    BY <1>1, Types
  <2>2. Among(s, Askers) = Among(Tail(s), Askers) + k
    BY <1>1, <2>1, AmongTail
  <2>3. Among(Tail(s), Askers) \in Nat /\ n \in Nat
    BY <2>1, PlacesFinite, Links
  <2>4. k \in Nat /\ Count(master'[d].out, "+0") = n + k
    OBVIOUS
  <2>5. Among(s, Askers) + n = IF peer[d].running = NoCommand THEN 0 ELSE 1
    BY <1>2, <1>4 DEF Served
  <2> HIDE DEF k, n, s
  <2>6. peer'[d].running = peer[d].running /\ peer'[d].out = Tail(s)
    BY <1>1 DEF Alike, s
  <2>7. QED
    BY <1>4, <2>2, <2>3, <2>4, <2>5, <2>6 DEF Served
<1>5. QED
  BY <1>3, <1>4

\* A device reads a status call, a BOP state or the return of its round.
LEMMA DeviceReadsMasterFresh ==
  ASSUME IInv, Shown, Fresh, NEW d \in Devices, DeviceReadsMaster(d)
  PROVE  Fresh'
<1> DEFINE h == Head(peer[d].out)
           s == master[d].out
<1>1. /\ d \in alive /\ d \in listed /\ peer[d].out # << >>
      /\ UNCHANGED <<word, waits, busy, alive>>
      /\ AnswersStatusInfo(d) \/ ReadsBop(d) \/ ReadsReturn(d)
  BY MasterLine, Types DEF DeviceReadsMaster
<1>2. s \in Seq(Texts) /\ Count(s, "+0") \in Nat /\ word'[d] = word[d]
  BY <1>1, Links
<1>3. CASE AnswersStatusInfo(d)
  <2> DEFINE m == StatusWord(busy[d])
             q == Append(s, m)
  <2>1. /\ \A e \in Devices \ {d} : master'[e] = master[e]
        /\ master'[d].running = master[d].running
        /\ master'[d].out = Append(q, "+0")
    BY <1>1, <1>3, AnswersLine
  <2>2. h \in Askers /\ UNCHANGED since
    BY <1>3 DEF AnswersStatusInfo, Askers
  <2>3. /\ m \in Texts /\ m # "+0" /\ "+0" \in Texts /\ "+0" # "S0"
        /\ "+0" \notin {"S1", "S0"} /\ "S1" \in Texts /\ "S0" \in Texts
    BY WordsFacts DEF StatusWord
  <2> HIDE DEF s, h
  <2>4. busy[d] => Keeps(s, word[d], Append(q, "+0"), word[d])
    <3> SUFFICES ASSUME busy[d] PROVE Keeps(s, word[d], Append(q, "+0"), word[d])
      OBVIOUS
    <3>1. m = "S1" /\ busy[d] = TRUE
      BY Types DEF StatusWord
    <3>2. Shows(s, "S1", "S0", word[d], TRUE)
      BY <1>1, <3>1 DEF Shown, WordShows, s
    <3>3. Keeps(s, word[d], q, word[d])
      BY <1>2, <2>3, <3>1, <3>2, KeepsAppend
    <3>4. Shows(Append(s, IF TRUE THEN "S1" ELSE "S0"), "S1", "S0", word[d], TRUE)
      BY <1>2, <2>3, ShowsLast
    <3>5. q \in Seq(Texts) /\ Shows(q, "S1", "S0", word[d], TRUE)
      <4>1. q \in Seq(Texts)
        BY <1>2, <2>3, CountOther
      <4>2. m = IF TRUE THEN "S1" ELSE "S0"
        BY <3>1
      <4>3. Shows(q, "S1", "S0", word[d], TRUE)
        BY <3>4, <4>2
      <4>4. QED
        BY <4>1, <4>3
    <3> HIDE DEF q
    <3>6. Keeps(q, word[d], Append(q, "+0"), word[d])
      BY <2>3, <3>5, KeepsAppend
    <3>7. QED
      BY <3>3, <3>6, KeepsTwice
  <2>5. Count(Append(q, "+0"), "+0") = Count(s, "+0") + 1
    <3>1. q \in Seq(Texts) /\ Count(q, "+0") = Count(s, "+0")
      BY <1>2, <2>3, CountOther
    <3> HIDE DEF q
    <3>2. Count(Append(q, "+0"), "+0") = Count(q, "+0") + 1
      BY <2>3, <3>1, CountOne
    <3>3. QED
      BY <3>1, <3>2
  <2> HIDE DEF q, m
  <2>6. \A b \in Devices : FreshFor(b)'
    <3>1. busy[d] => Keeps(master[d].out, word[d], master'[d].out, word'[d])
      BY <1>2, <2>1, <2>4 DEF s
    <3>2. QED
      BY <2>1, <2>2, <3>1, DeviceReadsFresh
  <2>7. \A e \in alive' : Served(e)'
    BY <2>1, <2>2, <2>5, DeviceReadsServed DEF s, h
  <2>8. QED
    BY <2>6, <2>7 DEF Fresh
<1>4. CASE ReadsBop(d)
  <2>1. /\ \A e \in Devices \ {d} : master'[e] = master[e]
        /\ master'[d].running = master[d].running /\ master'[d].out = s
    BY <1>1, <1>4, BopLine
  <2>2. h \notin Askers /\ UNCHANGED since
    BY <1>4, WordsFacts DEF ReadsBop
  <2>3. \A b \in Devices : FreshFor(b)'
    <3>1. busy[d] => Keeps(master[d].out, word[d], master'[d].out, word'[d])
      BY <1>2, <2>1, KeepsSame
    <3>2. QED
      BY <2>1, <2>2, <3>1, DeviceReadsFresh
  <2>4. \A e \in alive' : Served(e)'
    BY <1>2, <2>1, <2>2, DeviceReadsServed
  <2>5. QED
    BY <2>3, <2>4 DEF Fresh
<1>5. CASE ReadsReturn(d)
  <2> DEFINE m == "status_info"
  <2>1. /\ \A e \in Devices \ {d} : master'[e] = master[e]
        /\ master'[d].running = NoCommand <=> master[d].queue = << >>
        /\ master'[d].out = IF master[d].queue = << >> THEN s ELSE Append(s, m)
        /\ waits[d] = 0 /\ Count(s, m) = 0
    BY <1>1, <1>5, ReturnLine
  <2>2. /\ h = "+0"
        /\ since' = [since EXCEPT ![d] = IF master[d].queue = << >> THEN {} ELSE AtWork]
    BY <1>5 DEF ReadsReturn
  <2>3. h \notin Askers /\ m \in Texts /\ m # "+0" /\ m # "S0"
    BY <2>2, WordsFacts
  <2>4. FreshFor(d)'
    <3>1. since'[d] = IF master[d].queue = << >> THEN {} ELSE AtWork
      BY <2>2, Types
    <3>2. CASE master[d].queue = << >>
      <4>1. since'[d] = {} /\ waits'[d] = 0
        BY <1>1, <2>1, <3>1, <3>2
      <4>2. QED
        BY <4>1 DEF FreshFor
    <3>3. CASE master[d].queue # << >>
      BY <1>1, <2>1, <3>1, <3>3, RoundBegins
    <3>4. QED
      BY <3>2, <3>3
  <2>5. ASSUME NEW b \in Devices \ {d} PROVE FreshFor(b)'
    <3>1. since'[b] = since[b] /\ master'[b].running = master[b].running
      BY <2>1, <2>2
    <3>2. busy[d] => Keeps(master[d].out, word[d], master'[d].out, word'[d])
      <4>1. master'[d].out \in {master[d].out, Append(master[d].out, m)}
        BY <2>1
      <4> HIDE DEF m
      <4>2. QED
        BY <1>1, <2>3, <4>1, KeepsWrites
    <3>3. QED
      BY <2>1, <3>1, <3>2, DeviceReadsFresh
  <2>6. Count(master'[d].out, "+0") = Count(s, "+0")
    <3>1. Count(Append(s, m), "+0") = Count(s, "+0")
      BY <1>2, <2>3, CountOther
    <3>2. QED
      BY <2>1, <3>1
  <2>7. \A e \in alive' : Served(e)'
    BY <1>2, <2>1, <2>3, <2>6, DeviceReadsServed
  <2>8. QED
    BY <2>4, <2>5, <2>7 DEF Fresh
<1>6. QED
  BY <1>1, <1>3, <1>4, <1>5

\* What centrald reads it keeps in mind.
LEMMA CentraldKeeps ==
  ASSUME IInv, NEW d \in Devices, CentraldReads(d), NEW e \in alive
  PROVE  /\ Keeps(master[e].out, word[e], master'[e].out, word'[e])
         /\ e \in alive' /\ busy'[e] = busy[e] /\ master'[e].running = master[e].running
<1>1. /\ master[d].out # << >> /\ master'[d].out = Tail(master[d].out)
      /\ word'[d] = Reading(Head(master[d].out), "S1", "S0", word[d])
      /\ \A f \in Devices \ {d} : master'[f] = master[f] /\ word'[f] = word[f]
      /\ \A f \in listed : master'[f].running = master[f].running
      /\ UNCHANGED <<busy, alive>>
  BY CentraldLines
<1>2. e \in listed /\ e \in Devices /\ master[d].out \in Seq(Texts)
  BY Types
<1>3. Keeps(master[d].out, word[d], master'[d].out, word'[d])
  BY <1>1, <1>2, KeepsTail
<1>4. e # d => Keeps(master[e].out, word[e], master'[e].out, word'[e])
  BY <1>1, <1>2, KeepsSame
<1>5. QED
  BY <1>1, <1>2, <1>3, <1>4

\* A round that centrald goes on counting stays fresh when what it is owed does.
LEMMA CentraldFresh ==
  ASSUME IInv, Fresh, NEW d \in Devices, CentraldReads(d), NEW b \in Devices,
         waits'[b] > 0 => /\ waits[b] > 0
                          /\ \A e \in alive : Owes(e, b) => Owes(e, b)'
  PROVE  FreshFor(b)'
<1>1. FreshFor(b) /\ UNCHANGED since
  BY CentraldLines DEF Fresh
<1>2. \A e \in since[b] : e \in alive /\ busy[e]
  BY <1>1 DEF FreshFor
<1>3. \A e \in since'[b] : /\ e \in alive' /\ busy'[e]
                           /\ Keeps(master[e].out, word[e], master'[e].out, word'[e])
  BY <1>1, <1>2, CentraldKeeps
<1>4. since'[b] # {} => b \in alive' /\ master'[b].running # NoCommand
  BY <1>1, CentraldKeeps DEF FreshFor
<1>5. QED
  BY <1>1, <1>2, <1>3, <1>4, FreshForKept

\* A device that is no further asked or answered owes what it owed.
LEMMA SteadyOwes ==
  ASSUME IInv, NEW d \in Devices, CentraldReads(d), NEW e \in alive,
         Steady(peer[e], peer'[e], Devices), NEW b \in Devices, Owes(e, b)
  PROVE  Owes(e, b)'
BY CentraldKeeps, OwesKept DEF Steady

\* It is served as before when its own line says nothing of a return.
LEMMA SteadyServed ==
  ASSUME IInv, Fresh, NEW d \in Devices, CentraldReads(d), NEW e \in alive,
         Steady(peer[e], peer'[e], Devices),
         e = d => Head(master[d].out) # "+0"
  PROVE  Served(e)'
<1>1. /\ master[d].out # << >> /\ master'[d].out = Tail(master[d].out)
      /\ \A f \in Devices \ {d} : master'[f] = master[f]
  BY CentraldLines
<1>2. e \in Devices /\ e \in listed /\ master[d].out \in Seq(Texts) /\ Served(e)
      /\ Tail(master[d].out) \in Seq(Texts)
  BY <1>1, Types DEF Fresh
<1>3. Count(master'[e].out, "+0") = Count(master[e].out, "+0")
  <2>1. CASE e = d
    <3>1. Count(master[d].out, "+0") = Count(Tail(master[d].out), "+0")
            + (IF Head(master[d].out) = "+0" THEN 1 ELSE 0)
      BY <1>1, <1>2, CountFacts
    <3>2. Count(Tail(master[d].out), "+0") \in Nat
      BY <1>2, CountFacts
    <3>3. QED
      BY <1>1, <2>1, <3>1, <3>2
  <2>2. CASE e # d
    BY <1>1, <1>2, <2>2
  <2>3. QED
    BY <2>1, <2>2
<1>4. /\ Among(peer[e].out, Askers) \in Nat /\ Count(master[e].out, "+0") \in Nat
  BY <1>2, Links
<1>5. Among(peer'[e].out, Askers) + (IF peer[e].running = NoCommand THEN 0 ELSE 1)
        = Among(peer[e].out, Askers) + (IF peer'[e].running = NoCommand THEN 0 ELSE 1)
  BY DEF Steady
<1>6. Among(peer'[e].out, Askers) \in Nat
  <2>1. e \in listed'
    BY <1>2, CentraldLines
  <2>2. Plain(peer'[e], Askers \ {e})
    BY <2>1, CentraldReadsInv DEF IInv, Linked
  <2>3. QED
    BY <2>2, AmongPlain
<1>7. QED
  BY <1>2, <1>3, <1>4, <1>5, <1>6 DEF Served

\* ConnCentrald::setState.
LEMMA StatusReportFresh ==
  ASSUME IInv, Fresh, NEW d \in Devices, CentraldReads(d), StatusReport(d)
  PROVE  Fresh'
<1>1. d \in listed /\ alive \subseteq listed /\ UNCHANGED alive
      /\ Head(master[d].out) # "+0"
  BY CentraldLines, Types DEF StatusReport
<1>2. UNCHANGED waits /\ \A e \in alive : Steady(peer[e], peer'[e], Devices)
  BY <1>1, StatusReportPeers
<1>3. \A b \in Devices : FreshFor(b)'
  BY <1>2, SteadyOwes, CentraldFresh
<1>4. \A e \in alive : Served(e)'
  BY <1>1, <1>2, SteadyServed
<1>5. QED
  BY <1>1, <1>3, <1>4 DEF Fresh

\* A device that is asked owes its answer.
LEMMA AskedOwes ==
  ASSUME IInv, Fresh, NEW e \in alive, NEW d \in Devices, d # e,
         peer'[e] = queCommand(peer[e], AskFor(d)),
         master'[e] = master[e], word'[e] = word[e]
  PROVE  Owes(e, d)'
<1> DEFINE p == queCommand(peer[e], AskFor(d))
<1>1. e \in listed /\ Plain(peer[e], Askers \ {e})
      /\ master[e].out \in Seq(Texts) /\ Served(e)
      /\ Among(peer[e].out, Askers) \in Nat /\ Count(master[e].out, "+0") \in Nat
  BY Types, Links DEF Fresh
<1>2. /\ peer[e].running # NoCommand => Behind(peer[e], p, d)
      /\ peer[e].running = NoCommand => AtOnce(peer[e], p, d)
  BY <1>1, AskPlain
<1> HIDE DEF p
<1>3. CASE peer[e].running # NoCommand
  <2>1. p.queue = Append(peer[e].queue, AskFor(d))
    BY <1>2, <1>3 DEF Behind
  <2>2. peer[e].queue \in Seq(Asks(Askers \ {e})) /\ AskFor(d) \in Asks(Askers \ {e})
    BY <1>1 DEF Plain, PlainConns, Asks, Askers
  <2>3. Queues(p, d)
    BY <2>1, <2>2, AppendPlaces DEF Queues
  <2>4. QED
    BY <2>3 DEF Owes, p
<1>4. CASE peer[e].running = NoCommand
  <2>1. p.running = AskFor(d)
    BY <1>2, <1>4 DEF AtOnce
  <2>2. Count(master[e].out, "+0") = 0
    BY <1>1, <1>4 DEF Served
  <2>3. KnownAt(master[e].out, word[e], "+0")
    BY <1>1, <2>2, KnownNever
  <2>4. QED
    BY <2>1, <2>3 DEF Owes, p
<1>5. QED
  BY <1>3, <1>4

\* Centrald::statusInfo: all that may block d are asked, and what it does itself
\* it has told before.
LEMMA StatusInfoFresh ==
  ASSUME IInv, Fresh, NEW d \in Devices, CentraldReads(d), StatusInfo(d)
  PROVE  Fresh'
<1> DEFINE asked == (listed \cap BlockedBy[d]) \ {d}
<1>1. /\ d \in listed /\ alive \subseteq listed /\ alive \subseteq Devices
      /\ Head(master[d].out) = "status_info" /\ master[d].out # << >>
      /\ \A e \in Devices \ {d} : master'[e] = master[e] /\ word'[e] = word[e]
      /\ UNCHANGED <<alive, since>>
  BY CentraldLines, Types DEF StatusInfo
<1>2. /\ UNCHANGED word
      /\ \A e \in alive : Steady(peer[e], peer'[e], Devices)
  BY <1>1, StatusInfoPeers
<1>3. \A e \in alive : Served(e)'
  BY <1>1, <1>2, SteadyServed
<1>4. ASSUME NEW b \in Devices, waits'[b] > 0 => waits[b] > 0
      PROVE  FreshFor(b)'
  BY <1>2, <1>4, SteadyOwes, CentraldFresh
<1>5. FreshFor(d)'
  <2>1. CASE asked = {}
    <3>1. UNCHANGED waits
      BY <2>1 DEF StatusInfo
    <3>2. QED
      BY <1>4, <3>1
  <2>2. CASE asked # {}
    <3>1. peer' = [e \in Devices |-> IF e \in asked THEN queCommand(peer[e], AskFor(d))
                                     ELSE peer[e]]
      BY <2>2 DEF StatusInfo
    <3>2. FreshFor(d)
      BY DEF Fresh
    <3>3. ASSUME NEW e \in (since'[d] \cap BlockedBy[d]) \ {d} PROVE Owes(e, d)'
      <4>1. e \in alive /\ e \in asked /\ e \in Devices
        BY <1>1, <3>2 DEF FreshFor
      <4>2. peer'[e] = queCommand(peer[e], AskFor(d))
        BY <3>1, <4>1
      <4>3. QED
        BY <1>1, <1>2, <4>1, <4>2, AskedOwes
    <3>4. ASSUME d \in since'[d] PROVE OwnWork(d)'
      <4>1. d \in alive /\ OwnWork(d)
        BY <1>1, <3>2, <3>4 DEF FreshFor
      <4>2. Known(master[d].out, word[d])
        <5>1. KnownAt(master[d].out, word[d], Head(master[d].out))
          BY <1>1, <4>1 DEF OwnWork
        <5>2. QED
          BY <1>1, <5>1, Types, KnownAtHead
      <4>3. Keeps(master[d].out, word[d], master'[d].out, word'[d])
        BY <4>1, CentraldKeeps
      <4>4. QED
        BY <4>1, <4>2, <4>3 DEF OwnWork, Keeps
    <3>5. \A e \in since[d] : e \in alive' /\ busy'[e]
      BY <3>2, CentraldKeeps DEF FreshFor
    <3>6. since[d] # {} => d \in alive' /\ master'[d].running # NoCommand
      BY <3>2, CentraldKeeps DEF FreshFor
    <3>7. QED
      BY <1>1, <3>3, <3>4, <3>5, <3>6 DEF FreshFor
  <2>3. QED
    BY <2>1, <2>2
<1>6. ASSUME NEW b \in Devices \ {d} PROVE FreshFor(b)'
  <2>1. waits'[b] = waits[b]
    BY Types DEF StatusInfo
  <2>2. QED
    BY <1>4, <2>1
<1>7. QED
  BY <1>1, <1>3, <1>5, <1>6 DEF Fresh

\* A return of a living device is that of the call that runs, and no other is
\* under way.
LEMMA ReturnServed ==
  ASSUME IInv, Fresh, NEW d \in alive, master[d].out # << >>,
         Head(master[d].out) = "+0"
  PROVE  /\ peer[d].running # NoCommand /\ Among(peer[d].out, Askers) = 0
         /\ Tail(master[d].out) \in Seq(Texts)
         /\ Count(Tail(master[d].out), "+0") = 0
<1>1. /\ d \in listed /\ master[d].out \in Seq(Texts) /\ Served(d)
      /\ Tail(master[d].out) \in Seq(Texts)
  BY Types DEF Fresh
<1>2. /\ Count(master[d].out, "+0") = Count(Tail(master[d].out), "+0") + 1
      /\ Count(Tail(master[d].out), "+0") \in Nat
  BY <1>1, CountFacts
<1>3. Among(peer[d].out, Askers) \in Nat
  BY <1>1, Links
<1>4. QED
  BY <1>1, <1>2, <1>3 DEF Served

\* The call that follows it owes what it was queued for.
LEMMA ReturnOwes ==
  ASSUME IInv, Fresh, NEW d \in alive, CentraldReads(d), StatusReturn(d),
         peer'[d] = commandReturn(peer[d]), NEW b \in Devices, Owes(d, b)
  PROVE  Owes(d, b)'
<1>1. /\ master[d].out # << >> /\ master'[d].out = Tail(master[d].out)
      /\ Head(master[d].out) = "+0" /\ master[d].out \in Seq(Texts)
      /\ d \in listed /\ d \in Devices
  BY CentraldLines, Types DEF StatusReturn
<1>2. Keeps(master[d].out, word[d], master'[d].out, word'[d])
  BY <1>1, CentraldKeeps
<1>3. CASE Known(master[d].out, word[d])
  BY <1>2, <1>3 DEF Keeps, Owes
<1>4. CASE KnownAt(master[d].out, word[d], "+0")
  <2>1. Known(master[d].out, word[d])
    BY <1>1, <1>4, KnownAtHead
  <2>2. QED
    BY <1>2, <2>1 DEF Keeps, Owes
<1>5. CASE Queues(peer[d], b)
  <2>1. HoldsLess(peer[d], commandReturn(peer[d]), d)
    BY <1>1, Links, ReturnHoldsLess
  <2>2. Holds(peer'[d], b)
    BY <1>5, <2>1 DEF HoldsLess
  <2>3. KnownAt(master'[d].out, word'[d], "+0")
    BY <1>1, ReturnServed, KnownNever
  <2>4. QED
    BY <2>2, <2>3 DEF Holds, Owes
<1>6. QED
  BY <1>3, <1>4, <1>5 DEF Owes

\* It is served in turn.
LEMMA NextServed ==
  ASSUME IInv, Fresh, NEW d \in alive, CentraldReads(d), StatusReturn(d),
         peer'[d] = commandReturn(peer[d])
  PROVE  Served(d)'
<1>1. /\ master[d].out # << >> /\ master'[d].out = Tail(master[d].out)
      /\ Head(master[d].out) = "+0" /\ d \in listed
  BY CentraldLines, Types DEF StatusReturn
<1>2. /\ Among(peer[d].out, Askers) = 0 /\ Count(master'[d].out, "+0") = 0
  BY <1>1, ReturnServed
<1>3. Among(peer'[d].out, Askers)
        = Among(peer[d].out, Askers) + (IF peer'[d].running = NoCommand THEN 0 ELSE 1)
  BY <1>1, Links, ReturnSteady
<1>4. QED
  BY <1>2, <1>3 DEF Served

\* The return of a status call: what it was for is owed by nobody else, or not
\* answered yet.
LEMMA StatusReturnFresh ==
  ASSUME IInv, Fresh, NEW d \in Devices, CentraldReads(d), StatusReturn(d)
  PROVE  Fresh'
<1>1. /\ d \in listed /\ alive \subseteq listed /\ UNCHANGED alive
      /\ master[d].out # << >> /\ Head(master[d].out) = "+0"
  BY CentraldLines, Types DEF StatusReturn
<1>2. \A e \in alive \ {d} : Steady(peer[e], peer'[e], Devices)
  BY <1>1, StatusReturnPeers
<1>3. \A b \in Devices : waits'[b] > 0 => waits[b] > 0
  <2> DEFINE a == peer[d].running.name
  <2>1. waits' = waits \/ waits' = [waits EXCEPT ![a] = waits[a] - 1]
    BY DEF StatusReturn
  <2> HIDE DEF a
  <2> SUFFICES ASSUME NEW b \in Devices, waits'[b] > 0 PROVE waits[b] > 0
    OBVIOUS
  <2>2. waits'[b] \in {waits[b], waits[b] - 1} /\ waits[b] \in Nat
    BY <2>1, Types
  <2>3. QED
    BY <2>2
<1>4. d \in alive => peer'[d] = commandReturn(peer[d])
  <2>1. d \in alive => peer[d].running # NoCommand
    BY <1>1, ReturnServed
  <2>2. QED
    BY <1>1, <2>1, StatusReturnEffect
<1>5. ASSUME NEW e \in alive, NEW b \in Devices, Owes(e, b) PROVE Owes(e, b)'
  <2>1. CASE e = d
    BY <1>4, <1>5, <2>1, ReturnOwes
  <2>2. CASE e # d
    BY <1>2, <1>5, <2>2, SteadyOwes
  <2>3. QED
    BY <2>1, <2>2
<1>6. \A b \in Devices : FreshFor(b)'
  BY <1>3, <1>5, CentraldFresh
<1>7. ASSUME NEW e \in alive PROVE Served(e)'
  <2>1. CASE e = d
    BY <1>4, <1>7, <2>1, NextServed
  <2>2. CASE e # d
    BY <1>2, <2>2, SteadyServed
  <2>3. QED
    BY <2>1, <2>2
<1>8. QED
  BY <1>1, <1>6, <1>7 DEF Fresh

\* centrald drops a lost device, which took part in no round.
LEMMA CentraldRemovesFresh ==
  ASSUME IInv, Fresh, NEW d \in Devices, CentraldRemoves(d)
  PROVE  Fresh'
<1>1. /\ d \notin alive /\ alive \subseteq listed /\ alive \subseteq Devices
      /\ \A e \in Devices \ {d} : master'[e] = master[e] /\ word'[e] = word[e]
      /\ UNCHANGED <<busy, alive, since>>
  BY Types DEF CentraldRemoves
<1>2. \A e \in alive : Steady(peer[e], peer'[e], Devices \ {d})
  BY <1>1, CentraldRemovesPeers
<1>3. ASSUME NEW b \in Devices PROVE FreshFor(b)'
  <2>1. FreshFor(b) /\ \A e \in since[b] : e \in alive /\ busy[e]
    BY DEF Fresh, FreshFor
  <2>2. waits'[b] > 0 => waits[b] > 0
    <3>1. waits'[b] \in {0, waits[b], waits[b] - 1} /\ waits[b] \in Nat
      BY Types, CentraldRemovesEffect
    <3>2. QED
      BY <3>1
  <2>3. CASE b = d
    <3>1. since'[b] = {} /\ waits'[b] = 0
      BY <1>1, <2>1, <2>3, Types, CentraldRemovesEffect DEF FreshFor
    <3>2. QED
      BY <3>1 DEF FreshFor
  <2>4. CASE b # d
    <3>1. since'[b] # {} => b \in alive' /\ master'[b].running # NoCommand
      BY <1>1, <2>1, <2>4 DEF FreshFor
    <3>2. ASSUME NEW e \in since'[b]
          PROVE  /\ e \in alive' /\ busy'[e]
                 /\ Keeps(master[e].out, word[e], master'[e].out, word'[e])
                 /\ Queues(peer[e], b) => Queues(peer'[e], b)
                 /\ peer[e].running = AskFor(b) => peer'[e].running = AskFor(b)
      <4>1. e \in alive /\ busy[e] /\ e \in Devices \ {d}
        BY <1>1, <2>1
      <4>2. Keeps(master[e].out, word[e], master'[e].out, word'[e])
        BY <1>1, <4>1, KeepsSame
      <4>3. QED
        BY <1>1, <1>2, <2>4, <4>1, <4>2 DEF Steady
    <3>3. QED
      BY <1>1, <2>1, <2>2, <3>1, <3>2, FreshForSteady
  <2>5. QED
    BY <2>3, <2>4
<1>4. ASSUME NEW e \in alive PROVE Served(e)'
  <2>1. /\ e \in listed \ {d} /\ e \in Devices \ {d} /\ Served(e)
    BY <1>1 DEF Fresh
  <2>2. e \in listed' /\ master'[e] = master[e]
    BY <1>1, <2>1 DEF CentraldRemoves
  <2>3. Plain(peer'[e], Askers \ {e})
    BY <2>1, CentraldRemovesEffect DEF Remains
  <2>4. /\ Among(peer'[e].out, Askers) \in Nat /\ Among(peer[e].out, Askers) \in Nat
        /\ Count(master[e].out, "+0") \in Nat
    BY <2>1, <2>3, AmongPlain, Links
  <2>5. Among(peer'[e].out, Askers) + (IF peer[e].running = NoCommand THEN 0 ELSE 1)
          = Among(peer[e].out, Askers) + (IF peer'[e].running = NoCommand THEN 0 ELSE 1)
    BY <1>2 DEF Steady
  <2>6. QED
    BY <2>1, <2>2, <2>4, <2>5 DEF Served
<1>5. QED
  BY <1>1, <1>3, <1>4 DEF Fresh

\* Every step keeps the rounds fresh.
LEMMA NextFresh == IInv /\ Shown /\ Fresh /\ [Next]_vars => Fresh'
<1> SUFFICES ASSUME IInv, Shown, Fresh, [Next]_vars PROVE Fresh'
  OBVIOUS
<1>1. ASSUME NEW x \in Clients, ClientQueues(x) PROVE Fresh'
  BY <1>1, FreshUnchanged DEF ClientQueues
<1>2. ASSUME NEW x \in Clients, ClientReads(x) PROVE Fresh'
  BY <1>2, FreshUnchanged DEF ClientReads
<1>3. ASSUME NEW x \in Clients, DeviceReadsClient(x) PROVE Fresh'
  <2>1. AsksStatus(x) \/ Runs(x)
    BY <1>3 DEF DeviceReadsClient
  <2>2. QED
    BY <1>3, <2>1, AsksStatusFresh, RunsFresh
<1>4. ASSUME NEW d \in Devices, DeviceFinishes(d) PROVE Fresh'
  BY <1>4, FinishesFresh
<1>5. ASSUME NEW d \in Devices, DeviceReadsMaster(d) PROVE Fresh'
  BY <1>5, DeviceReadsMasterFresh
<1>6. ASSUME NEW d \in Devices, Crash(d) PROVE Fresh'
  BY <1>6, CrashFresh
<1>7. ASSUME NEW d \in Devices, CentraldReads(d) PROVE Fresh'
  <2>1. StatusInfo(d) \/ StatusReport(d) \/ StatusReturn(d)
    BY <1>7 DEF CentraldReads
  <2>2. QED
    BY <1>7, <2>1, StatusInfoFresh, StatusReportFresh, StatusReturnFresh
<1>8. ASSUME NEW d \in Devices, CentraldRemoves(d) PROVE Fresh'
  BY <1>8, CentraldRemovesFresh
<1>9. ASSUME NEW d \in Devices, QueuesValue(d) PROVE Fresh'
  BY <1>9, FreshUnchanged DEF QueuesValue
<1>10. ASSUME NEW d \in Devices, ReadingEnds(d) PROVE Fresh'
  BY <1>10, ReadingEndsFresh
<1>11. CASE UNCHANGED vars
  BY <1>11, FreshUnchanged DEF vars
<1>12. QED
  BY <1>1, <1>2, <1>3, <1>4, <1>5, <1>6, <1>7, <1>8, <1>9, <1>10, <1>11 DEF Next

\* When a return is written on the connection of d, all that it is to know of
\* is known.
AnswerKnows(d) ==
  Count(peer'[d].out, "+0") > Count(peer[d].out, "+0") =>
    \A e \in since[d] \cap BlockedBy[d] : word'[e]

\* Most steps write none.
LEMMA NoAnswer ==
  ASSUME NEW d, Count(peer[d].out, "+0") \in Nat,
         Count(peer'[d].out, "+0") \in Nat,
         Count(peer'[d].out, "+0") <= Count(peer[d].out, "+0")
  PROVE  AnswerKnows(d)
BY DEF AnswerKnows

\* Where nobody else owes an answer to d, the work of all is known.
LEMMA NothingOwed ==
  ASSUME IInv, Fresh, NEW d \in Devices, waits[d] > 0,
         NEW e \in since[d] \cap BlockedBy[d],
         e # d /\ Owes(e, d) => Known(master[e].out, word[e])
  PROVE  word[e]
<1>1. FreshFor(d)
  BY DEF Fresh
<1>2. CASE e = d
  BY <1>1, <1>2 DEF FreshFor, OwnWork, Known
<1>3. CASE e # d
  BY <1>1, <1>3 DEF FreshFor, Known
<1>4. QED
  BY <1>2, <1>3

\* Centrald::statusInfo answers at once when nobody else may block the device.
LEMMA StatusInfoKnows ==
  ASSUME IInv, Fresh, NEW f \in Devices, CentraldReads(f), StatusInfo(f),
         NEW d \in alive
  PROVE  AnswerKnows(d)
<1> DEFINE asked == (listed \cap BlockedBy[f]) \ {f}
<1>1. /\ f \in listed /\ alive \subseteq listed /\ d \in listed /\ d \in Devices
      /\ Head(master[f].out) = "status_info" /\ master[f].out # << >>
      /\ master[f].out \in Seq(Texts)
      /\ Count(peer[d].out, "+0") \in Nat
  BY CentraldLines, Types, Links DEF StatusInfo
<1>2. UNCHANGED word
  BY DEF StatusInfo
<1>3. CASE asked = {}
  <2>1. peer' = [peer EXCEPT ![f] = sendMsg(peer[f], "+0")]
    BY <1>3 DEF StatusInfo
  <2>2. CASE d # f
    <3>1. peer'[d] = peer[d]
      BY <1>1, <2>1, <2>2, Types
    <3>2. QED
      BY <1>1, <3>1, NoAnswer
  <2>3. CASE d = f
    <3> SUFFICES ASSUME NEW e \in since[d] \cap BlockedBy[d] PROVE word'[e]
      BY DEF AnswerKnows
    <3>1. FreshFor(d) /\ e \in alive
      BY <1>1 DEF Fresh, FreshFor
    <3>2. e = d
      BY <1>1, <1>3, <2>3, <3>1
    <3>3. KnownAt(master[d].out, word[d], Head(master[d].out))
      BY <1>1, <2>3, <3>1, <3>2 DEF FreshFor, OwnWork
    <3>4. Known(master[d].out, word[d])
      BY <1>1, <2>3, <3>3, KnownAtHead
    <3>5. QED
      BY <1>2, <3>2, <3>4 DEF Known
  <2>4. QED
    BY <2>2, <2>3
<1>4. CASE asked # {}
  <2>1. peer' = [e \in Devices |-> IF e \in asked THEN queCommand(peer[e], AskFor(f))
                                   ELSE peer[e]]
    BY <1>4 DEF StatusInfo
  <2>2. d \in asked => Count(queCommand(peer[d], AskFor(f)).out, "+0")
                         = Count(peer[d].out, "+0")
    BY <1>1, Links, AskCount
  <2>3. Count(peer'[d].out, "+0") = Count(peer[d].out, "+0")
    BY <1>1, <2>1, <2>2
  <2>4. QED
    BY <1>1, <2>3, NoAnswer
<1>5. QED
  BY <1>3, <1>4

\* ConnCentrald::setState answers no round.
LEMMA StatusReportKnows ==
  ASSUME IInv, NEW f \in Devices, CentraldReads(f), StatusReport(f), NEW d \in alive
  PROVE  AnswerKnows(d)
<1>1. /\ d \in listed /\ listed \in SUBSET Devices
      /\ Count(peer[d].out, "+0") \in Nat
      /\ \A e \in listed : Plain(peer[e], Askers \ {e})
  BY Types, Links
<1>2. peer' = IF word' = word THEN peer ELSE TellAll(peer, listed, word')
  BY DEF StatusReport
<1>3. Told(peer[d], TellAll(peer, listed, word')[d], d)
  BY <1>1, TellAllEffect
<1>4. Count(peer'[d].out, "+0") = Count(peer[d].out, "+0")
  BY <1>2, <1>3 DEF Told
<1>5. QED
  BY <1>1, <1>4, NoAnswer

\* The return of a status call is answered when it was the last that the round
\* waited for.
LEMMA StatusReturnKnows ==
  ASSUME IInv, Fresh, NEW f \in Devices, CentraldReads(f), StatusReturn(f),
         NEW d \in alive
  PROVE  AnswerKnows(d)
<1> DEFINE a == peer[f].running.name
<1>1. /\ f \in listed /\ alive \subseteq listed /\ d \in listed /\ d \in Devices
      /\ Head(master[f].out) = "+0" /\ master[f].out # << >>
      /\ master[f].out \in Seq(Texts)
      /\ Count(peer[d].out, "+0") \in Nat /\ UNCHANGED word
  BY CentraldLines, Types, Links DEF StatusReturn
<1>2. CASE peer[f].running = NoCommand
  <2>1. peer' = peer
    BY <1>2 DEF StatusReturn
  <2>2. QED
    BY <1>1, <2>1, NoAnswer
<1>3. CASE peer[f].running # NoCommand
  <2>1. /\ peer[f].running = AskFor(a) /\ a \in Askers \ {f}
        /\ peer'[f] = commandReturn(peer[f])
        /\ \A e \in listed \ {a, f} : peer'[e] = peer[e]
        /\ ~Over(a, f) => (a \in listed => peer'[a] = peer[a])
    BY <1>1, <1>3, StatusReturnEffect
  <2> HIDE DEF a
  <2>2. CASE d = f
    <3>1. HoldsLess(peer[f], commandReturn(peer[f]), f)
      BY <1>1, Links, ReturnHoldsLess
    <3>2. Count(peer'[d].out, "+0") = Count(peer[d].out, "+0")
      BY <2>1, <2>2, <3>1 DEF HoldsLess
    <3>3. QED
      BY <1>1, <3>2, NoAnswer
  <2>3. CASE d # f /\ ~(d = a /\ Over(a, f))
    <3>1. peer'[d] = peer[d]
      BY <1>1, <2>1, <2>3
    <3>2. QED
      BY <1>1, <3>1, NoAnswer
  <2>4. CASE d = a /\ Over(a, f)
    <3> SUFFICES ASSUME NEW e \in since[d] \cap BlockedBy[d] PROVE word'[e]
      BY DEF AnswerKnows
    <3>1. Holds(peer[f], d)
      BY <2>1, <2>4 DEF Holds
    <3>2. waits[d] > 0 /\ Once(peer[f], d)
      BY <1>1, <3>1 DEF IInv, Asked
    <3>3. ~Queues(peer[f], d)
      BY <2>1, <2>4, <3>2 DEF Once
    <3>4. e \in listed
      BY <1>1 DEF Fresh, FreshFor
    <3>5. ASSUME e # d, Owes(e, d) PROVE Known(master[e].out, word[e])
      <4>1. CASE e = f
        <5>1. KnownAt(master[f].out, word[f], Head(master[f].out))
              => Known(master[f].out, word[f])
          BY <1>1, KnownAtHead
        <5>2. QED
          BY <1>1, <3>3, <3>5, <4>1, <5>1 DEF Owes
      <4>2. CASE e # f
        <5>1. ~Holds(peer[e], d)
          BY <2>4, <3>4, <4>2 DEF Over
        <5>2. QED
          BY <3>5, <5>1 DEF Owes, Holds
      <4>3. QED
        BY <4>1, <4>2
    <3>6. word[e]
      BY <1>1, <3>2, <3>5, NothingOwed
    <3>7. QED
      BY <1>1, <3>6
  <2>5. QED
    BY <2>2, <2>3, <2>4
<1>4. QED
  BY <1>2, <1>3

\* So is the loss of a device when it was.
LEMMA CentraldRemovesKnows ==
  ASSUME IInv, Fresh, NEW f \in Devices, CentraldRemoves(f), NEW d \in alive
  PROVE  AnswerKnows(d)
<1>1. /\ f \notin alive /\ alive \subseteq listed /\ d \in listed \ {f} /\ d \in Devices
      /\ \A e \in Devices \ {f} : word'[e] = word[e]
      /\ Count(peer[d].out, "+0") \in Nat /\ listed \subseteq Devices
  BY Types, Links DEF CentraldRemoves
<1>2. Remains(peer[d], peer'[d], d, f, IF LeftAlone(d, f) THEN 1 ELSE 0)
  BY <1>1, CentraldRemovesEffect
<1>3. CASE ~LeftAlone(d, f)
  <2>1. Count(peer'[d].out, "+0") = Count(peer[d].out, "+0") + 0
    BY <1>2, <1>3 DEF Remains
  <2>2. QED
    BY <1>1, <2>1, NoAnswer
<1>4. CASE LeftAlone(d, f)
  <2> SUFFICES ASSUME NEW e \in since[d] \cap BlockedBy[d] PROVE word'[e]
    BY DEF AnswerKnows
  <2>1. e \in listed \ {f} /\ e \in Devices \ {f}
    BY <1>1 DEF Fresh, FreshFor
  <2>2. waits[d] > 0 /\ ~Holds(peer[e], d)
    BY <1>4, <2>1 DEF LeftAlone
  <2>3. Owes(e, d) => Known(master[e].out, word[e])
    BY <2>2 DEF Owes, Holds
  <2>4. word[e]
    BY <1>1, <2>2, <2>3, NothingOwed
  <2>5. QED
    BY <1>1, <2>1, <2>4
<1>5. QED
  BY <1>3, <1>4

\* Other steps take lines away.
LEMMA OthersKnow ==
  ASSUME IInv, NEW f \in Devices, DeviceReadsMaster(f) \/ Crash(f), NEW d \in alive
  PROVE  AnswerKnows(d)
<1>1. /\ d \in listed /\ d \in Devices /\ peer[d].out \in Seq(Texts)
      /\ Count(peer[d].out, "+0") \in Nat
  BY Types, Links
<1>2. CASE DeviceReadsMaster(f)
  <2>1. /\ \A e \in Devices \ {f} : peer'[e] = peer[e]
        /\ peer[f].out # << >> /\ peer'[f].out = Tail(peer[f].out)
    BY <1>2, MasterLine
  <2>2. CASE d = f
    <3> DEFINE s == peer[d].out
               k == IF Head(s) = "+0" THEN 1 ELSE 0
    <3>1. /\ Count(s, "+0") = Count(Tail(s), "+0") + k
          /\ Count(Tail(s), "+0") \in Nat
      <4>1. s \in Seq(Texts) /\ s # << >>
        BY <1>1, <2>1, <2>2
      <4> HIDE DEF s
      <4>2. Tail(s) \in Seq(Texts)
        BY <4>1
      <4>3. Count(Tail(s), "+0") \in Nat
        BY <4>2, CountFacts
      <4>4. Count(s, "+0") = Count(Tail(s), "+0") + k
        BY <4>1, CountFacts
      <4>5. QED
        BY <4>3, <4>4
    <3>2. k \in {0, 1}
      OBVIOUS
    <3>3. peer'[d].out = Tail(s)
      BY <2>1, <2>2
    <3> HIDE DEF k, s
    <3>4. Count(Tail(s), "+0") <= Count(s, "+0")
      BY <3>1, <3>2
    <3>5. QED
      BY <1>1, <3>1, <3>3, <3>4, NoAnswer DEF s
  <2>3. CASE d # f
    <3>1. peer'[d] = peer[d]
      BY <1>1, <2>1, <2>3
    <3>2. QED
      BY <1>1, <3>1, NoAnswer
  <2>4. QED
    BY <2>2, <2>3
<1>3. CASE Crash(f)
  <2>1. peer'[d].out \in {peer[d].out, << >>}
    BY <1>1, <1>3, Types DEF Crash, Conns, ConnectionRecord
  <2>2. Count(<< >>, "+0") = 0
    BY CountFacts
  <2>3. QED
    BY <1>1, <2>1, <2>2, NoAnswer
<1>4. QED
  BY <1>2, <1>3

\* No answer is older than its round.
LEMMA NextKnows ==
  IInv /\ Fresh /\ [Next]_vars => \A d \in Devices : AnswerKnows(d) \/ UNCHANGED vars
<1> SUFFICES ASSUME IInv, Fresh, Next, NEW d \in Devices PROVE AnswerKnows(d)
  OBVIOUS
<1>1. CASE d \notin alive
  BY <1>1 DEF Fresh, FreshFor, AnswerKnows
<1>2. CASE d \in alive
  <2>1. Count(peer[d].out, "+0") \in Nat
    BY <1>2, Types, Links
  <2>2. ASSUME UNCHANGED peer PROVE AnswerKnows(d)
    BY <2>1, <2>2, NoAnswer
  <2>3. ASSUME NEW x \in Clients,
               ClientQueues(x) \/ ClientReads(x) \/ DeviceReadsClient(x)
        PROVE  AnswerKnows(d)
    BY <2>2, <2>3 DEF ClientQueues, ClientReads, DeviceReadsClient
  <2>4. ASSUME NEW f \in Devices, QueuesValue(f) \/ DeviceFinishes(f) \/ ReadingEnds(f)
        PROVE  AnswerKnows(d)
    BY <2>2, <2>4 DEF QueuesValue, DeviceFinishes, ReadingEnds
  <2>5. ASSUME NEW f \in Devices, DeviceReadsMaster(f) \/ Crash(f)
        PROVE  AnswerKnows(d)
    BY <1>2, <2>5, OthersKnow
  <2>6. ASSUME NEW f \in Devices, CentraldReads(f) PROVE AnswerKnows(d)
    <3>1. StatusInfo(f) \/ StatusReport(f) \/ StatusReturn(f)
      BY <2>6 DEF CentraldReads
    <3>2. QED
      BY <1>2, <2>6, <3>1, StatusInfoKnows, StatusReportKnows, StatusReturnKnows
  <2>7. ASSUME NEW f \in Devices, CentraldRemoves(f) PROVE AnswerKnows(d)
    BY <1>2, <2>7, CentraldRemovesKnows
  <2>8. QED
    BY <2>3, <2>4, <2>5, <2>6, <2>7 DEF Next
<1>3. QED
  BY <1>1, <1>2

\* The answer of a round is no older than the round, whatever lines cross it
\* and whoever is lost meanwhile.
THEOREM RoundsAreFresh == Spec => RoundIsFresh
<1>1. Init => IInv /\ Shown /\ Fresh
  BY InitIInv, InitShown, InitFresh
<1>2. IInv /\ Shown /\ Fresh /\ [Next]_vars => (IInv /\ Shown /\ Fresh)'
  BY NextIInv, NextShown, NextFresh
<1>3. IInv /\ Fresh /\ [Next]_vars =>
        [\A d \in Devices : Count(peer'[d].out, "+0") > Count(peer[d].out, "+0") =>
           \A e \in since[d] \cap BlockedBy[d] : word'[e]]_vars
  BY NextKnows DEF AnswerKnows
<1>4. QED
  BY <1>1, <1>2, <1>3, PTL DEF Spec, RoundIsFresh
=============================================================================
