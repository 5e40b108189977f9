---------------------------- MODULE CameraProofs ----------------------------
(***************************************************************************)
(* Theorems about the camera skeleton without frame transfer, for every    *)
(* set of clients, kinds of values and blocking devices, and any number of *)
(* exposures.                                                              *)
(***************************************************************************)
EXTENDS Camera, SequenceTheorems, TLAPS

-----------------------------------------------------------------------------
(***************************************************************************)
(* The inductive invariant.                                                *)
(***************************************************************************)
Busy(c) == "EXPOSING" \in c.st \/ "READING" \in c.st

\* The mount is held while the chip is exposed.
Held(c) == "EXPOSING" \in c.st => "TEL_MOVE" \in c.st

\* Without frame transfer an image is read before the next is exposed.
Apart(c) == ~("EXPOSING" \in c.st /\ "READING" \in c.st)

\* Value changes wait for the chip alone, and an exposure that waits for them
\* does not outlast them.
Queued(c) == c.que # {} => Busy(c)

Resumed(c) == c.waitQue => c.que # {}

\* An exposure is counted, its client is there, and the chip is free.
Stuck(c) == c.n > 0 /\ c.conn # NoConn /\ ~c.failed /\ ~Busy(c)

\* It waits for the BOP state or the filter,
Waiting(c) == Stuck(c) => c.waitBop \/ c.moving

\* and once every BOP state has been read something will tell that it may begin.
Promised(c) == Stuck(c) => c.moving \/ c.asks > 0 \/ c.bop # {}

\* The BOP state of the camera claims no more than N blocks.
Heard(c, N) ==
  /\ "TRIG" \in c.bop => "TRIG" \in N
  /\ "EXPOSURE" \in c.bop => "EXPOSURE" \in N \/ c.que # {}

\* Exposures begun, counted and waiting for value changes.
Sum(c) == c.num + c.n + (IF c.waitQue THEN 1 ELSE 0)

CamInv(c) ==
  /\ c \in Camera /\ ~c.cut
  /\ Held(c) /\ Apart(c) /\ Queued(c) /\ Resumed(c) /\ Waiting(c)

\* The last state in the line is the one in force, which the camera knows when
\* it has read the line.  Nothing is promised after an answer without a state.
LineInv ==
  IF line = << >> THEN (silent \/ Promised(cam)) /\ Heard(cam, blockers)
  ELSE line[Len(line)] = blockers

IInv == /\ TypeOK /\ CamInv(cam) /\ LineInv
        /\ Sum(cam) <= asked

-----------------------------------------------------------------------------
(***************************************************************************)
(* What a chain of methods keeps of the camera it is called on.            *)
(***************************************************************************)
States == {"EXPOSING", "READING", "FT", "TEL_MOVE", "WILL_EXPOSE"}
Words == SUBSET States

\* No exposure is begun while an image is read, or by hardware that fails.
SameChip(c, d) ==
  /\ "READING" \in d.st <=> "READING" \in c.st
  /\ "EXPOSING" \in c.st => "EXPOSING" \in d.st
  /\ "READING" \in c.st \/ ~c.works =>
       ("EXPOSING" \in d.st => "EXPOSING" \in c.st)

\* Queued changes are made, never added, and the window not under a readout.
FewerQueued(c, d) ==
  /\ d.que \subseteq c.que
  /\ "READING" \in c.st /\ "window" \in c.que => "window" \in d.que

SameHost(c, d) == /\ d.works = c.works /\ d.cut = c.cut /\ d.conn = c.conn

\* No exposure is counted or waits for value changes, and none is begun.
Idle(c) == c.n = 0 /\ ~c.waitQue

StaysIdle(c, d) ==
  Idle(c) => Idle(d) /\ ("EXPOSING" \in d.st => "EXPOSING" \in c.st)

Goes(c, d) ==
  /\ d \in Camera
  /\ StaysIdle(c, d)
  /\ SameHost(c, d) /\ SameChip(c, d) /\ FewerQueued(c, d)
  /\ Held(c) => Held(d)
  /\ Sum(d) <= Sum(c)
  /\ Resumed(c) => Resumed(d)
  /\ Waiting(c) => Waiting(d)
  /\ Waiting(c) /\ Promised(c) => Promised(d)

Hears(c, d) == \A N \in SUBSET {"EXPOSURE", "TRIG"} : Heard(c, N) => Heard(d, N)

Carries(c, d) == Goes(c, d) /\ Hears(c, d)

(***************************************************************************)
(* A chain of methods keeps what each of them keeps.                       *)
(***************************************************************************)
LEMMA GoesTransitive ==
  ASSUME NEW c \in Camera, NEW d, NEW e, Goes(c, d), Goes(d, e)
  PROVE  Goes(c, e)
<1>1. /\ d \in Camera /\ e \in Camera
      /\ Sum(d) <= Sum(c) /\ Sum(e) <= Sum(d)
  BY DEF Goes
<1>2. Sum(c) \in Int /\ Sum(d) \in Int /\ Sum(e) \in Int
  BY <1>1 DEF Sum, Camera
<1>3. Sum(e) <= Sum(c)
  BY <1>1, <1>2
<1>4. SameHost(c, e) /\ SameChip(c, e) /\ FewerQueued(c, e) /\ StaysIdle(c, e)
  BY DEF Goes, SameHost, SameChip, FewerQueued, StaysIdle
<1>. QED
  BY <1>3, <1>4 DEF Goes

\* Hearing included.
LEMMA CarriesTransitive ==
  ASSUME NEW c \in Camera, NEW d, NEW e, Carries(c, d), Carries(d, e)
  PROVE  Carries(c, e)
BY GoesTransitive DEF Carries, Hears

\* A method that does nothing keeps everything.
LEMMA CarriesReflexive ==
  ASSUME NEW c \in Camera
  PROVE  Carries(c, c)
<1>1. Sum(c) \in Int
  BY DEF Sum, Camera
<1>. QED
  BY <1>1 DEF Carries, Goes, Hears, SameHost, SameChip, FewerQueued, StaysIdle

(***************************************************************************)
(* QueEmptied: an exposure that waited for value changes is counted again, *)
(* and centrald is asked for the BOP state.                                *)
(***************************************************************************)

\* Only what tells of the exposure that waited is changed.
LEMMA QueEmptiedFields ==
  ASSUME NEW c \in Camera
  PROVE  LET d == QueEmptied(c)
         IN  /\ d \in Camera
             /\ d.st = c.st /\ d.que = c.que /\ d.bop = c.bop
             /\ d.num = c.num /\ d.moving = c.moving /\ d.failed = c.failed
             /\ SameHost(c, d)
             /\ d.n > c.n => d.waitBop /\ d.asks > 0
             /\ d.n >= c.n /\ d.asks >= c.asks /\ (c.waitBop => d.waitBop)
             /\ Sum(d) <= Sum(c)
             /\ Resumed(d) /\ (Idle(c) => Idle(d))
<1>1. CASE c.que # {} \/ ~c.waitQue
  BY <1>1 DEF QueEmptied, Camera, SameHost, Sum, Resumed, Idle
<1>2. CASE ~(c.que # {} \/ ~c.waitQue) /\ c.conn = NoConn
  <2>1. QueEmptied(c) = [c EXCEPT !.waitQue = FALSE, !.okLater = TRUE]
    BY <1>2 DEF QueEmptied
  <2>2. QueEmptied(c) \in Camera
    BY <2>1 DEF Camera
  <2>3. /\ QueEmptied(c).waitQue = FALSE
        /\ \A f \in {"st", "que", "bop", "num", "moving", "failed", "works",
                     "cut", "conn", "n", "asks", "waitBop"} :
             QueEmptied(c)[f] = c[f]
    BY <2>1 DEF Camera
  <2>4. c.n \in Nat /\ c.num \in Nat /\ c.asks \in Nat /\ c.waitQue
    BY <1>2 DEF Camera
  <2>. HIDE DEF QueEmptied
  <2>. QED
    BY <2>2, <2>3, <2>4 DEF SameHost, Sum, Resumed, Idle
<1>3. CASE ~(c.que # {} \/ ~c.waitQue) /\ c.conn # NoConn
  <2>1. QueEmptied(c) = [c EXCEPT !.waitQue = FALSE, !.okLater = TRUE,
                                  !.n = @ + 1, !.waitBop = TRUE, !.asks = @ + 1]
    BY <1>3 DEF QueEmptied, Resume, Camera
  <2>2. c.n \in Nat /\ c.num \in Nat /\ c.asks \in Nat /\ c.waitQue
    BY <1>3 DEF Camera
  <2>3. QueEmptied(c) \in Camera
    <3>. DEFINE b == [c EXCEPT !.waitQue = FALSE, !.okLater = TRUE,
                               !.waitBop = TRUE]
    <3>1. b \in Camera
      BY DEF Camera
    <3>2. QueEmptied(c) = [b EXCEPT !.n = c.n + 1, !.asks = c.asks + 1]
      BY <2>1 DEF Camera
    <3>3. c.n + 1 \in Nat /\ c.asks + 1 \in Nat
      BY <2>2
    <3>. HIDE DEF b
    <3>. QED
      BY <3>1, <3>2, <3>3 DEF Camera
  <2>4. /\ QueEmptied(c).waitQue = FALSE /\ QueEmptied(c).waitBop = TRUE
        /\ QueEmptied(c).n = c.n + 1 /\ QueEmptied(c).asks = c.asks + 1
        /\ \A f \in {"st", "que", "bop", "num", "moving", "failed", "works",
                     "cut", "conn"} :
             QueEmptied(c)[f] = c[f]
    BY <2>1 DEF Camera
  <2>. HIDE DEF QueEmptied
  <2>. QED
    BY <2>2, <2>3, <2>4 DEF SameHost, Sum, Resumed, Idle
<1>. QED
  BY <1>1, <1>2, <1>3

\* Hence what the invariant tells of the camera is kept.
LEMMA QueEmptiedCarries ==
  ASSUME NEW c \in Camera
  PROVE  Carries(c, QueEmptied(c))
<1>. DEFINE d == QueEmptied(c)
<1>1. /\ d \in Camera
      /\ d.st = c.st /\ d.que = c.que /\ d.bop = c.bop
      /\ d.num = c.num /\ d.moving = c.moving /\ d.failed = c.failed
      /\ SameHost(c, d)
      /\ d.n > c.n => d.waitBop /\ d.asks > 0
      /\ d.n >= c.n /\ d.asks >= c.asks /\ (c.waitBop => d.waitBop)
      /\ Sum(d) <= Sum(c)
      /\ Resumed(d) /\ (Idle(c) => Idle(d))
  BY QueEmptiedFields
<1>. HIDE DEF d
<1>2. d.n \in Nat /\ c.n \in Nat /\ d.asks \in Nat /\ c.asks \in Nat
  BY <1>1 DEF Camera
<1>3. /\ SameChip(c, d) /\ FewerQueued(c, d) /\ StaysIdle(c, d)
      /\ (Held(c) => Held(d)) /\ Hears(c, d)
  BY <1>1 DEF SameChip, FewerQueued, StaysIdle, Held, Hears, Heard
<1>4. Stuck(d) => Stuck(c) \/ (d.waitBop /\ d.asks > 0)
  BY <1>1, <1>2 DEF Stuck, Busy, SameHost
<1>5. /\ Waiting(c) => Waiting(d)
      /\ Promised(c) => Promised(d)
  BY <1>1, <1>2, <1>4 DEF Waiting, Promised
<1>. QED
  BY <1>1, <1>3, <1>5 DEF Carries, Goes, d

(***************************************************************************)
(* The status word changes: without queued values, or with the chip busy   *)
(* and exposures counted, no value is changed and no exposure begun.       *)
(***************************************************************************)
Masked(c, off, on) == [c EXCEPT !.st = (@ \ off) \cup on]

\* All but the status word is the same, as far as the invariant tells.
SameRest(c, d) ==
  /\ SameHost(c, d)
  /\ d.n = c.n /\ d.que = c.que /\ d.bop = c.bop
  /\ d.waitQue = c.waitQue /\ d.waitBop = c.waitBop
  /\ d.moving = c.moving /\ d.asks = c.asks
  /\ Sum(d) = Sum(c)

MaskOf(c, off, on, d) ==
  /\ d \in Camera
  /\ d.st = (c.st \ off) \cup on
  /\ SameRest(c, d) /\ d.failed = c.failed

\* maskState changes the word before it calls anything.
LEMMA MaskedFields ==
  ASSUME NEW c \in Camera, NEW off \in Words, NEW on \in Words
  PROVE  MaskOf(c, off, on, Masked(c, off, on))
<1>. DEFINE d == Masked(c, off, on)
<1>1. d \in Camera
  BY DEF Masked, Camera, Words, States
<1>2. d.st = (c.st \ off) \cup on
  BY DEF Masked, Camera
<1>3. \A f \in {"works", "cut", "conn", "n", "num", "que", "bop", "waitQue",
                "waitBop", "moving", "asks", "failed"} : d[f] = c[f]
  BY DEF Masked, Camera
<1>. HIDE DEF d
<1>4. SameHost(c, d) /\ Sum(d) = Sum(c)
  BY <1>3 DEF SameHost, Sum
<1>. QED
  BY <1>1, <1>2, <1>3, <1>4 DEF d, SameRest, MaskOf

\* A status word that does not change leaves the camera as it is.
LEMMA MaskedSame ==
  ASSUME NEW c \in Camera, NEW off \in Words, NEW on \in Words,
         Masked(c, off, on).st = c.st
  PROVE  Masked(c, off, on) = c
<1>1. Masked(c, off, on).st = (c.st \ off) \cup on
  BY MaskedFields DEF MaskOf
<1>. QED
  BY <1>1 DEF Masked, Camera

\* Sending the word changes nothing else.
LEMMA SendFields ==
  ASSUME NEW c \in Camera
  PROVE  LET d == sendStatusMessage(c)
         IN  /\ d \in Camera /\ SameRest(c, d)
             /\ d.st = c.st /\ d.failed = c.failed /\ Carries(c, d)
<1>. DEFINE d == sendStatusMessage(c)
<1>1. d \in Camera
  BY DEF sendStatusMessage, Camera, Blocking
<1>2. \A f \in {"st", "works", "cut", "conn", "n", "num", "que", "bop", "waitQue",
                "waitBop", "moving", "asks", "failed"} : d[f] = c[f]
  BY DEF sendStatusMessage, Camera
<1>. HIDE DEF d
<1>3. SameHost(c, d) /\ Sum(d) = Sum(c) /\ Sum(c) \in Int
  BY <1>2 DEF SameHost, Sum, Camera
<1>4. Carries(c, d)
  BY <1>1, <1>2, <1>3
     DEF Carries, Goes, Hears, Heard, SameChip, FewerQueued, StaysIdle, Idle,
         Held, Resumed, Waiting, Promised, Stuck, Busy
<1>. QED
  BY <1>1, <1>2, <1>3, <1>4 DEF d, SameRest

\* maskState and the stateChanged it calls, where no value change is due.
LEMMA QuietMask ==
  ASSUME NEW c \in Camera, NEW off \in Words, NEW on \in Words,
         c.que = {} \/ (c.n > 0 /\ Busy(Masked(c, off, on)))
  PROVE  LET d == Masked(c, off, on)
             r == maskStateWith(Bop1, c, off, on)
         IN  /\ Carries(d, r)
             /\ r.st = d.st /\ r.failed = d.failed /\ r.que = d.que
             /\ r.bop = d.bop
<1>. DEFINE d == Masked(c, off, on)
            r == maskStateWith(Bop1, c, off, on)
<1>1. /\ d \in Camera /\ d.que = c.que /\ d.n = c.n
      /\ (d.st = c.st => d = c)
  BY MaskedFields, MaskedSame DEF SameRest, MaskOf
<1>. DEFINE q == checkQueChangesWith(Bop1, d, d.st)
<1>2. r = IF d.st = c.st THEN c ELSE sendStatusMessage(q)
  BY DEF maskStateWith, Masked
<1>3. Busy(d) <=> d.st \cap Chip # {}
  BY DEF Busy, Chip
<1>. HIDE DEF d, r
<1>4. r = d \/ r = sendStatusMessage(d) \/ r = sendStatusMessage(QueEmptied(d))
  <2>1. CASE d.st = c.st
    BY <2>1, <1>1, <1>2
  <2>2. CASE d.st # c.st /\ d.n > 0 /\ Busy(d)
    BY <2>2, <1>2, <1>3 DEF checkQueChangesWith
  <2>3. CASE d.st # c.st /\ d.que = {}
    <3>1. Due(d, d.st) = {}
      BY <2>3 DEF Due
    <3>. QED
      BY <2>3, <3>1, <1>2, <1>3 DEF checkQueChangesWith, MakeDue
  <2>. QED
    BY <2>1, <2>2, <2>3, <1>1 DEF d
<1>5. CASE r = d
  BY <1>5, <1>1, CarriesReflexive DEF d, r
<1>6. CASE r = sendStatusMessage(d)
  BY <1>6, <1>1, SendFields DEF d, r, SameRest
<1>7. CASE r = sendStatusMessage(QueEmptied(d))
  <2>1. /\ Carries(d, QueEmptied(d)) /\ QueEmptied(d) \in Camera
        /\ QueEmptied(d).st = d.st /\ QueEmptied(d).que = d.que
        /\ QueEmptied(d).bop = d.bop /\ QueEmptied(d).failed = d.failed
    BY <1>1, QueEmptiedCarries, QueEmptiedFields
  <2>2. /\ Carries(QueEmptied(d), r) /\ r.st = d.st /\ r.que = d.que
        /\ r.bop = d.bop /\ r.failed = d.failed
    BY <1>7, <2>1, SendFields DEF SameRest
  <2>. QED
    BY <1>1, <2>1, <2>2, CarriesTransitive DEF d, r
<1>. QED
  BY <1>4, <1>5, <1>6, <1>7

(***************************************************************************)
(* An exposure is begun or fails to begin.                                 *)
(***************************************************************************)
Begins(c, d) ==
  /\ d \in Camera
  /\ SameHost(c, d) /\ FewerQueued(c, d)
  /\ "READING" \in d.st <=> "READING" \in c.st
  /\ IF c.works THEN {"EXPOSING", "TEL_MOVE"} \subseteq d.st
     ELSE d.failed /\ "EXPOSING" \notin d.st
  /\ Sum(d) <= Sum(c) + 1
  /\ Resumed(c) => Resumed(d)

\* The command that waited is ended and nothing else is changed.
LEMMA TellBegunFields ==
  ASSUME NEW c \in Camera
  PROVE  LET d == TellBegun(c)
         IN  /\ d \in Camera
             /\ d.st = c.st /\ SameRest(c, d) /\ d.failed = c.failed
<1>. DEFINE d == TellBegun(c)
            b == [c EXCEPT !.okLater = FALSE]
<1>1. b \in Camera /\ b.owes \in [Clients -> Int]
  BY DEF Camera
<1>2. d = c \/ d = b \/ \E x \in Clients : d = [b EXCEPT !.owes[x] = @ - 1]
  BY <1>1 DEF TellBegun, sendCommandEnd
<1>3. \A x \in Clients : [b EXCEPT !.owes[x] = @ - 1] \in Camera
  <2>. TAKE x \in Clients
  <2>1. [b.owes EXCEPT ![x] = @ - 1] \in [Clients -> Int]
    BY <1>1
  <2>. HIDE DEF b
  <2>2. [b EXCEPT !.owes = [b.owes EXCEPT ![x] = @ - 1]] \in Camera
    BY <1>1, <2>1 DEF Camera
  <2>. QED
    BY <2>2, <1>1 DEF Camera
<1>4. d \in Camera
  BY <1>1, <1>2, <1>3
<1>5. \A f \in {"st", "works", "cut", "conn", "n", "num", "que", "bop",
                "waitQue", "waitBop", "moving", "asks", "failed"} : d[f] = c[f]
  BY <1>2 DEF Camera
<1>. HIDE DEF d
<1>6. SameHost(c, d) /\ Sum(d) = Sum(c)
  BY <1>5 DEF SameHost, Sum
<1>. QED
  BY <1>4, <1>5, <1>6 DEF d, SameRest

Numbered(c) == [c EXCEPT !.num = @ + 1]

\* The exposure gets its number.
LEMMA NumberedFields ==
  ASSUME NEW c \in Camera
  PROVE  LET d == Numbered(c)
         IN  /\ d \in Camera
             /\ SameHost(c, d)
             /\ d.st = c.st /\ d.n = c.n /\ d.que = c.que /\ d.bop = c.bop
             /\ d.waitQue = c.waitQue /\ d.waitBop = c.waitBop
             /\ d.moving = c.moving /\ d.asks = c.asks /\ d.failed = c.failed
             /\ Sum(d) = Sum(c) + 1
<1>. DEFINE d == Numbered(c)
<1>1. c.num \in Nat /\ c.n \in Nat
  BY DEF Camera
<1>2. d \in Camera
  BY <1>1 DEF Numbered, Camera
<1>3. d.num = c.num + 1
  BY DEF Numbered, Camera
<1>4. \A f \in {"st", "works", "cut", "conn", "n", "que", "bop", "waitQue",
                "waitBop", "moving", "asks", "failed"} : d[f] = c[f]
  BY DEF Numbered, Camera
<1>. HIDE DEF d
<1>5. SameHost(c, d) /\ Sum(d) = Sum(c) + 1
  BY <1>1, <1>3, <1>4 DEF SameHost, Sum
<1>. QED
  BY <1>2, <1>4, <1>5 DEF d

\* The fault is remembered.
LEMMA FailedFields ==
  ASSUME NEW c \in Camera
  PROVE  LET d == [c EXCEPT !.failed = TRUE]
         IN  d \in Camera /\ d.failed /\ d.st = c.st /\ SameRest(c, d)
<1>. DEFINE d == [c EXCEPT !.failed = TRUE]
<1>1. d \in Camera /\ d.failed
  BY DEF Camera
<1>2. \A f \in {"st", "works", "cut", "conn", "n", "que", "bop", "waitQue",
                "waitBop", "moving", "asks", "num"} : d[f] = c[f]
  BY DEF Camera
<1>. HIDE DEF d
<1>3. SameHost(c, d) /\ Sum(d) = Sum(c)
  BY <1>2 DEF SameHost, Sum
<1>. QED
  BY <1>1, <1>2, <1>3 DEF d, SameRest

\* The steps of StartWith, and what comes of them.
LEMMA BeginsAfter ==
  ASSUME NEW c \in Camera, "EXPOSING" \notin c.st,
         NEW b \in Camera, NEW e \in Camera,
         Carries(Masked(Numbered(c), {}, {"TEL_MOVE"}), b),
         Carries(IF c.works
                 THEN Masked(b, {"WILL_EXPOSE"}, {"EXPOSING", "TEL_MOVE"})
                 ELSE Masked(b, {"TEL_MOVE"}, {}), e)
  PROVE  LET d == IF c.works THEN TellBegun(e) ELSE [e EXCEPT !.failed = TRUE]
         IN  Begins(c, d) /\ Hears(c, d)
<1>. DEFINE a == Numbered(c)
            none == {}
            tel == {"TEL_MOVE"}
            off == IF c.works THEN {"WILL_EXPOSE"} ELSE {"TEL_MOVE"}
            on == IF c.works THEN {"EXPOSING", "TEL_MOVE"} ELSE {}
            a1 == Masked(a, none, tel)
            b1 == Masked(b, off, on)
            d == IF c.works THEN TellBegun(e) ELSE [e EXCEPT !.failed = TRUE]
<1>1. none \in Words /\ tel \in Words /\ off \in Words /\ on \in Words
  BY DEF Words, States
<1>2. Carries(a1, b) /\ Carries(b1, e)
  BY DEF Carries
<1>3. /\ a \in Camera /\ SameHost(c, a) /\ a.st = c.st /\ a.que = c.que
      /\ a.waitQue = c.waitQue /\ Sum(a) = Sum(c) + 1 /\ a.bop = c.bop
  BY NumberedFields
<1>. HIDE DEF a, none, tel, off, on
<1>4. MaskOf(a, none, tel, a1) /\ MaskOf(b, off, on, b1)
  BY <1>1, <1>3, MaskedFields
<1>5. /\ a1 \in Camera /\ a1.st = (a.st \ none) \cup tel /\ SameRest(a, a1)
      /\ b1 \in Camera /\ b1.st = (b.st \ off) \cup on /\ SameRest(b, b1)
  BY <1>4 DEF MaskOf
<1>6. /\ d \in Camera /\ d.st = e.st /\ SameRest(e, d) /\ (~c.works => d.failed)
  BY TellBegunFields, FailedFields
<1>. HIDE DEF a1, b1, d
<1>7. Goes(a1, b) /\ Goes(b1, e) /\ Hears(a1, b) /\ Hears(b1, e)
  BY <1>2 DEF Carries
<1>8. SameHost(c, d)
  BY <1>3, <1>5, <1>6, <1>7 DEF SameRest, Goes, SameHost
<1>9. "READING" \in d.st <=> "READING" \in c.st
  BY <1>3, <1>5, <1>6, <1>7 DEF SameRest, Goes, SameChip, none, tel, off, on
<1>10. FewerQueued(c, d)
  BY <1>3, <1>5, <1>6, <1>7
     DEF SameRest, Goes, SameChip, FewerQueued, none, tel, off, on
<1>11. c.works => {"EXPOSING", "TEL_MOVE"} \subseteq d.st
  BY <1>5, <1>6, <1>7 DEF SameRest, Goes, SameChip, Held, on
<1>12. ~c.works => d.failed /\ "EXPOSING" \notin d.st
  BY <1>3, <1>5, <1>6, <1>7
     DEF SameRest, Goes, SameChip, SameHost, none, tel, off, on
<1>13. Sum(d) <= Sum(c) + 1
  <2>1. \A x \in Camera : Sum(x) \in Int
    BY DEF Sum, Camera
  <2>. QED
    BY <2>1, <1>3, <1>5, <1>6, <1>7 DEF SameRest, Goes
<1>14. Resumed(c) => Resumed(d)
  BY <1>3, <1>5, <1>6, <1>7 DEF SameRest, Goes, Resumed
<1>15. Hears(c, d)
  BY <1>3, <1>5, <1>6, <1>7 DEF SameRest, Hears, Heard
<1>. QED
  BY <1>6, <1>8, <1>9, <1>10, <1>11, <1>12, <1>13, <1>14, <1>15 DEF Begins, d

\* Without queued values the exposure begins and nothing else.
LEMMA QuietStart ==
  ASSUME NEW c \in Camera, "EXPOSING" \notin c.st, c.que = {}
  PROVE  LET d == StartWith(Bop1, c) IN Begins(c, d) /\ Hears(c, d)
<1>. DEFINE a == Numbered(c)
            none == {}
            tel == {"TEL_MOVE"}
            off == IF c.works THEN {"WILL_EXPOSE"} ELSE {"TEL_MOVE"}
            on == IF c.works THEN {"EXPOSING", "TEL_MOVE"} ELSE {}
            b == maskStateWith(Bop1, a, none, tel)
            e == maskStateWith(Bop1, b, off, on)
<1>1. a \in Camera /\ a.que = {} /\ SameHost(c, a)
  BY NumberedFields
<1>2. none \in Words /\ tel \in Words /\ off \in Words /\ on \in Words
  BY DEF Words, States
<1>3. StartWith(Bop1, c)
        = IF b.works THEN TellBegun(maskStateWith(Bop1, b, {"WILL_EXPOSE"},
                                                  {"EXPOSING", "TEL_MOVE"}))
          ELSE [maskStateWith(Bop1, b, {"TEL_MOVE"}, {}) EXCEPT !.failed = TRUE]
  BY DEF StartWith, Launch, Numbered
<1>. HIDE DEF a, none, tel
<1>4. /\ Carries(Masked(a, none, tel), b) /\ b.que = Masked(a, none, tel).que
  BY <1>1, <1>2, QuietMask
<1>5. b \in Camera /\ b.que = {} /\ b.works = c.works
  <2>1. SameRest(a, Masked(a, none, tel))
    BY <1>1, <1>2, MaskedFields DEF MaskOf
  <2>. QED
    BY <1>1, <1>4, <2>1 DEF Carries, Goes, SameHost, SameRest
<1>6. StartWith(Bop1, c)
        = IF c.works THEN TellBegun(e) ELSE [e EXCEPT !.failed = TRUE]
  BY <1>3, <1>5
<1>7. Masked(b, off, on)
        = IF c.works
          THEN Masked(b, {"WILL_EXPOSE"}, {"EXPOSING", "TEL_MOVE"})
          ELSE Masked(b, {"TEL_MOVE"}, {})
  OBVIOUS
<1>. HIDE DEF b, off, on
<1>8. Carries(Masked(b, off, on), e)
  BY <1>2, <1>5, QuietMask
<1>9. e \in Camera
  BY <1>8 DEF Carries, Goes
<1>. HIDE DEF e
<1>. QED
  BY <1>4, <1>5, <1>6, <1>7, <1>8, <1>9, BeginsAfter DEF a, none, tel

-----------------------------------------------------------------------------
(***************************************************************************)
(* setFullBopState.                                                        *)
(***************************************************************************)
Bop == SUBSET {"EXPOSURE", "TRIG"}

\* All but the BOP state is the same.
BopSet(c, new, d) ==
  /\ d \in Camera
  /\ d.st = c.st /\ d.failed = c.failed
  /\ d.n = c.n /\ d.que = c.que /\ d.waitQue = c.waitQue
  /\ d.waitBop = c.waitBop /\ d.moving = c.moving /\ d.asks = c.asks
  /\ SameHost(c, d) /\ Sum(d) = Sum(c)
  /\ d.bop = new \cup (IF c.que # {} THEN {"EXPOSURE"} ELSE {})

\* Device::setFullBopState
LEMMA DeviceBopFields ==
  ASSUME NEW c \in Camera, NEW new \in Bop
  PROVE  BopSet(c, new, deviceBop(c, new))
<1>. DEFINE d == deviceBop(c, new)
            bop == new \cup (IF c.que # {} THEN {"EXPOSURE"} ELSE {})
<1>1. bop \in SUBSET {"EXPOSURE", "TRIG"}
  BY DEF Bop
<1>2. d = [c EXCEPT !.bop = bop]
  BY DEF deviceBop
<1>. HIDE DEF d, bop
<1>3. d \in Camera /\ d.bop = bop
  BY <1>1, <1>2 DEF Camera
<1>4. \A f \in {"st", "works", "cut", "conn", "n", "que", "waitQue", "waitBop",
                "moving", "asks", "num", "failed"} : d[f] = c[f]
  BY <1>2 DEF Camera
<1>5. SameHost(c, d) /\ Sum(d) = Sum(c)
  BY <1>4 DEF SameHost, Sum
<1>. QED
  BY <1>3, <1>4, <1>5 DEF BopSet, d, bop

\* A call in which the camera keeps what the invariant tells of it.
LEMMA DeviceBopGoes ==
  ASSUME NEW c \in Camera, NEW new \in Bop, NEW d, BopSet(c, new, d)
  PROVE  /\ d.que = c.que /\ Heard(d, new) /\ SameHost(c, d) /\ SameChip(c, d)
         /\ FewerQueued(c, d) /\ StaysIdle(c, d)
         /\ (Held(c) => Held(d)) /\ Sum(d) <= Sum(c)
         /\ (Resumed(c) => Resumed(d)) /\ (Waiting(c) => Waiting(d))
         /\ (Stuck(d) => Stuck(c)) /\ (Busy(d) <=> Busy(c))
<1>1. Sum(c) \in Int
  BY DEF Sum, Camera
<1>. QED
  BY <1>1 DEF BopSet, Heard, StaysIdle, Idle, SameHost, SameChip, FewerQueued,
              Held, Resumed,
              Waiting, Stuck, Busy, Bop

\* An exposure that was put off is taken from the count.
LEMMA DequeuedFields ==
  ASSUME NEW c \in Camera, c.n > 0
  PROVE  LET d == [c EXCEPT !.waitBop = FALSE, !.n = @ - 1]
         IN  /\ d \in Camera /\ d.st = c.st /\ d.que = c.que /\ d.bop = c.bop
             /\ SameHost(c, d) /\ d.waitQue = c.waitQue
             /\ Sum(d) = Sum(c) - 1
<1>. DEFINE d == [c EXCEPT !.waitBop = FALSE, !.n = @ - 1]
<1>1. c.n \in Nat /\ c.num \in Nat /\ c.n - 1 \in Nat
  BY DEF Camera
<1>2. d = [[c EXCEPT !.waitBop = FALSE] EXCEPT !.n = c.n - 1]
  BY DEF Camera
<1>3. [c EXCEPT !.waitBop = FALSE] \in Camera
  BY DEF Camera
<1>4. d \in Camera
  BY <1>1, <1>2, <1>3 DEF Camera
<1>5. /\ d.n = c.n - 1
      /\ \A f \in {"st", "works", "cut", "conn", "que", "bop", "waitQue", "num"} :
           d[f] = c[f]
  BY DEF Camera
<1>. HIDE DEF d
<1>6. SameHost(c, d) /\ Sum(d) = Sum(c) - 1
  BY <1>1, <1>5 DEF SameHost, Sum
<1>. QED
  BY <1>4, <1>5, <1>6 DEF d

\* Camera::setFullBopState: whatever it begins or leaves to wait, the invariant
\* is kept, and an exposure that waits afterwards has something to wait for.
LEMMA FullBop ==
  ASSUME FrameTransfer = FALSE, NEW c \in Camera, NEW new \in Bop,
         c.que = {} \/ Busy(c) \/ c.n = 0
  PROVE  LET d == setFullBopState(c, new)
         IN  /\ Goes(c, d) /\ Heard(d, new) /\ d.que = c.que
             /\ Waiting(c) => Promised(d)
<1>. DEFINE b == deviceBop(c, new)
            will == {"WILL_EXPOSE"}
            none == {}
            e == [b EXCEPT !.waitBop = FALSE, !.n = @ - 1]
            d == setFullBopState(c, new)
<1>1. BopSet(c, new, b)
  BY DeviceBopFields
<1>2. d = IF ~MayBegin(b, new) THEN b
          ELSE IF "TRIG" \in new /\ "WILL_EXPOSE" \notin b.st
          THEN maskStateWith(Bop1, b, none, will)
          ELSE IF ChipBusy(b) THEN b
          ELSE StartWith(Bop1, e)
  BY DEF setFullBopState, BopWith
<1>3. none \in Words /\ will \in Words
  BY DEF Words, States
<1>. HIDE DEF b, will, none, d
<1>4. /\ b.que = c.que /\ Heard(b, new) /\ SameHost(c, b) /\ SameChip(c, b)
      /\ FewerQueued(c, b) /\ StaysIdle(c, b)
      /\ (Held(c) => Held(b)) /\ Sum(b) <= Sum(c)
      /\ (Resumed(c) => Resumed(b)) /\ (Waiting(c) => Waiting(b))
      /\ (Stuck(b) => Stuck(c)) /\ (Busy(b) <=> Busy(c))
  BY <1>1, DeviceBopGoes
<1>5. /\ b \in Camera /\ b.st = c.st /\ b.n = c.n /\ b.waitBop = c.waitBop
      /\ b.moving = c.moving
      /\ b.bop = new \cup (IF c.que # {} THEN {"EXPOSURE"} ELSE {})
  BY <1>1 DEF BopSet
<1>6. CASE ~MayBegin(b, new)
  <2>1. d = b
    BY <1>2, <1>6
  <2>2. Waiting(c) => Promised(b)
    BY <1>4, <1>5, <1>6 DEF MayBegin, Waiting, Stuck, Promised
  <2>. QED
    BY <2>1, <2>2, <1>4, <1>5 DEF Goes, d
<1>7. CASE MayBegin(b, new) /\ "TRIG" \in new /\ "WILL_EXPOSE" \notin b.st
  <2>. DEFINE m == Masked(b, none, will)
  <2>1. d = maskStateWith(Bop1, b, none, will)
    BY <1>2, <1>7
  <2>2. MaskOf(b, none, will, m)
    BY <1>3, <1>5, MaskedFields
  <2>. HIDE DEF m
  <2>3. /\ m \in Camera /\ m.st = (b.st \ none) \cup will
        /\ SameRest(b, m) /\ m.failed = b.failed
    BY <2>2 DEF MaskOf
  <2>4. /\ SameHost(c, m) /\ SameChip(c, m) /\ FewerQueued(c, m)
        /\ (Held(c) => Held(m)) /\ Sum(m) <= Sum(c) /\ (Resumed(c) => Resumed(m))
        /\ (Waiting(c) => Waiting(m)) /\ Heard(m, new) /\ (Busy(b) => Busy(m))
        /\ "TRIG" \in m.bop
    BY <2>3, <1>4, <1>5, <1>7
       DEF SameRest, SameHost, SameChip, FewerQueued, Held, Resumed, Waiting,
           Stuck, Busy, Heard, none, will
  <2>5. ~Idle(c)
    BY <1>5, <1>7 DEF MayBegin, Idle
  <2>6. Goes(c, m) /\ Promised(m)
    BY <2>3, <2>4, <2>5 DEF Goes, Promised, StaysIdle
  <2>7. b.que = {} \/ (b.n > 0 /\ Busy(m))
    BY <1>4, <1>5, <1>7, <2>4 DEF MayBegin
  <2>8. /\ Carries(m, d) /\ d.st = m.st /\ d.que = m.que /\ d.bop = m.bop
    BY <2>1, <2>7, <1>3, <1>5, QuietMask DEF m
  <2>9. Goes(c, d)
    BY <2>3, <2>6, <2>8, GoesTransitive DEF Carries
  <2>10. Heard(d, new) /\ Promised(d) /\ d.que = c.que
    BY <2>3, <2>4, <2>8, <1>4 DEF Heard, Promised, SameRest
  <2>. QED
    BY <2>9, <2>10 DEF d
<1>8. CASE /\ MayBegin(b, new) /\ ~("TRIG" \in new /\ "WILL_EXPOSE" \notin b.st)
           /\ ChipBusy(b)
  <2>1. d = b
    BY <1>2, <1>8
  <2>2. Promised(b)
    BY <1>8 DEF Promised, Stuck, Busy, ChipBusy
  <2>. QED
    BY <2>1, <2>2, <1>4, <1>5 DEF Goes, d
<1>9. CASE /\ MayBegin(b, new) /\ ~("TRIG" \in new /\ "WILL_EXPOSE" \notin b.st)
           /\ ~ChipBusy(b)
  <2>1. d = StartWith(Bop1, e)
    BY <1>2, <1>9
  <2>2. b.n > 0 /\ ~Busy(b)
    BY <1>9 DEF MayBegin, ChipBusy, Busy
  <2>3. b.que = {}
    BY <2>2, <1>4, <1>5
  <2>4. /\ e \in Camera /\ e.st = b.st /\ e.que = b.que /\ e.bop = b.bop
        /\ SameHost(b, e) /\ e.waitQue = b.waitQue
        /\ Sum(e) = Sum(b) - 1
    BY <2>2, <1>5, DequeuedFields
  <2>. HIDE DEF e
  <2>5. Begins(e, d) /\ Hears(e, d)
    BY <2>1, <2>2, <2>3, <2>4, QuietStart DEF Busy
  <2>6. /\ Sum(d) <= Sum(c)
    <3>1. \A x \in Camera : Sum(x) \in Int
      BY DEF Sum, Camera
    <3>. QED
      BY <3>1, <2>4, <2>5, <1>4, <1>5 DEF Begins
  <2>7. d \in Camera /\ d.que = c.que /\ ~Stuck(d)
    BY <2>3, <2>4, <2>5, <1>4 DEF Begins, FewerQueued, Stuck, Busy
  <2>8. Heard(d, new)
    BY <2>4, <2>5, <1>4 DEF Hears, Heard, Bop
  <2>9. /\ SameHost(c, d) /\ SameChip(c, d) /\ (Held(c) => Held(d))
        /\ (Resumed(c) => Resumed(d))
    BY <2>2, <2>4, <2>5, <1>4 DEF Begins, SameHost, SameChip, Held, Busy, Resumed
  <2>10. FewerQueued(c, d) /\ Promised(d) /\ Waiting(d)
    BY <2>7 DEF FewerQueued, Promised, Waiting
  <2>11. StaysIdle(c, d)
    BY <2>2, <1>5 DEF StaysIdle, Idle
  <2>. QED
    BY <2>6, <2>7, <2>8, <2>9, <2>10, <2>11 DEF Goes, d
<1>. QED
  BY <1>6, <1>7, <1>8, <1>9 DEF d

-----------------------------------------------------------------------------
(***************************************************************************)
(* checkQueChanges and maskState.                                          *)
(***************************************************************************)

\* Queued changes are made.
LEMMA ApplyFields ==
  ASSUME NEW c \in Camera, NEW due
  PROVE  LET d == Apply([c EXCEPT !.que = @ \ due], due)
         IN  /\ d \in Camera /\ d.que = c.que \ due
             /\ SameHost(c, d) /\ Sum(d) = Sum(c)
             /\ d.st = c.st /\ d.n = c.n /\ d.bop = c.bop /\ d.asks = c.asks
             /\ d.waitBop = c.waitBop /\ d.failed = c.failed
             /\ (c.moving => d.moving) /\ (Idle(c) => Idle(d))
<1>. DEFINE b == [c EXCEPT !.que = @ \ due]
            d == Apply(b, due)
            moves == b.moving \/ "filter" \in due
<1>1. b \in Camera /\ b.que = c.que \ due
  BY DEF Camera
<1>2. moves \in BOOLEAN
  BY <1>1 DEF Camera
<1>3. d = [b EXCEPT !.moving = moves]
  BY DEF Apply
<1>4. c.moving => moves
  BY DEF Camera
<1>5. \A f \in {"st", "works", "cut", "conn", "n", "bop", "waitQue", "waitBop",
                "asks", "num", "failed"} : b[f] = c[f]
  BY DEF Camera
<1>. HIDE DEF b, moves
<1>6. d \in Camera /\ d.moving = moves /\ d.que = b.que
  BY <1>1, <1>2, <1>3 DEF Camera
<1>7. \A f \in {"st", "works", "cut", "conn", "n", "bop", "waitQue", "waitBop",
                "asks", "num", "failed"} : d[f] = c[f]
  BY <1>1, <1>3, <1>5 DEF Camera
<1>. HIDE DEF d
<1>8. SameHost(c, d) /\ Sum(d) = Sum(c)
  <2>1. d.waitQue = c.waitQue /\ d.num = c.num /\ d.n = c.n
    BY <1>7
  <2>. QED
    BY <1>7, <2>1 DEF SameHost, Sum
<1>9. Idle(c) => Idle(d)
  BY <1>7 DEF Idle
<1>. QED
  BY <1>1, <1>4, <1>6, <1>7, <1>8, <1>9 DEF d, b

\* checkQueChanges keeps the invariant, leaves no change behind that the chip
\* allows, and changes no window while the chip is read.
LEMMA CheckQue ==
  ASSUME FrameTransfer = FALSE, NEW c \in Camera
  PROVE  LET d == checkQueChanges(c, c.st) IN Carries(c, d) /\ Queued(d)
<1>. DEFINE due == Due(c, c.st)
            a == Apply([c EXCEPT !.que = @ \ due], due)
            new == c.bop \cap {"TRIG"}
            b == IF due = {} THEN c ELSE setFullBopState(a, new)
            d == checkQueChanges(c, c.st)
<1>1. Busy(c) <=> c.st \cap Chip # {}
  BY DEF Busy, Chip
<1>2. d = IF c.n > 0 /\ Busy(c) THEN c ELSE QueEmptied(b)
  BY <1>1 DEF checkQueChanges, checkQueChangesWith, MakeDue
<1>3. ~Busy(c) => due = c.que
  <2>. SUFFICES ASSUME ~Busy(c), NEW k \in c.que
                PROVE  StateCondition(k) \cap c.st = {}
    BY DEF Due
  <2>. QED
    BY DEF Busy, StateCondition, Chip
<1>4. "READING" \in c.st => "window" \notin due
  BY DEF Due, StateCondition, Chip
<1>5. new \in Bop
  BY DEF Bop
<1>. HIDE DEF due, new, b, d
<1>6. CASE c.n > 0 /\ Busy(c)
  BY <1>6, <1>2, CarriesReflexive DEF Queued, d
<1>7. CASE ~(c.n > 0 /\ Busy(c)) /\ due = {}
  <2>1. d = QueEmptied(c)
    BY <1>2, <1>7 DEF b
  <2>2. Carries(c, d) /\ d.st = c.st /\ d.que = c.que
    BY <2>1, QueEmptiedFields, QueEmptiedCarries
  <2>. QED
    BY <2>2, <1>3, <1>7 DEF Queued, Busy, d
<1>8. CASE ~(c.n > 0 /\ Busy(c)) /\ due # {}
  <2>1. /\ a \in Camera /\ a.que = c.que \ due
        /\ SameHost(c, a) /\ Sum(a) = Sum(c)
        /\ a.st = c.st /\ a.n = c.n /\ a.bop = c.bop /\ a.asks = c.asks
        /\ a.waitBop = c.waitBop /\ a.failed = c.failed
        /\ (c.moving => a.moving) /\ (Idle(c) => Idle(a))
    BY ApplyFields
  <2>. HIDE DEF a
  <2>2. c.n \in Nat
    BY DEF Camera
  <2>3. a.que = {} \/ Busy(a) \/ a.n = 0
    BY <2>1, <2>2, <1>3, <1>8
  <2>4. b = setFullBopState(a, new)
    BY <1>8 DEF b
  <2>5. /\ Goes(a, b) /\ Heard(b, new) /\ b.que = a.que
        /\ Waiting(a) => Promised(b)
    BY <2>1, <2>3, <2>4, <1>5, FullBop
  <2>6. d = QueEmptied(b) /\ b \in Camera
    BY <1>2, <1>8, <2>5 DEF Goes
  <2>7. Goes(b, d) /\ d.que = b.que /\ d.bop = b.bop /\ Resumed(d)
    BY <2>6, QueEmptiedFields, QueEmptiedCarries DEF Carries
  <2>8. Waiting(c) => Waiting(a)
    BY <2>1 DEF Waiting, Stuck, Busy, SameHost
  <2>9. /\ Waiting(c) => Waiting(d)
        /\ Waiting(c) => Promised(d)
    BY <2>5, <2>7, <2>8 DEF Goes
  <2>10. FewerQueued(c, d)
    BY <2>1, <2>5, <2>7, <1>4 DEF FewerQueued
  <2>11. SameHost(c, d) /\ SameChip(c, d) /\ (Held(c) => Held(d))
    BY <2>1, <2>5, <2>7 DEF Goes, SameHost, SameChip, Held
  <2>12. Sum(d) <= Sum(c)
    <3>1. \A x \in Camera : Sum(x) \in Int
      BY DEF Sum, Camera
    <3>. QED
      BY <3>1, <2>1, <2>5, <2>7 DEF Goes
  <2>13. Hears(c, d)
    BY <2>5, <2>7 DEF Hears, Heard, new
  <2>14. Queued(d)
    BY <2>1, <2>5, <2>7, <2>11, <1>3 DEF Queued, Busy, SameChip
  <2>15. StaysIdle(c, d)
    BY <2>1, <2>5, <2>7 DEF Goes, StaysIdle
  <2>. QED
    BY <2>7, <2>9, <2>10, <2>11, <2>12, <2>13, <2>14, <2>15 DEF Carries, Goes, d
<1>. QED
  BY <1>6, <1>7, <1>8

\* maskState in full, with every method it may call.
LEMMA MaskKeeps ==
  ASSUME FrameTransfer = FALSE,
         NEW c \in Camera, NEW off \in Words, NEW on \in Words
  PROVE  /\ Carries(Masked(c, off, on), maskState(c, off, on))
         /\ Queued(c) => Queued(maskState(c, off, on))
<1>. DEFINE d == Masked(c, off, on)
            r == maskState(c, off, on)
<1>1. d \in Camera /\ (d.st = c.st => d = c)
  BY MaskedFields, MaskedSame DEF MaskOf
<1>2. r = IF d.st = c.st THEN c ELSE sendStatusMessage(checkQueChanges(d, d.st))
  BY DEF maskState, maskStateWith, checkQueChanges, Masked
<1>. HIDE DEF d, r
<1>3. CASE d.st = c.st
  BY <1>1, <1>2, <1>3, CarriesReflexive DEF d, r
<1>4. CASE d.st # c.st
  <2>. DEFINE q == checkQueChanges(d, d.st)
  <2>1. Carries(d, q) /\ Queued(q)
    BY <1>1, CheckQue
  <2>2. q \in Camera /\ r = sendStatusMessage(q)
    BY <1>2, <1>4, <2>1 DEF Carries, Goes
  <2>. HIDE DEF q
  <2>3. Carries(q, r) /\ r.st = q.st /\ r.que = q.que
    BY <2>2, SendFields DEF SameRest
  <2>. QED
    BY <1>1, <2>1, <2>3, CarriesTransitive DEF d, r, Queued, Busy
<1>. QED
  BY <1>3, <1>4

-----------------------------------------------------------------------------
(***************************************************************************)
(* An exposure is begun or put off.                                        *)
(***************************************************************************)

\* camStartExposureWithoutCheck, with every method it may call.
LEMMA Start ==
  ASSUME FrameTransfer = FALSE, NEW c \in Camera, "EXPOSING" \notin c.st
  PROVE  LET d == camStartExposureWithoutCheck(c)
         IN  Begins(c, d) /\ Hears(c, d)
<1>. DEFINE a == Numbered(c)
            none == {}
            tel == {"TEL_MOVE"}
            off == IF c.works THEN {"WILL_EXPOSE"} ELSE {"TEL_MOVE"}
            on == IF c.works THEN {"EXPOSING", "TEL_MOVE"} ELSE {}
            b == maskState(a, none, tel)
            e == maskState(b, off, on)
<1>1. a \in Camera /\ SameHost(c, a)
  BY NumberedFields
<1>2. none \in Words /\ tel \in Words /\ off \in Words /\ on \in Words
  BY DEF Words, States
<1>3. camStartExposureWithoutCheck(c)
        = IF b.works THEN TellBegun(maskState(b, {"WILL_EXPOSE"},
                                              {"EXPOSING", "TEL_MOVE"}))
          ELSE [maskState(b, {"TEL_MOVE"}, {}) EXCEPT !.failed = TRUE]
  BY DEF camStartExposureWithoutCheck, StartWith, Launch, Numbered, maskState
<1>. HIDE DEF a, none, tel
<1>4. Carries(Masked(a, none, tel), b)
  BY <1>1, <1>2, MaskKeeps
<1>5. b \in Camera /\ b.works = c.works
  <2>1. SameRest(a, Masked(a, none, tel))
    BY <1>1, <1>2, MaskedFields DEF MaskOf
  <2>. QED
    BY <1>1, <1>4, <2>1 DEF Carries, Goes, SameHost, SameRest
<1>6. camStartExposureWithoutCheck(c)
        = IF c.works THEN TellBegun(e) ELSE [e EXCEPT !.failed = TRUE]
  BY <1>3, <1>5
<1>7. Masked(b, off, on)
        = IF c.works
          THEN Masked(b, {"WILL_EXPOSE"}, {"EXPOSING", "TEL_MOVE"})
          ELSE Masked(b, {"TEL_MOVE"}, {})
  OBVIOUS
<1>. HIDE DEF b, off, on
<1>8. Carries(Masked(b, off, on), e)
  BY <1>2, <1>5, MaskKeeps
<1>9. e \in Camera
  BY <1>8 DEF Carries, Goes
<1>. HIDE DEF e
<1>. QED
  BY <1>4, <1>5, <1>6, <1>7, <1>8, <1>9, BeginsAfter DEF a, none, tel

\* Whatever becomes of the readout, the exposure goes on or will be begun.
PutOff(d) ==
  "EXPOSING" \in d.st \/ d.failed \/ d.moving \/ (d.waitBop /\ d.bop # {})

\* What an attempt to expose leaves, whether the exposure begins or waits.
Put(c, d) ==
  /\ d \in Camera
  /\ SameHost(c, d) /\ FewerQueued(c, d) /\ Hears(c, d)
  /\ "READING" \in d.st <=> "READING" \in c.st
  /\ ~c.works => "EXPOSING" \notin d.st
  /\ Held(d) /\ Waiting(d) /\ Promised(d) /\ ("READING" \in c.st => PutOff(d))
  /\ Sum(d) <= Sum(c) + 1
  /\ Resumed(c) => Resumed(d)

\* The exposure is counted and waits for the BOP state.
LEMMA DelayedFields ==
  ASSUME NEW c \in Camera
  PROVE  LET d == [c EXCEPT !.n = @ + 1, !.waitBop = TRUE]
         IN  /\ d \in Camera /\ d.st = c.st /\ d.que = c.que /\ d.bop = c.bop
             /\ SameHost(c, d) /\ d.waitQue = c.waitQue /\ d.waitBop
             /\ d.moving = c.moving /\ Sum(d) = Sum(c) + 1
<1>. DEFINE b == [c EXCEPT !.waitBop = TRUE]
            d == [c EXCEPT !.n = @ + 1, !.waitBop = TRUE]
<1>1. c.n \in Nat /\ c.num \in Nat /\ c.n + 1 \in Nat
  BY DEF Camera
<1>2. d = [b EXCEPT !.n = c.n + 1]
  BY DEF Camera
<1>3. b \in Camera
  BY DEF Camera
<1>4. d.n = c.n + 1 /\ d.waitBop
  BY DEF Camera
<1>5. \A f \in {"st", "works", "cut", "conn", "que", "bop", "waitQue", "moving",
                "num"} : d[f] = c[f]
  BY DEF Camera
<1>6. [b EXCEPT !.n = c.n + 1] \in Camera
  <2>. HIDE DEF b
  <2>. QED
    BY <1>1, <1>3 DEF Camera
<1>7. d \in Camera
  BY <1>2, <1>6
<1>. HIDE DEF d
<1>8. SameHost(c, d) /\ Sum(d) = Sum(c) + 1
  BY <1>1, <1>4, <1>5 DEF SameHost, Sum
<1>. QED
  BY <1>4, <1>5, <1>7, <1>8 DEF d

\* camStartExposure
LEMMA StartPuts ==
  ASSUME FrameTransfer = FALSE, NEW c \in Camera, "EXPOSING" \notin c.st
  PROVE  Put(c, camStartExposure(c))
<1>. DEFINE d == [c EXCEPT !.n = @ + 1, !.waitBop = TRUE]
            will == {"WILL_EXPOSE"}
            none == {}
            m == Masked(d, none, will)
            r == maskState(d, none, will)
            s == camStartExposureWithoutCheck(c)
<1>1. none \in Words /\ will \in Words
  BY DEF Words, States
<1>2. camStartExposure(c)
        = IF c.care /\ (c.bop # {} \/ c.moving)
          THEN IF c.bop = {"TRIG"} THEN r ELSE d
          ELSE s
  BY DEF camStartExposure
<1>3. /\ d \in Camera /\ d.st = c.st /\ d.que = c.que /\ d.bop = c.bop
      /\ SameHost(c, d) /\ d.waitQue = c.waitQue /\ d.waitBop
      /\ d.moving = c.moving /\ Sum(d) = Sum(c) + 1
  BY DelayedFields
<1>4. Begins(c, s) /\ Hears(c, s)
  BY Start
<1>. HIDE DEF d, will, none, s
<1>5. Sum(c) \in Int /\ \A x \in Camera : Sum(x) \in Int
  BY DEF Sum, Camera
<1>6. CASE ~(c.care /\ (c.bop # {} \/ c.moving))
  <2>1. Held(s) /\ ~Stuck(s)
    BY <1>4 DEF Begins, Held, Stuck, Busy
  <2>. QED
    BY <1>2, <1>4, <1>6, <2>1 DEF Begins, Put, PutOff, Waiting, Promised
<1>7. CASE c.care /\ (c.bop # {} \/ c.moving)
  <2>1. Put(c, d)
    BY <1>3, <1>5, <1>7
       DEF Put, PutOff, Held, Waiting, Promised, FewerQueued, Hears, Heard,
           Resumed
  <2>2. Put(c, r)
    <3>1. MaskOf(d, none, will, m)
      BY <1>1, <1>3, MaskedFields
    <3>2. /\ m \in Camera /\ m.st = (d.st \ none) \cup will
          /\ SameRest(d, m) /\ m.failed = d.failed
      BY <3>1 DEF MaskOf
    <3>3. Goes(m, r) /\ Hears(m, r)
      BY <1>1, <1>3, MaskKeeps DEF Carries
    <3>4. "READING" \in c.st => r = m \/ r = sendStatusMessage(m)
      <4>1. d.n > 0
        BY DEF d, Camera
      <4>2. r = IF m.st = d.st THEN d
                ELSE IF m.n > 0 /\ m.st \cap Chip # {} THEN sendStatusMessage(m)
                ELSE sendStatusMessage(
                       QueEmptied(MakeDue(setFullBopState, m, Due(m, m.st))))
        BY DEF maskState, maskStateWith, checkQueChangesWith, Masked
      <4>3. m.st = d.st => m = d
        BY <1>1, <1>3, MaskedSame
      <4>. QED
        BY <3>2, <4>1, <4>2, <4>3, <1>3 DEF SameRest, Chip, none, will
    <3>. HIDE DEF m, r
    <3>5. "READING" \in c.st => PutOff(r)
      <4>1. PutOff(m)
        BY <3>2, <1>3, <1>7 DEF SameRest, PutOff
      <4>2. PutOff(sendStatusMessage(m))
        BY <3>2, <4>1, SendFields DEF SameRest, PutOff
      <4>. QED
        BY <3>4, <4>1, <4>2
    <3>6. /\ "READING" \in m.st <=> "READING" \in c.st
          /\ "EXPOSING" \notin m.st /\ Held(m)
      BY <3>2, <1>3 DEF none, will, Held
    <3>7. /\ Waiting(m) /\ Promised(m)
      BY <3>2, <1>3, <1>7 DEF SameRest, Waiting, Promised
    <3>8. SameHost(c, r) /\ ("READING" \in r.st <=> "READING" \in c.st)
      BY <3>2, <3>3, <3>6, <1>3 DEF Goes, SameHost, SameChip, SameRest
    <3>9. ~c.works => "EXPOSING" \notin r.st
      BY <3>2, <3>3, <3>6, <1>3 DEF Goes, SameHost, SameChip, SameRest
    <3>10. FewerQueued(c, r) /\ Hears(c, r) /\ (Resumed(c) => Resumed(r))
      BY <3>2, <3>3, <3>6, <1>3
         DEF Goes, FewerQueued, Hears, Heard, SameRest, Resumed
    <3>11. Sum(r) <= Sum(c) + 1
      BY <3>2, <3>3, <1>3, <1>5 DEF Goes, SameRest
    <3>. QED
      BY <3>3, <3>6, <3>7, <3>8, <3>9, <3>10, <3>11, <3>5 DEF Goes, Put
  <2>. QED
    BY <1>2, <1>7, <2>1, <2>2
<1>. QED
  BY <1>6, <1>7

(***************************************************************************)
(* The answer to a client.                                                 *)
(***************************************************************************)
LEMMA EndFields ==
  ASSUME NEW c \in Camera, NEW x
  PROVE  LET d == sendCommandEnd(c, x)
         IN  d \in Camera /\ d.st = c.st /\ SameRest(c, d) /\ d.failed = c.failed
<1>. DEFINE d == sendCommandEnd(c, x)
<1>1. CASE x \notin Clients
  BY <1>1 DEF sendCommandEnd, SameRest, SameHost
<1>2. CASE x \in Clients
  <2>1. d = [c EXCEPT !.owes = [c.owes EXCEPT ![x] = @ - 1]]
    BY <1>2 DEF sendCommandEnd
  <2>2. [c.owes EXCEPT ![x] = @ - 1] \in [Clients -> Int]
    BY <1>2 DEF Camera
  <2>3. d \in Camera
    BY <2>1, <2>2 DEF Camera
  <2>4. \A f \in {"st", "works", "cut", "conn", "n", "num", "que", "bop",
                  "waitQue", "waitBop", "moving", "asks", "failed"} : d[f] = c[f]
    BY <2>1 DEF Camera
  <2>. HIDE DEF d
  <2>5. SameHost(c, d) /\ Sum(d) = Sum(c)
    BY <2>4 DEF SameHost, Sum
  <2>. QED
    BY <2>3, <2>4, <2>5 DEF SameRest, d
<1>. QED
  BY <1>1, <1>2

\* The answer disturbs nothing.
LEMMA PutEnd ==
  ASSUME NEW c, NEW d \in Camera, NEW x, Put(c, d)
  PROVE  Put(c, sendCommandEnd(d, x))
<1>. DEFINE e == sendCommandEnd(d, x)
<1>1. e \in Camera /\ e.st = d.st /\ SameRest(d, e) /\ e.failed = d.failed
  BY EndFields
<1>. HIDE DEF e
<1>. QED
  BY <1>1 DEF Put, PutOff, SameRest, SameHost, FewerQueued, Hears, Heard, Held,
              Waiting,
              Promised, Stuck, Busy, Resumed, e

(***************************************************************************)
(* camExpose, where the chip is free and where it may be in use.           *)
(***************************************************************************)
\* What an action makes of the camera: it keeps what the invariant tells of it
\* alone, and more exposures by no more than k.
Steps(c, d, k) ==
  /\ CamInv(d)
  /\ Sum(d) <= Sum(c) + k
  /\ Hears(c, d)
  /\ Promised(c) => Promised(d)
  /\ "READING" \in d.st /\ "window" \in c.que => "window" \in d.que

\* The camera while a method runs: it need not wait for anything yet.
Sound(c) ==
  /\ c \in Camera /\ ~c.cut
  /\ Held(c) /\ Apart(c) /\ Queued(c) /\ Resumed(c)

ExposureFree(c, x) == [c EXCEPT !.n = Dequeued(@), !.conn = x]

\* The exposure and its client are taken up.
LEMMA FreeFields ==
  ASSUME NEW c \in Camera, NEW x \in Clients \cup {NoConn}
  PROVE  LET d == ExposureFree(c, x)
         IN  /\ d \in Camera /\ d.st = c.st /\ d.que = c.que /\ d.bop = c.bop
             /\ d.waitQue = c.waitQue /\ d.works = c.works /\ d.cut = c.cut
             /\ d.conn = x /\ d.num = c.num
             /\ Sum(d) = Sum(c) - (IF c.n > 0 THEN 1 ELSE 0)
<1>. DEFINE k == Dequeued(c.n)
            d == ExposureFree(c, x)
<1>1. c.n \in Nat /\ c.num \in Nat
  BY DEF Camera
<1>2. k \in Nat /\ k = c.n - (IF c.n > 0 THEN 1 ELSE 0)
  BY <1>1 DEF Dequeued
<1>3. d = [c EXCEPT !.n = k, !.conn = x]
  BY DEF ExposureFree
<1>. HIDE DEF d, k
<1>4. d \in Camera /\ d.n = k /\ d.conn = x
  BY <1>2, <1>3 DEF Camera
<1>5. \A f \in {"st", "works", "cut", "que", "bop", "waitQue", "num"} :
         d[f] = c[f]
  BY <1>3 DEF Camera
<1>6. Sum(d) = Sum(c) - (IF c.n > 0 THEN 1 ELSE 0)
  BY <1>1, <1>2, <1>4, <1>5 DEF Sum
<1>. QED
  BY <1>4, <1>5, <1>6 DEF d

\* camExpose with the chip free
LEMMA ExposeFree ==
  ASSUME FrameTransfer = FALSE, NEW c \in Camera, NEW x \in Clients \cup {NoConn},
         "EXPOSING" \notin c.st,
         NEW chipState, NEW fromQue, ~InUse(c, chipState, fromQue)
  PROVE  Put(ExposureFree(c, x), camExpose(c, x, chipState, fromQue))
<1>. DEFINE e == ExposureFree(c, x)
            s == camStartExposure(e)
<1>1. e \in Camera /\ e.st = c.st
  BY FreeFields
<1>2. camExpose(c, x, chipState, fromQue) = TellFailed(c, s, x)
  BY DEF camExpose, ExposureFree
<1>. HIDE DEF e
<1>3. Put(e, s)
  BY <1>1, StartPuts
<1>. HIDE DEF s
<1>4. Put(e, sendCommandEnd(s, x))
  BY <1>3, PutEnd DEF Put
<1>. QED
  BY <1>2, <1>3, <1>4 DEF TellFailed, e

\* The exposure is counted, or waits for the value changes.
LEMMA WaitsFields ==
  ASSUME NEW c \in Camera
  PROVE  /\ LET d == [c EXCEPT !.n = @ + 1]
            IN  /\ d \in Camera /\ d.st = c.st /\ d.que = c.que /\ d.bop = c.bop
                /\ d.waitQue = c.waitQue /\ SameHost(c, d) /\ Sum(d) = Sum(c) + 1
         /\ LET d == [c EXCEPT !.waitQue = TRUE]
            IN  /\ d \in Camera /\ d.st = c.st /\ d.que = c.que /\ d.bop = c.bop
                /\ SameHost(c, d) /\ Sum(d) <= Sum(c) + 1
<1>1. c.n \in Nat /\ c.num \in Nat /\ c.n + 1 \in Nat
  BY DEF Camera
<1>. DEFINE d == [c EXCEPT !.n = @ + 1]
<1>2. d \in Camera /\ d.n = c.n + 1
  BY <1>1 DEF Camera
<1>3. \A f \in {"st", "works", "cut", "conn", "que", "bop", "waitQue", "num"} :
         d[f] = c[f]
  BY DEF Camera
<1>. DEFINE e == [c EXCEPT !.waitQue = TRUE]
<1>4. e \in Camera /\ e.waitQue = TRUE
  BY DEF Camera
<1>5. \A f \in {"st", "works", "cut", "conn", "que", "bop", "n", "num"} :
         e[f] = c[f]
  BY DEF Camera
<1>. HIDE DEF d, e
<1>6. SameHost(c, d) /\ Sum(d) = Sum(c) + 1
  BY <1>1, <1>2, <1>3 DEF SameHost, Sum
<1>7. SameHost(c, e) /\ Sum(e) <= Sum(c) + 1
  BY <1>1, <1>4, <1>5 DEF SameHost, Sum
<1>. QED
  BY <1>2, <1>3, <1>4, <1>5, <1>6, <1>7 DEF d, e

\* camExpose by a command or when the filter has moved
LEMMA ExposeSteps ==
  ASSUME FrameTransfer = FALSE, NEW c, Sound(c), NEW x \in Clients \cup {NoConn}
  PROVE  LET d == camExpose(c, x, c.st, FALSE)
         IN  Steps(c, d, 1) /\ Promised(d)
<1>. DEFINE d == camExpose(c, x, c.st, FALSE)
            e == ExposureFree(c, x)
<1>1. InUse(c, c.st, FALSE) <=> Busy(c) \/ c.que # {}
  BY DEF InUse, Busy
<1>2. c \in Camera /\ Sum(c) \in Int
  BY DEF Sound, Sum, Camera
<1>3. CASE Busy(c) \/ c.que # {}
  <2>1. Busy(c)
    BY <1>3 DEF Sound, Queued
  <2>2. /\ d \in Camera /\ d.st = c.st /\ d.que = c.que /\ d.bop = c.bop
        /\ SameHost(c, d) /\ Sum(d) <= Sum(c) + 1
        /\ (Resumed(c) => Resumed(d))
    <3>1. CASE c.que = {}
      <4>. DEFINE w == [c EXCEPT !.n = @ + 1]
      <4>1. d = w
        BY <1>1, <1>3, <3>1 DEF camExpose
      <4>2. /\ w \in Camera /\ w.st = c.st /\ w.que = c.que /\ w.bop = c.bop
            /\ w.waitQue = c.waitQue /\ SameHost(c, w) /\ Sum(w) = Sum(c) + 1
        BY <1>2, WaitsFields
      <4>. HIDE DEF d, w
      <4>. QED
        BY <4>1, <4>2, <1>2 DEF Resumed
    <3>2. CASE c.que # {}
      <4>. DEFINE w == [c EXCEPT !.waitQue = TRUE]
      <4>1. d = w
        BY <1>1, <1>3, <3>2 DEF camExpose
      <4>2. /\ w \in Camera /\ w.st = c.st /\ w.que = c.que /\ w.bop = c.bop
            /\ SameHost(c, w) /\ Sum(w) <= Sum(c) + 1
        BY <1>2, WaitsFields
      <4>. HIDE DEF d, w
      <4>. QED
        BY <4>1, <4>2, <3>2 DEF Resumed
    <3>. QED
      BY <3>1, <3>2
  <2>. HIDE DEF d
  <2>3. Busy(d) /\ Queued(d) /\ Waiting(d) /\ Promised(d)
    BY <2>1, <2>2 DEF Busy, Queued, Waiting, Promised, Stuck
  <2>4. Held(d) /\ Apart(d) /\ Resumed(d) /\ ~d.cut /\ Hears(c, d)
    BY <2>2 DEF Sound, Held, Apart, SameHost, Hears, Heard
  <2>. QED
    BY <2>2, <2>3, <2>4 DEF Steps, CamInv, d
<1>4. CASE ~(Busy(c) \/ c.que # {})
  <2>1. Put(e, d)
    BY <1>1, <1>2, <1>4, ExposeFree DEF Busy
  <2>2. /\ e \in Camera /\ e.st = c.st /\ e.que = c.que /\ e.bop = c.bop
        /\ e.waitQue = c.waitQue /\ e.works = c.works /\ e.cut = c.cut
        /\ Sum(e) <= Sum(c)
    BY <1>2, FreeFields
  <2>. HIDE DEF d, e
  <2>3. Sum(d) <= Sum(c) + 1
    <3>1. \A y \in Camera : Sum(y) \in Int
      BY DEF Sum, Camera
    <3>. QED
      BY <3>1, <2>1, <2>2, <1>2 DEF Put
  <2>4. ~d.cut /\ Held(d) /\ Waiting(d) /\ Promised(d) /\ Resumed(d)
    BY <2>1, <2>2 DEF Put, Sound, Resumed, SameHost
  <2>5. d.que = {} /\ "READING" \notin d.st
    BY <2>1, <2>2, <1>4 DEF Put, FewerQueued, Busy
  <2>6. Hears(c, d)
    BY <2>1, <2>2 DEF Put, Hears, Heard
  <2>. QED
    BY <2>1, <2>3, <2>4, <2>5, <2>6
       DEF Put, Steps, CamInv, Apart, Queued, d
<1>. QED
  BY <1>3, <1>4

-----------------------------------------------------------------------------
(***************************************************************************)
(* The actions, on the camera alone.                                       *)
(***************************************************************************)
\* Two cameras of which the invariant tells the same.
Alike(c, d) ==
  /\ d.st = c.st /\ d.que = c.que /\ d.bop = c.bop
  /\ d.cut = c.cut /\ d.conn = c.conn /\ d.failed = c.failed
  /\ d.n = c.n /\ d.waitQue = c.waitQue /\ d.waitBop = c.waitBop
  /\ d.moving = c.moving /\ d.asks = c.asks
  /\ Sum(d) = Sum(c)

\* What a step has done does not depend on what the invariant does not tell.
LEMMA AlikeSteps ==
  ASSUME NEW b, NEW c, NEW d, NEW e \in Camera, NEW k,
         Alike(b, c), Alike(d, e), Steps(c, d, k)
  PROVE  Steps(b, e, k)
<1>1. Sum(e) <= Sum(b) + k
  BY DEF Alike, Steps
<1>2. CamInv(e)
  BY DEF Alike, Steps, CamInv, Held, Apart, Queued, Resumed, Waiting, Stuck, Busy
<1>3. Hears(b, e)
  BY DEF Alike, Steps, Hears, Heard
<1>4. Promised(b) => Promised(e)
  BY DEF Alike, Steps, Promised, Stuck, Busy
<1>. QED
  BY <1>1, <1>2, <1>3, <1>4 DEF Alike, Steps

\* Nor does what the camera is.
LEMMA AlikeSound ==
  ASSUME NEW b, NEW c \in Camera, Alike(b, c), Sound(b)
  PROVE  Sound(c)
BY DEF Alike, Sound, Held, Apart, Queued, Resumed, Busy

\* The outcome of the hardware is chosen.
LEMMA HardwareFields ==
  ASSUME NEW c \in Camera, NEW w \in BOOLEAN
  PROVE  LET d == [c EXCEPT !.works = w]
         IN  d \in Camera /\ Alike(c, d) /\ d.works = w
<1>. DEFINE d == [c EXCEPT !.works = w]
<1>1. d \in Camera /\ d.works = w
  BY DEF Camera
<1>2. \A f \in {"st", "que", "bop", "cut", "conn", "failed", "n", "num",
                "waitQue", "waitBop", "moving", "asks"} : d[f] = c[f]
  BY DEF Camera
<1>. HIDE DEF d
<1>3. Sum(d) = Sum(c)
  BY <1>2 DEF Sum
<1>. QED
  BY <1>1, <1>2, <1>3 DEF Alike, d

\* A command comes in.
LEMMA AskingFields ==
  ASSUME NEW c \in Camera, NEW x \in Clients, NEW care \in BOOLEAN
  PROVE  Asking(c, x, care) \in Camera /\ Alike(c, Asking(c, x, care))
<1>. DEFINE b == [c EXCEPT !.care = care]
            owes == [c.owes EXCEPT ![x] = @ + 1]
            d == Asking(c, x, care)
<1>1. b \in Camera
  BY DEF Camera
<1>2. owes \in [Clients -> Int]
  BY DEF Camera
<1>3. d = [b EXCEPT !.owes = owes]
  BY DEF Asking, Camera
<1>. HIDE DEF owes
<1>4. \A f \in {"st", "que", "bop", "cut", "conn", "failed", "n", "num",
                "waitQue", "waitBop", "moving", "asks"} : d[f] = c[f]
  BY <1>3 DEF Camera
<1>. HIDE DEF d, b
<1>5. d \in Camera
  BY <1>1, <1>2, <1>3 DEF Camera
<1>6. Sum(d) = Sum(c)
  BY <1>4 DEF Sum
<1>. QED
  BY <1>4, <1>5, <1>6 DEF Alike, d

\* The next action chooses the outcome again.
LEMMA SettledFields ==
  ASSUME NEW c \in Camera
  PROVE  Settled(c) \in Camera /\ Alike(c, Settled(c)) /\ Settled(c).works
BY HardwareFields DEF Settled

\* Two cameras with the same word that differ only in the answers given.
LEMMA SameAlike ==
  ASSUME NEW c, NEW d, d.st = c.st, SameRest(c, d), d.failed = c.failed
  PROVE  Alike(c, d)
BY DEF SameRest, SameHost, Alike

\* The status word changes, and the camera is as it should be before the call,
\* but for what waited for the chip, and with the new word.
LEMMA MaskSound ==
  ASSUME FrameTransfer = FALSE, NEW c \in Camera, NEW off \in Words,
         NEW on \in Words, ~c.cut, Queued(c), Resumed(c),
         Held(Masked(c, off, on)), Apart(Masked(c, off, on))
  PROVE  LET m == Masked(c, off, on)
             r == maskState(c, off, on)
         IN  /\ Sound(r) /\ SameHost(c, r) /\ StaysIdle(m, r)
             /\ FewerQueued(m, r) /\ Hears(c, r) /\ Sum(r) <= Sum(c)
             /\ SameChip(m, r)
             /\ Waiting(m) => Waiting(r)
             /\ Waiting(m) /\ Promised(m) => Promised(r)
<1>. DEFINE m == Masked(c, off, on)
            r == maskState(c, off, on)
<1>1. MaskOf(c, off, on, m)
  BY MaskedFields
<1>2. /\ m \in Camera /\ m.st = (c.st \ off) \cup on
      /\ SameRest(c, m) /\ m.failed = c.failed
  BY <1>1 DEF MaskOf
<1>3. Goes(m, r) /\ Hears(m, r) /\ Queued(r)
  BY MaskKeeps DEF Carries
<1>4. Held(m) /\ Apart(m)
  OBVIOUS
<1>. HIDE DEF m, r
<1>5. SameHost(c, r) /\ Hears(c, r) /\ Sum(r) <= Sum(c) /\ Resumed(r) /\ ~r.cut
  BY <1>2, <1>3 DEF Goes, SameRest, SameHost, Hears, Heard, Resumed
<1>6. Held(r) /\ Apart(r)
  BY <1>3, <1>4 DEF Goes, SameChip, Apart
<1>. QED
  BY <1>3, <1>5, <1>6 DEF Goes, Sound, m, r

-----------------------------------------------------------------------------
\* A command "expose" adds one exposure at most.
LEMMA ExposeAction ==
  ASSUME FrameTransfer = FALSE, NEW c, CamInv(c), NEW w \in BOOLEAN,
         NEW x \in Clients, NEW care \in BOOLEAN
  PROVE  LET b == Asking([c EXCEPT !.works = w], x, care)
         IN  Steps(c, Settled(Told(b, camExpose(b, x, b.st, FALSE), x)), 1)
<1>. DEFINE a == [c EXCEPT !.works = w]
            b == Asking(a, x, care)
            d == camExpose(b, x, b.st, FALSE)
            e == Told(b, d, x)
<1>1. a \in Camera /\ Alike(c, a) /\ Sound(c)
  BY HardwareFields DEF CamInv, Sound
<1>. HIDE DEF a
<1>2. b \in Camera /\ Alike(a, b)
  BY <1>1, AskingFields
<1>3. Alike(c, b) /\ Sound(b)
  <2>1. Alike(c, b)
    BY <1>1, <1>2 DEF Alike
  <2>. QED
    BY <1>1, <1>2, <2>1, AlikeSound
<1>. HIDE DEF b
<1>4. Steps(b, d, 1) /\ d \in Camera
  BY <1>3, ExposeSteps DEF Steps, CamInv
<1>. HIDE DEF d
<1>5. e \in Camera /\ Alike(d, e)
  <2>1. e = d \/ e = sendCommandEnd(d, x)
    BY DEF Told
  <2>2. CASE e = d
    BY <2>2, <1>4 DEF Alike
  <2>3. CASE e = sendCommandEnd(d, x)
    BY <2>3, <1>4, EndFields, SameAlike
  <2>. QED
    BY <2>1, <2>2, <2>3
<1>. HIDE DEF e
<1>6. Settled(e) \in Camera /\ Alike(e, Settled(e))
  BY <1>5, SettledFields
<1>7. Alike(d, Settled(e))
  BY <1>5, <1>6 DEF Alike
<1>. QED
  BY <1>3, <1>4, <1>6, <1>7, AlikeSteps DEF a, b, d, e

\* A value is changed, or its change is queued while the chip is busy.
LEMMA SetValueAction ==
  ASSUME NEW c, CamInv(c), NEW k \in Kinds
  PROVE  LET d == IF StateCondition(k) \cap c.st # {}
                  THEN [c EXCEPT !.que = @ \cup {k}] ELSE Apply(c, {k})
         IN  Steps(c, d, 0) /\ d.works = c.works
<1>1. c \in Camera /\ Sum(c) \in Int
  BY DEF CamInv, Sum, Camera
<1>2. CASE StateCondition(k) \cap c.st # {}
  <2>. DEFINE que == c.que \cup {k}
              d == [c EXCEPT !.que = que]
  <2>1. que \in SUBSET Kinds
    BY <1>1 DEF Camera
  <2>2. c.que \subseteq que
    OBVIOUS
  <2>. HIDE DEF que
  <2>3. d \in Camera /\ d.que = que
    BY <1>1, <2>1 DEF Camera
  <2>4. \A f \in {"st", "bop", "cut", "conn", "failed", "n", "num", "waitQue",
                  "waitBop", "moving", "asks", "works"} : d[f] = c[f]
    BY <1>1 DEF Camera
  <2>. HIDE DEF d
  <2>5. Sum(d) <= Sum(c) + 0
    BY <1>1, <2>4 DEF Sum
  <2>6. Busy(c)
    BY <1>2 DEF StateCondition, Busy, Chip
  <2>7. Held(d) /\ Apart(d) /\ Queued(d) /\ Waiting(d) /\ ~d.cut /\ Promised(d)
    BY <2>4, <2>6
       DEF CamInv, Held, Apart, Queued, Waiting, Promised, Stuck, Busy
  <2>8. Resumed(d) /\ Hears(c, d)
    BY <2>2, <2>3, <2>4 DEF CamInv, Resumed, Hears, Heard
  <2>9. Steps(c, d, 0)
    BY <2>2, <2>3, <2>5, <2>7, <2>8 DEF Steps, CamInv
  <2>. QED
    BY <1>2, <2>4, <2>9 DEF d, que
<1>3. CASE StateCondition(k) \cap c.st = {}
  <2>. DEFINE moves == c.moving \/ "filter" \in {k}
              d == Apply(c, {k})
  <2>1. moves \in BOOLEAN /\ (c.moving => moves)
    BY <1>1 DEF Camera
  <2>2. d = [c EXCEPT !.moving = moves]
    BY DEF Apply
  <2>. HIDE DEF moves
  <2>3. d \in Camera /\ d.moving = moves
    BY <1>1, <2>1, <2>2 DEF Camera
  <2>4. \A f \in {"st", "que", "bop", "cut", "conn", "failed", "n", "num",
                  "waitQue", "waitBop", "asks", "works"} : d[f] = c[f]
    BY <1>1, <2>2 DEF Camera
  <2>. HIDE DEF d
  <2>5. Sum(d) <= Sum(c) + 0
    BY <1>1, <2>4 DEF Sum
  <2>6. Held(d) /\ Apart(d) /\ Queued(d) /\ Resumed(d) /\ ~d.cut /\ Hears(c, d)
    BY <2>4 DEF CamInv, Held, Apart, Queued, Resumed, Hears, Heard, Busy
  <2>7. Waiting(d) /\ (Promised(c) => Promised(d))
    BY <2>1, <2>3, <2>4 DEF CamInv, Waiting, Promised, Stuck, Busy
  <2>8. Steps(c, d, 0)
    BY <2>3, <2>4, <2>5, <2>6, <2>7 DEF Steps, CamInv
  <2>. QED
    BY <1>3, <2>4, <2>8 DEF d
<1>. QED
  BY <1>2, <1>3

(***************************************************************************)
(* An exposure ends: the readout begins, or the camera is stopped.         *)
(***************************************************************************)
\* The exposure c has made way for a readout, unless it failed or the client
\* left.
Ended(c, d) ==
  /\ Sound(d)
  /\ Sum(d) <= Sum(c) /\ Hears(c, d)
  /\ "READING" \in d.st \/ d.failed \/ d.conn = NoConn
  /\ "READING" \in d.st /\ "window" \in c.que => "window" \in d.que

\* The exposure makes way for its readout.
LEMMA ReadoutBegins ==
  ASSUME FrameTransfer = FALSE, NEW c, Sound(c)
  PROVE  /\ Ended(c, BeginReadout(c)) /\ SameHost(c, BeginReadout(c))
         /\ "READING" \in BeginReadout(c).st
<1>. DEFINE off == {"EXPOSING", "TEL_MOVE"}
            on == {"READING"}
            m == Masked(c, off, on)
            r == maskState(c, off, on)
<1>1. off \in Words /\ on \in Words
  BY DEF Words, States
<1>2. BeginReadout(c) = r
  BY DEF BeginReadout
<1>. HIDE DEF off, on
<1>3. MaskOf(c, off, on, m)
  BY <1>1, MaskedFields DEF Sound
<1>. HIDE DEF m
<1>4. /\ m.st = (c.st \ off) \cup on /\ SameRest(c, m)
  BY <1>3 DEF MaskOf
<1>5. Held(m) /\ Apart(m) /\ "READING" \in m.st
  BY <1>4 DEF off, on, Held, Apart
<1>6. /\ Sound(r) /\ SameHost(c, r) /\ FewerQueued(m, r) /\ Hears(c, r)
      /\ Sum(r) <= Sum(c) /\ SameChip(m, r)
  BY <1>1, <1>5, MaskSound DEF Sound, m
<1>7. "READING" \in r.st /\ ("window" \in c.que => "window" \in r.que)
  BY <1>4, <1>5, <1>6 DEF SameChip, FewerQueued, SameRest
<1>. QED
  BY <1>2, <1>6, <1>7 DEF Ended

\* A readout that fails gives the chip back.
LEMMA ReadoutFails ==
  ASSUME FrameTransfer = FALSE, NEW c, Sound(c), NEW x
  PROVE  Ended(c, sendCommandEnd([maskState(BeginReadout(c), {"READING"}, {})
                                    EXCEPT !.failed = TRUE], x))
<1>. DEFINE b == BeginReadout(c)
            off == {"READING"}
            on == {}
            m == Masked(b, off, on)
            r == maskState(b, off, on)
            e == [r EXCEPT !.failed = TRUE]
            d == sendCommandEnd(e, x)
<1>1. off \in Words /\ on \in Words
  BY DEF Words, States
<1>2. Ended(c, b)
  BY ReadoutBegins
<1>. HIDE DEF b, off, on
<1>3. MaskOf(b, off, on, m)
  BY <1>1, <1>2, MaskedFields DEF Sound, Ended
<1>. HIDE DEF m
<1>4. /\ m.st = (b.st \ off) \cup on /\ SameRest(b, m)
  BY <1>3 DEF MaskOf
<1>5. Held(m) /\ Apart(m) /\ "READING" \notin m.st
  BY <1>2, <1>4 DEF Ended, Sound, off, on, Held, Apart
<1>6. /\ Sound(r) /\ SameHost(b, r) /\ Hears(b, r)
      /\ Sum(r) <= Sum(b) /\ SameChip(m, r)
  BY <1>1, <1>2, <1>5, MaskSound DEF Ended, Sound, m
<1>. HIDE DEF r
<1>7. e \in Camera /\ e.failed /\ e.st = r.st /\ SameRest(r, e)
  BY <1>6, FailedFields DEF Sound
<1>. HIDE DEF e
<1>8. d \in Camera /\ d.st = e.st /\ SameRest(e, d) /\ d.failed = e.failed
  BY <1>7, EndFields
<1>. HIDE DEF d
<1>9. "READING" \notin d.st /\ d.failed
  BY <1>5, <1>6, <1>7, <1>8 DEF SameChip
<1>10. Sum(d) <= Sum(c)
  <2>1. \A y \in Camera : Sum(y) \in Int
    BY DEF Sum, Camera
  <2>2. c \in Camera /\ b \in Camera /\ r \in Camera
    BY <1>2, <1>6 DEF Ended, Sound
  <2>. QED
    BY <2>1, <2>2, <1>2, <1>6, <1>7, <1>8 DEF Ended, SameRest
<1>11. Hears(c, d)
  BY <1>2, <1>6, <1>7, <1>8 DEF Ended, SameRest, Hears, Heard
<1>12. Sound(d)
  BY <1>6, <1>7, <1>8
     DEF Sound, SameRest, SameHost, Held, Apart, Queued, Resumed, Busy
<1>. QED
  BY <1>9, <1>10, <1>11, <1>12 DEF Ended, d, e, r, b, off, on

\* The count is cleared.
LEMMA StoppedFields ==
  ASSUME NEW c \in Camera
  PROVE  LET d == stopExposure(c)
         IN  /\ d \in Camera /\ d.n = 0 /\ d.st = c.st /\ d.que = c.que
             /\ d.bop = c.bop /\ d.waitQue = c.waitQue /\ SameHost(c, d)
             /\ Sum(d) <= Sum(c)
<1>. DEFINE d == stopExposure(c)
<1>1. c.n \in Nat /\ c.num \in Nat
  BY DEF Camera
<1>2. d \in Camera /\ d.n = 0
  BY DEF stopExposure, Camera
<1>3. \A f \in {"st", "que", "bop", "waitQue", "num", "works", "cut", "conn"} :
         d[f] = c[f]
  BY DEF stopExposure, Camera
<1>. HIDE DEF d
<1>4. SameHost(c, d) /\ Sum(d) <= Sum(c)
  BY <1>1, <1>2, <1>3 DEF SameHost, Sum
<1>. QED
  BY <1>2, <1>3, <1>4 DEF d

\* The whole status word is cleared, after the exposures that were counted.
LEMMA StopSteps ==
  ASSUME FrameTransfer = FALSE, NEW c, c \in Camera, c.n = 0, ~c.cut,
         Queued(c), Resumed(c)
  PROVE  LET r == maskState(c, Off, {})
         IN  /\ Steps(c, r, 0) /\ Promised(r) /\ "READING" \notin r.st
             /\ SameHost(c, r)
             /\ (~c.waitQue => "EXPOSING" \notin r.st /\ Idle(r))
<1>. DEFINE on == {}
            m == Masked(c, Off, on)
            r == maskState(c, Off, on)
<1>1. Off \in Words /\ on \in Words
  BY DEF Words, States, Off
<1>. HIDE DEF on
<1>2. MaskOf(c, Off, on, m)
  BY <1>1, MaskedFields
<1>. HIDE DEF m
<1>3. /\ m.st = (c.st \ Off) \cup on /\ SameRest(c, m)
  BY <1>2 DEF MaskOf
<1>4. "EXPOSING" \notin m.st /\ "READING" \notin m.st
  BY <1>3 DEF Off, on
<1>5. Held(m) /\ Apart(m) /\ Waiting(m) /\ Promised(m)
  BY <1>3, <1>4 DEF SameRest, Held, Apart, Waiting, Promised, Stuck
<1>6. /\ Sound(r) /\ SameHost(c, r) /\ StaysIdle(m, r) /\ Hears(c, r)
      /\ Sum(r) <= Sum(c) /\ SameChip(m, r) /\ Waiting(r) /\ Promised(r)
  BY <1>1, <1>5, MaskSound DEF m
<1>7. "READING" \notin r.st
  BY <1>4, <1>6 DEF SameChip
<1>8. ~c.waitQue => "EXPOSING" \notin r.st /\ Idle(r)
  BY <1>3, <1>4, <1>6 DEF SameRest, StaysIdle, Idle
<1>9. Sum(r) <= Sum(c) + 0
  <2>1. Sum(c) \in Int
    BY DEF Sum, Camera
  <2>. QED
    BY <2>1, <1>6
<1>. QED
  BY <1>6, <1>7, <1>8, <1>9 DEF Steps, CamInv, Sound, on

\* The exposure ends, with whatever outcome.
LEMMA ExposureEndsAction ==
  ASSUME FrameTransfer = FALSE, NEW b, CamInv(b), NEW w \in BOOLEAN
  PROVE  LET c == [b EXCEPT !.works = w]
         IN  Steps(b, Settled(ExposureOver(c, endExposure(c))), 0)
<1>. DEFINE c == [b EXCEPT !.works = w]
            d == endExposure(c)
            off == IF d.num = c.num THEN {"EXPOSING", "FT", "TEL_MOVE"} ELSE {"FT"}
            on == {}
            m == Masked(d, off, on)
            r == maskState(d, off, on)
<1>1. c \in Camera /\ Alike(b, c) /\ Sound(b)
  BY HardwareFields DEF CamInv, Sound
<1>2. Sound(c)
  BY <1>1, AlikeSound
<1>. HIDE DEF c
<1>3. Ended(c, d)
  <2>1. CASE c.conn # NoConn /\ c.works
    <3>1. d = BeginReadout(c)
      BY <2>1 DEF endExposure, camReadout
    <3>. QED
      BY <3>1, <1>2, ReadoutBegins
  <2>2. CASE c.conn # NoConn /\ ~c.works
    <3>1. d = sendCommandEnd([maskState(BeginReadout(c), {"READING"}, {})
                                EXCEPT !.failed = TRUE], c.conn)
      BY <2>2 DEF endExposure, camReadout
    <3>. QED
      BY <3>1, <1>2, ReadoutFails
  <2>3. CASE c.conn = NoConn
    <3>. DEFINE s == stopExposure(c)
    <3>1. /\ s \in Camera /\ s.n = 0 /\ s.st = c.st /\ s.que = c.que
          /\ s.bop = c.bop /\ s.waitQue = c.waitQue /\ SameHost(c, s)
          /\ Sum(s) <= Sum(c)
      BY <1>1, StoppedFields
    <3>2. d = maskState(s, Off, {})
      BY <2>3 DEF endExposure
    <3>. HIDE DEF s
    <3>3. Queued(s) /\ Resumed(s) /\ ~s.cut
      BY <3>1, <1>2 DEF Sound, Queued, Resumed, Busy, SameHost
    <3>4. Steps(s, d, 0) /\ "READING" \notin d.st /\ SameHost(s, d)
      BY <3>1, <3>2, <3>3, StopSteps
    <3>. HIDE DEF d
    <3>5. Sum(d) <= Sum(c)
      <4>1. \A y \in Camera : Sum(y) \in Int
        BY DEF Sum, Camera
      <4>2. d \in Camera
        BY <3>4 DEF Steps, CamInv
      <4>. QED
        BY <4>1, <4>2, <3>1, <3>4, <1>1 DEF Steps
    <3>6. d.conn = NoConn /\ Hears(c, d) /\ Sound(d)
      BY <3>1, <3>4, <2>3 DEF Steps, CamInv, Sound, SameHost, Hears, Heard
    <3>. QED
      BY <3>4, <3>5, <3>6 DEF Ended
  <2>. QED
    BY <2>1, <2>2, <2>3
<1>4. off \in Words /\ on \in Words
  BY DEF Words, States
<1>5. ExposureOver(c, d) = r
  BY DEF ExposureOver
<1>6. /\ "READING" \notin off /\ ("EXPOSING" \in off <=> "TEL_MOVE" \in off)
      /\ on = {}
  OBVIOUS
<1>. HIDE DEF d, off, on
<1>7. MaskOf(d, off, on, m)
  BY <1>3, <1>4, MaskedFields DEF Ended, Sound
<1>. HIDE DEF m
<1>8. /\ m.st = (d.st \ off) \cup on /\ SameRest(d, m) /\ m.failed = d.failed
  BY <1>7 DEF MaskOf
<1>9. /\ Held(m) /\ Apart(m) /\ ("READING" \in m.st <=> "READING" \in d.st)
  BY <1>3, <1>6, <1>8 DEF Ended, Sound, Held, Apart
<1>10. Waiting(m) /\ Promised(m)
  BY <1>3, <1>8, <1>9
     DEF Ended, Waiting, Promised, Stuck, Busy, SameRest, SameHost
<1>11. /\ Sound(r) /\ SameHost(d, r) /\ FewerQueued(m, r) /\ Hears(d, r)
       /\ Sum(r) <= Sum(d) /\ SameChip(m, r) /\ Waiting(r) /\ Promised(r)
  BY <1>3, <1>4, <1>9, <1>10, MaskSound DEF Ended, Sound, m
<1>. HIDE DEF r
<1>12. Steps(c, r, 0)
  <2>1. Sum(r) <= Sum(c) + 0
    <3>1. \A y \in Camera : Sum(y) \in Int
      BY DEF Sum, Camera
    <3>. QED
      BY <3>1, <1>1, <1>3, <1>11 DEF Ended, Sound
  <2>2. Hears(c, r)
    BY <1>3, <1>11 DEF Ended, Hears
  <2>3. "READING" \in r.st /\ "window" \in c.que => "window" \in r.que
    BY <1>3, <1>8, <1>9, <1>11 DEF Ended, SameChip, FewerQueued, SameRest
  <2>. QED
    BY <2>1, <2>2, <2>3, <1>11 DEF Steps, CamInv, Sound
<1>13. Settled(r) \in Camera /\ Alike(r, Settled(r))
  BY <1>11, SettledFields DEF Sound
<1>. QED
  BY <1>1, <1>5, <1>12, <1>13, AlikeSteps DEF c, d

\* The client is forgotten.
LEMMA ConnFields ==
  ASSUME NEW c \in Camera
  PROVE  LET d == [c EXCEPT !.conn = NoConn]
         IN  /\ d \in Camera /\ d.conn = NoConn /\ d.st = c.st /\ d.que = c.que
             /\ d.bop = c.bop /\ d.waitQue = c.waitQue /\ d.cut = c.cut
             /\ d.works = c.works /\ Sum(d) = Sum(c)
<1>. DEFINE d == [c EXCEPT !.conn = NoConn]
<1>1. d \in Camera /\ d.conn = NoConn
  BY DEF Camera
<1>2. \A f \in {"st", "que", "bop", "waitQue", "num", "n", "cut", "works"} :
         d[f] = c[f]
  BY DEF Camera
<1>. HIDE DEF d
<1>3. Sum(d) = Sum(c)
  BY <1>2 DEF Sum
<1>. QED
  BY <1>1, <1>2, <1>3 DEF d

\* The exposure fails, or there is nothing to be read.
LEMMA ExposureFailsAction ==
  ASSUME FrameTransfer = FALSE, NEW c, CamInv(c)
  PROVE  /\ LET d == endExposure([c EXCEPT !.conn = NoConn])
            IN  Steps(c, d, 0) /\ d.works = c.works
         /\ LET d == stopExposure(maskState(c, {"EXPOSING", "READING", "TEL_MOVE"},
                                            {}))
            IN  Steps(c, d, 0) /\ d.works = c.works
<1>1. /\ c \in Camera /\ Sound(c)
      /\ \A y \in Camera : Sum(y) \in Int
  BY DEF CamInv, Sound, Sum, Camera
<1>2. LET d == endExposure([c EXCEPT !.conn = NoConn])
      IN  Steps(c, d, 0) /\ d.works = c.works
  <2>. DEFINE e == [c EXCEPT !.conn = NoConn]
              s == stopExposure(e)
              d == maskState(s, Off, {})
  <2>1. /\ e \in Camera /\ e.conn = NoConn /\ e.st = c.st /\ e.que = c.que
        /\ e.bop = c.bop /\ e.waitQue = c.waitQue /\ e.cut = c.cut
        /\ e.works = c.works /\ Sum(e) = Sum(c)
    BY <1>1, ConnFields
  <2>2. endExposure(e) = d
    BY <2>1 DEF endExposure
  <2>. HIDE DEF e
  <2>3. /\ s \in Camera /\ s.n = 0 /\ s.st = e.st /\ s.que = e.que
        /\ s.bop = e.bop /\ s.waitQue = e.waitQue /\ SameHost(e, s)
        /\ Sum(s) <= Sum(e)
    BY <2>1, StoppedFields
  <2>. HIDE DEF s
  <2>4. Queued(s) /\ Resumed(s) /\ ~s.cut
    BY <2>1, <2>3, <1>1 DEF Sound, Queued, Resumed, Busy, SameHost
  <2>5. Steps(s, d, 0) /\ "READING" \notin d.st /\ Promised(d) /\ SameHost(s, d)
    BY <2>3, <2>4, StopSteps
  <2>. HIDE DEF d
  <2>6. Sum(d) <= Sum(c) + 0
    BY <2>1, <2>3, <2>5, <1>1 DEF Steps, CamInv
  <2>7. Hears(c, d)
    BY <2>1, <2>3, <2>5 DEF Steps, Hears, Heard
  <2>8. Steps(c, d, 0) /\ d.works = c.works
    BY <2>1, <2>3, <2>5, <2>6, <2>7 DEF Steps, SameHost
  <2>. QED
    BY <2>2, <2>8 DEF e
<1>3. LET d == stopExposure(maskState(c, {"EXPOSING", "READING", "TEL_MOVE"}, {}))
      IN  Steps(c, d, 0) /\ d.works = c.works
  <2>. DEFINE off == {"EXPOSING", "READING", "TEL_MOVE"}
              on == {}
              m == Masked(c, off, on)
              r == maskState(c, off, on)
              d == stopExposure(r)
  <2>1. off \in Words /\ on \in Words
    BY DEF Words, States
  <2>. HIDE DEF off, on
  <2>2. MaskOf(c, off, on, m)
    BY <1>1, <2>1, MaskedFields
  <2>. HIDE DEF m
  <2>3. /\ m.st = (c.st \ off) \cup on
    BY <2>2 DEF MaskOf
  <2>4. Held(m) /\ Apart(m) /\ "READING" \notin m.st
    BY <2>3 DEF off, on, Held, Apart
  <2>5. /\ Sound(r) /\ Hears(c, r) /\ Sum(r) <= Sum(c) /\ SameChip(m, r)
        /\ SameHost(c, r)
    BY <1>1, <2>1, <2>4, MaskSound DEF Sound, m
  <2>. HIDE DEF r
  <2>6. /\ d \in Camera /\ d.n = 0 /\ d.st = r.st /\ d.que = r.que
        /\ d.bop = r.bop /\ d.waitQue = r.waitQue /\ SameHost(r, d)
        /\ Sum(d) <= Sum(r)
    BY <2>5, StoppedFields DEF Sound
  <2>. HIDE DEF d
  <2>7. Sum(d) <= Sum(c) + 0
    BY <2>5, <2>6, <1>1 DEF Sound
  <2>8. Waiting(d) /\ Promised(d) /\ Hears(c, d) /\ "READING" \notin d.st
    BY <2>4, <2>5, <2>6 DEF Waiting, Promised, Stuck, Hears, Heard, SameChip
  <2>9. d.works = c.works
    BY <2>5, <2>6 DEF SameHost
  <2>10. ~d.cut /\ Held(d) /\ Apart(d) /\ Queued(d) /\ Resumed(d)
    BY <2>5, <2>6 DEF Sound, SameHost, Held, Apart, Queued, Resumed, Busy
  <2>. QED
    BY <2>6, <2>7, <2>8, <2>10, <2>9 DEF Steps, CamInv, d, r, off, on
<1>. QED
  BY <1>2, <1>3

\* The readout ends, and the next exposure is begun before the chip is free.
LEMMA ReadoutEndsAction ==
  ASSUME FrameTransfer = FALSE, NEW b, CamInv(b), "READING" \in b.st,
         NEW w \in BOOLEAN
  PROVE  LET c == [b EXCEPT !.works = w]
         IN  Steps(b, Settled(maskState(endReadout(c), {"READING"}, {})), 0)
<1>. DEFINE c == [b EXCEPT !.works = w]
            d == endReadout(c)
            off == {"READING"}
            on == {}
            m == Masked(d, off, on)
            r == maskState(d, off, on)
<1>1. c \in Camera /\ Alike(b, c) /\ Sound(b)
  BY HardwareFields DEF CamInv, Sound
<1>2. Sound(c) /\ "READING" \in c.st /\ "EXPOSING" \notin c.st
  BY <1>1, AlikeSound DEF Alike, Sound, Apart
<1>3. off \in Words /\ on \in Words
  BY DEF Words, States
<1>. HIDE DEF c
<1>4. \A y \in Camera : Sum(y) \in Int
  BY DEF Sum, Camera
\* The camera before the status word changes: the next exposure has begun, or
\* was put off, or there is none.
<1>5. /\ d \in Camera /\ ~d.cut /\ Sum(d) <= Sum(c) /\ Hears(c, d)
      /\ Held(d) /\ Resumed(d) /\ Queued(d)
      /\ PutOff(d) \/ d.n = 0 \/ d.conn = NoConn
  <2>1. CASE c.n > 0 /\ c.conn # NoConn
    <3>. DEFINE e == ExposureFree(c, c.conn)
                chip == c.st \cap {"EXPOSING"}
    <3>1. d = camExpose(c, c.conn, chip, TRUE)
      BY <2>1 DEF endReadout
    <3>2. ~InUse(c, chip, TRUE)
      BY <1>2 DEF InUse
    <3>3. c.conn \in Clients \cup {NoConn}
      BY <1>1 DEF Camera
    <3>4. Put(e, d)
      BY <3>1, <3>2, <3>3, <1>1, <1>2, ExposeFree
    <3>5. /\ e \in Camera /\ e.st = c.st /\ e.que = c.que /\ e.bop = c.bop
          /\ e.waitQue = c.waitQue /\ e.cut = c.cut /\ Sum(e) = Sum(c) - 1
      BY <3>3, <2>1, <1>1, FreeFields
    <3>. HIDE DEF d, e
    <3>6. d \in Camera /\ Sum(d) <= Sum(c)
      BY <3>4, <3>5, <1>1, <1>4 DEF Put
    <3>7. ~d.cut /\ Hears(c, d) /\ Held(d) /\ Resumed(d) /\ PutOff(d)
      BY <3>4, <3>5, <1>2 DEF Put, SameHost, Hears, Heard, Sound, Resumed
    <3>8. Queued(d)
      BY <3>4, <3>5, <1>2 DEF Put, Queued, Busy
    <3>. QED
      BY <3>6, <3>7, <3>8
  <2>2. CASE ~(c.n > 0 /\ c.conn # NoConn)
    <3>1. d = c
      BY <2>2 DEF endReadout
    <3>2. c.n \in Nat
      BY <1>1 DEF Camera
    <3>. QED
      BY <3>1, <3>2, <2>2, <1>1, <1>2, <1>4, CarriesReflexive DEF Sound, Carries
  <2>. QED
    BY <2>1, <2>2
<1>. HIDE DEF d, off, on
<1>6. MaskOf(d, off, on, m)
  BY <1>3, <1>5, MaskedFields
<1>. HIDE DEF m
<1>7. m.st = (d.st \ off) \cup on /\ SameRest(d, m) /\ m.failed = d.failed
  BY <1>6 DEF MaskOf
<1>8. Held(m) /\ Apart(m) /\ "READING" \notin m.st
      /\ ("EXPOSING" \in d.st => "EXPOSING" \in m.st)
  BY <1>5, <1>7 DEF off, on, Held, Apart
<1>9. Waiting(m) /\ Promised(m)
  BY <1>5, <1>7, <1>8
     DEF Waiting, Promised, Stuck, Busy, PutOff, SameRest, SameHost
<1>10. /\ Sound(r) /\ Hears(d, r) /\ Sum(r) <= Sum(d) /\ SameChip(m, r)
       /\ Waiting(r) /\ Promised(r)
  BY <1>3, <1>5, <1>8, <1>9, MaskSound DEF m
<1>. HIDE DEF r
<1>11. Steps(c, r, 0)
  <2>1. Sum(r) <= Sum(c) + 0
    BY <1>1, <1>4, <1>5, <1>10 DEF Sound
  <2>2. Hears(c, r) /\ "READING" \notin r.st
    BY <1>5, <1>8, <1>10 DEF Hears, SameChip
  <2>. QED
    BY <2>1, <2>2, <1>10 DEF Steps, CamInv, Sound
<1>12. Settled(r) \in Camera /\ Alike(r, Settled(r))
  BY <1>10, SettledFields DEF Sound
<1>. QED
  BY <1>1, <1>11, <1>12, AlikeSteps DEF c, d, r, off, on

\* The filter stands still.
LEMMA StillFields ==
  ASSUME NEW c \in Camera
  PROVE  LET d == [c EXCEPT !.moving = FALSE]
         IN  /\ d \in Camera /\ d.st = c.st /\ d.que = c.que /\ d.bop = c.bop
             /\ d.n = c.n /\ d.waitQue = c.waitQue /\ SameHost(c, d)
             /\ Sum(d) = Sum(c)
<1>. DEFINE d == [c EXCEPT !.moving = FALSE]
<1>1. d \in Camera
  BY DEF Camera
<1>2. \A f \in {"st", "que", "bop", "waitQue", "num", "n", "works", "cut",
                "conn"} : d[f] = c[f]
  BY DEF Camera
<1>. HIDE DEF d
<1>3. Sum(d) = Sum(c) /\ SameHost(c, d)
  BY <1>2 DEF Sum, SameHost
<1>. QED
  BY <1>1, <1>2, <1>3 DEF d

\* One exposure is taken from the count, to be tried again.
LEMMA TakenFields ==
  ASSUME NEW c \in Camera, c.n > 0
  PROVE  LET d == [c EXCEPT !.n = @ - 1]
         IN  /\ d \in Camera /\ d.st = c.st /\ d.que = c.que /\ d.bop = c.bop
             /\ d.waitQue = c.waitQue /\ SameHost(c, d) /\ Sum(d) = Sum(c) - 1
<1>. DEFINE d == [c EXCEPT !.n = @ - 1]
<1>1. c.n \in Nat /\ c.num \in Nat /\ c.n - 1 \in Nat
  BY DEF Camera
<1>2. d \in Camera /\ d.n = c.n - 1
  BY <1>1 DEF Camera
<1>3. \A f \in {"st", "que", "bop", "waitQue", "num", "works", "cut", "conn"} :
         d[f] = c[f]
  BY DEF Camera
<1>. HIDE DEF d
<1>4. Sum(d) = Sum(c) - 1 /\ SameHost(c, d)
  BY <1>1, <1>2, <1>3 DEF Sum, SameHost
<1>. QED
  BY <1>2, <1>3, <1>4 DEF d

\* The filter has moved.
LEMMA FilterMoveEndAction ==
  ASSUME FrameTransfer = FALSE, NEW b, CamInv(b), NEW w \in BOOLEAN
  PROVE  LET c == [[b EXCEPT !.works = w] EXCEPT !.moving = FALSE]
         IN  Steps(b, Settled(checkQueuedExposures(c)), 0)
<1>. DEFINE a == [b EXCEPT !.works = w]
            c == [a EXCEPT !.moving = FALSE]
            d == checkQueuedExposures(c)
<1>1. a \in Camera /\ Alike(b, a) /\ Sound(b)
  BY HardwareFields DEF CamInv, Sound
<1>2. Sound(a)
  BY <1>1, AlikeSound
<1>. HIDE DEF a
<1>3. /\ c \in Camera /\ c.st = a.st /\ c.que = a.que /\ c.bop = a.bop
      /\ c.n = a.n /\ c.waitQue = a.waitQue /\ SameHost(a, c) /\ Sum(c) = Sum(a)
  BY <1>1, StillFields
<1>. HIDE DEF c
<1>4. \A y \in Camera : Sum(y) \in Int
  BY DEF Sum, Camera
\* The filter no longer promises anything, but the exposure is tried again.
<1>5. /\ CamInv(d) /\ Promised(d) /\ Sum(d) <= Sum(a) /\ Hears(a, d)
      /\ "READING" \in d.st /\ "window" \in a.que => "window" \in d.que
  <2>1. CASE c.n > 0
    <3>. DEFINE e == [c EXCEPT !.n = @ - 1]
    <3>1. /\ e \in Camera /\ e.st = c.st /\ e.que = c.que /\ e.bop = c.bop
          /\ e.waitQue = c.waitQue /\ SameHost(c, e) /\ Sum(e) = Sum(c) - 1
      BY <1>3, <2>1, TakenFields
    <3>2. d = camExpose(e, c.conn, c.st, FALSE)
      BY <2>1 DEF checkQueuedExposures
    <3>. HIDE DEF e
    <3>3. Sound(e)
      BY <3>1, <1>2, <1>3
         DEF Sound, Held, Apart, Queued, Resumed, Busy, SameHost
    <3>4. c.conn \in Clients \cup {NoConn}
      BY <1>3 DEF Camera
    <3>5. d = camExpose(e, c.conn, e.st, FALSE)
      BY <3>1, <3>2
    <3>. HIDE DEF d
    <3>6. Steps(e, d, 1) /\ Promised(d)
      BY <3>3, <3>4, <3>5, ExposeSteps
    <3>7. Sum(d) <= Sum(a)
      BY <3>1, <3>6, <1>1, <1>3, <1>4 DEF Steps, CamInv
    <3>8. Hears(a, d)
      BY <3>1, <3>6, <1>3 DEF Steps, Hears, Heard
    <3>. QED
      BY <3>1, <3>6, <3>7, <3>8, <1>3 DEF Steps
  <2>2. CASE ~(c.n > 0)
    <3>1. d = c
      BY <2>2 DEF checkQueuedExposures
    <3>. HIDE DEF d
    <3>2. Waiting(d) /\ Promised(d)
      BY <3>1, <2>2 DEF Waiting, Promised, Stuck
    <3>3. ~d.cut /\ Held(d) /\ Apart(d) /\ Queued(d) /\ Resumed(d) /\ Hears(a, d)
      BY <3>1, <1>2, <1>3
         DEF Sound, Held, Apart, Queued, Resumed, Busy, SameHost, Hears, Heard
    <3>. QED
      BY <3>1, <3>2, <3>3, <1>1, <1>3, <1>4 DEF CamInv
  <2>. QED
    BY <2>1, <2>2
<1>. HIDE DEF d
<1>6. Steps(a, d, 0)
  BY <1>1, <1>4, <1>5 DEF Steps, CamInv
<1>7. Settled(d) \in Camera /\ Alike(d, Settled(d))
  BY <1>5, SettledFields DEF CamInv
<1>. QED
  BY <1>1, <1>6, <1>7, AlikeSteps DEF a, c, d

\* The command stopexpo
LEMMA StopExposureAction ==
  ASSUME FrameTransfer = FALSE, NEW c, CamInv(c)
  PROVE  LET d == maskState(stopExposure(c), Off, {})
         IN  Steps(c, d, 0) /\ d.works = c.works
<1>. DEFINE s == stopExposure(c)
            d == maskState(s, Off, {})
<1>1. c \in Camera /\ \A y \in Camera : Sum(y) \in Int
  BY DEF CamInv, Sum, Camera
<1>2. /\ s \in Camera /\ s.n = 0 /\ s.st = c.st /\ s.que = c.que
      /\ s.bop = c.bop /\ s.waitQue = c.waitQue /\ SameHost(c, s)
      /\ Sum(s) <= Sum(c)
  BY <1>1, StoppedFields
<1>. HIDE DEF s
<1>3. Queued(s) /\ Resumed(s) /\ ~s.cut
  BY <1>2 DEF CamInv, Queued, Resumed, Busy, SameHost
<1>4. Steps(s, d, 0) /\ "READING" \notin d.st /\ Promised(d) /\ SameHost(s, d)
  BY <1>2, <1>3, StopSteps
<1>. HIDE DEF d
<1>5. Sum(d) <= Sum(c) + 0
  BY <1>1, <1>2, <1>4 DEF Steps, CamInv
<1>6. Hears(c, d)
  BY <1>2, <1>4 DEF Steps, Hears, Heard
<1>. QED
  BY <1>2, <1>4, <1>5, <1>6 DEF Steps, SameHost, d, s

\* Nothing is waited for.
LEMMA KilledFields ==
  ASSUME NEW c \in Camera
  PROVE  LET d == [stopExposure(c) EXCEPT !.waitBop = FALSE, !.waitQue = FALSE,
                                          !.moving = FALSE]
         IN  /\ d \in Camera /\ d.n = 0 /\ d.waitQue = FALSE /\ d.st = c.st
             /\ d.que = c.que /\ d.bop = c.bop /\ d.cut = c.cut
             /\ d.works = c.works /\ Sum(d) <= Sum(c)
<1>. DEFINE s == stopExposure(c)
            d == [s EXCEPT !.waitBop = FALSE, !.waitQue = FALSE, !.moving = FALSE]
<1>1. /\ s \in Camera /\ s.n = 0 /\ s.st = c.st /\ s.que = c.que
      /\ s.bop = c.bop /\ s.waitQue = c.waitQue /\ SameHost(c, s)
      /\ Sum(s) <= Sum(c)
  BY StoppedFields
<1>. HIDE DEF s
<1>2. d \in Camera /\ d.waitQue = FALSE
  BY <1>1 DEF Camera
<1>3. \A f \in {"st", "que", "bop", "num", "n", "cut", "works"} : d[f] = s[f]
  BY <1>1 DEF Camera
<1>4. s.n \in Nat /\ s.num \in Nat /\ Sum(s) \in Int /\ Sum(c) \in Int
  BY <1>1 DEF Sum, Camera
<1>. HIDE DEF d
<1>5. Sum(d) <= Sum(c)
  BY <1>1, <1>2, <1>3, <1>4 DEF Sum
<1>. QED
  BY <1>1, <1>2, <1>3, <1>5 DEF d, s, SameHost

\* The changes that are left are dropped.
LEMMA EmptiedFields ==
  ASSUME NEW c \in Camera, c.n = 0
  PROVE  LET d == deviceKillAll(c)
         IN  /\ d \in Camera /\ d.n = 0 /\ d.que = {} /\ d.st = c.st
             /\ d.bop = c.bop /\ d.waitQue = c.waitQue /\ d.cut = c.cut
             /\ d.works = c.works /\ Sum(d) = Sum(c)
<1>. DEFINE d == deviceKillAll(c)
<1>1. d = [c EXCEPT !.que = {}, !.n = 0]
  BY DEF deviceKillAll
<1>2. d \in Camera /\ d.n = 0 /\ d.que = {}
  BY <1>1 DEF Camera
<1>3. \A f \in {"st", "bop", "num", "waitQue", "cut", "works"} : d[f] = c[f]
  BY <1>1 DEF Camera
<1>. HIDE DEF d
<1>4. Sum(d) = Sum(c)
  BY <1>2, <1>3 DEF Sum
<1>. QED
  BY <1>2, <1>3, <1>4 DEF d

\* killAll: all changes that were queued are made or dropped, so none is left when
\* the word says that the camera does nothing.
LEMMA KillAllAction ==
  ASSUME FrameTransfer = FALSE, NEW c, CamInv(c)
  PROVE  LET s == [stopExposure(c) EXCEPT !.waitBop = FALSE, !.waitQue = FALSE,
                                          !.moving = FALSE]
             d == deviceKillAll(maskState(s, Off, {}))
         IN  Steps(c, d, 0) /\ d.works = c.works
<1>. DEFINE s == [stopExposure(c) EXCEPT !.waitBop = FALSE, !.waitQue = FALSE,
                                         !.moving = FALSE]
            r == maskState(s, Off, {})
            d == deviceKillAll(r)
<1>1. c \in Camera /\ \A y \in Camera : Sum(y) \in Int
  BY DEF CamInv, Sum, Camera
<1>2. /\ s \in Camera /\ s.n = 0 /\ s.waitQue = FALSE /\ s.st = c.st
      /\ s.que = c.que /\ s.bop = c.bop /\ s.cut = c.cut
      /\ s.works = c.works /\ Sum(s) <= Sum(c)
  BY <1>1, KilledFields
<1>. HIDE DEF s
<1>3. Queued(s) /\ Resumed(s) /\ ~s.cut
  BY <1>2 DEF CamInv, Queued, Resumed, Busy
<1>4. /\ Steps(s, r, 0) /\ "READING" \notin r.st /\ "EXPOSING" \notin r.st
      /\ Idle(r) /\ SameHost(s, r)
  BY <1>2, <1>3, StopSteps
<1>. HIDE DEF r
<1>5. r \in Camera /\ r.n = 0 /\ ~r.waitQue /\ r.que = {} /\ ~r.cut
  BY <1>4 DEF Idle, Steps, CamInv, Queued, Busy
<1>6. /\ d \in Camera /\ d.n = 0 /\ d.que = {} /\ d.st = r.st
      /\ d.bop = r.bop /\ d.waitQue = r.waitQue /\ d.cut = r.cut
      /\ d.works = r.works /\ Sum(d) = Sum(r)
  BY <1>5, EmptiedFields
<1>. HIDE DEF d
<1>7. Sum(d) <= Sum(c) + 0
  BY <1>1, <1>2, <1>4, <1>5, <1>6 DEF Steps
<1>8. Hears(c, d)
  BY <1>2, <1>4, <1>5, <1>6 DEF Steps, Hears, Heard
<1>9. /\ Held(d) /\ Apart(d) /\ Queued(d) /\ Resumed(d) /\ Waiting(d)
      /\ Promised(d)
  BY <1>4, <1>5, <1>6
     DEF Held, Apart, Queued, Resumed, Waiting, Promised, Stuck, Busy
<1>10. d.works = c.works
  BY <1>2, <1>4, <1>6 DEF SameHost
<1>. QED
  BY <1>10, <1>4, <1>5, <1>6, <1>7, <1>8, <1>9 DEF Steps, CamInv, d, r, s

\* A script ends.
LEMMA ScriptEndsAction ==
  ASSUME FrameTransfer = FALSE, NEW b, CamInv(b)
  PROVE  LET c == [b EXCEPT !.n = 0]
             d == checkQueChanges(c, c.st)
         IN  /\ Steps(b, c, 0) /\ c.works = b.works
             /\ Steps(b, d, 0) /\ d.works = b.works
<1>. DEFINE c == [b EXCEPT !.n = 0]
            d == checkQueChanges(c, c.st)
<1>1. b \in Camera /\ \A y \in Camera : Sum(y) \in Int
  BY DEF CamInv, Sum, Camera
<1>2. /\ c \in Camera /\ c.n = 0 /\ c.st = b.st /\ c.que = b.que
      /\ c.bop = b.bop /\ c.waitQue = b.waitQue /\ SameHost(b, c)
      /\ Sum(c) <= Sum(b)
  BY <1>1, StoppedFields DEF stopExposure
<1>. HIDE DEF c
<1>3. /\ ~c.cut /\ Held(c) /\ Apart(c) /\ Queued(c) /\ Resumed(c)
      /\ Waiting(c) /\ Promised(c) /\ Hears(b, c)
  BY <1>2 DEF CamInv, SameHost, Held, Apart, Queued, Resumed, Waiting, Promised,
              Stuck, Busy, Hears, Heard
<1>4. Steps(b, c, 0)
  BY <1>1, <1>2, <1>3 DEF Steps, CamInv
<1>5. Goes(c, d) /\ Hears(c, d) /\ Queued(d)
  BY <1>2, CheckQue DEF Carries
<1>. HIDE DEF d
<1>6. Sum(d) <= Sum(b) + 0
  BY <1>1, <1>2, <1>5 DEF Goes
<1>7. ~d.cut /\ Apart(d) /\ Hears(b, d)
  BY <1>2, <1>3, <1>5 DEF Goes, SameHost, SameChip, Apart, Hears, Heard
<1>8. "READING" \in d.st /\ "window" \in b.que => "window" \in d.que
  BY <1>2, <1>5 DEF Goes, SameChip, FewerQueued
<1>9. Steps(b, d, 0)
  BY <1>3, <1>5, <1>6, <1>7, <1>8 DEF Steps, CamInv, Goes
<1>10. c.works = b.works /\ d.works = b.works
  BY <1>2, <1>5 DEF Goes, SameHost
<1>. QED
  BY <1>4, <1>9, <1>10 DEF c, d

\* A client is lost.
LEMMA DeleteConnectionAction ==
  ASSUME NEW c, CamInv(c), NEW x \in Clients
  PROVE  LET d == [c EXCEPT !.conn = IF @ = x THEN NoConn ELSE @, !.owes[x] = 0]
         IN  Steps(c, d, 0) /\ d.works = c.works
<1>. DEFINE conn == IF c.conn = x THEN NoConn ELSE c.conn
            owes == [c.owes EXCEPT ![x] = 0]
            d == [c EXCEPT !.conn = IF @ = x THEN NoConn ELSE @, !.owes[x] = 0]
<1>1. c \in Camera /\ Sum(c) \in Int
  BY DEF CamInv, Sum, Camera
<1>2. conn \in Clients \cup {NoConn} /\ owes \in [Clients -> Int]
  BY <1>1 DEF Camera
<1>3. d = [c EXCEPT !.conn = conn, !.owes = owes]
  BY <1>1 DEF Camera
<1>4. conn # NoConn => c.conn # NoConn
  OBVIOUS
<1>. HIDE DEF conn, owes, d
<1>5. d \in Camera /\ d.conn = conn
  BY <1>1, <1>2, <1>3 DEF Camera
<1>6. \A f \in {"st", "que", "bop", "cut", "failed", "n", "num", "waitQue",
                "waitBop", "moving", "asks", "works"} : d[f] = c[f]
  BY <1>1, <1>3 DEF Camera
<1>7. Sum(d) <= Sum(c) + 0
  BY <1>1, <1>6 DEF Sum
<1>8. ~d.cut /\ Held(d) /\ Apart(d) /\ Queued(d) /\ Resumed(d) /\ Hears(c, d)
  BY <1>6 DEF CamInv, Held, Apart, Queued, Resumed, Busy, Hears, Heard
<1>9. Waiting(d) /\ (Promised(c) => Promised(d))
  BY <1>4, <1>5, <1>6 DEF CamInv, Waiting, Promised, Stuck, Busy
<1>. QED
  BY <1>5, <1>6, <1>7, <1>8, <1>9 DEF Steps, CamInv, d

\* centrald has answered, and its answer is in the line.
LEMMA AnsweredFields ==
  ASSUME NEW c, CamInv(c), c.asks > 0
  PROVE  LET d == [c EXCEPT !.asks = @ - 1]
         IN  /\ CamInv(d) /\ Sum(d) = Sum(c) /\ d.works = c.works
             /\ d.st = c.st /\ d.que = c.que /\ d.bop = c.bop
<1>. DEFINE d == [c EXCEPT !.asks = @ - 1]
<1>1. c \in Camera /\ c.asks - 1 \in Nat
  BY DEF CamInv, Camera
<1>2. d \in Camera
  BY <1>1 DEF Camera
<1>3. \A f \in {"st", "que", "bop", "cut", "failed", "n", "num", "waitQue",
                "waitBop", "moving", "conn", "works"} : d[f] = c[f]
  BY <1>1 DEF Camera
<1>. HIDE DEF d
<1>4. Sum(d) = Sum(c)
  BY <1>3 DEF Sum
<1>5. CamInv(d)
  BY <1>2, <1>3
     DEF CamInv, Held, Apart, Queued, Resumed, Waiting, Stuck, Busy
<1>. QED
  BY <1>3, <1>4, <1>5 DEF d

\* centrald has read a word of the camera, and its message is in the line.
LEMMA ReadFields ==
  ASSUME NEW c, CamInv(c)
  PROVE  LET d == [c EXCEPT !.news = FALSE]
         IN  /\ CamInv(d) /\ Sum(d) = Sum(c) /\ d.works = c.works
             /\ d.st = c.st /\ d.que = c.que
<1>. DEFINE d == [c EXCEPT !.news = FALSE]
<1>1. c \in Camera
  BY DEF CamInv
<1>2. d \in Camera
  BY <1>1 DEF Camera
<1>3. \A f \in {"st", "que", "bop", "cut", "failed", "n", "num", "waitQue",
                "waitBop", "moving", "conn", "works", "asks"} : d[f] = c[f]
  BY <1>1 DEF Camera
<1>. HIDE DEF d
<1>4. Sum(d) = Sum(c)
  BY <1>3 DEF Sum
<1>5. CamInv(d)
  BY <1>2, <1>3
     DEF CamInv, Held, Apart, Queued, Resumed, Waiting, Stuck, Busy
<1>. QED
  BY <1>3, <1>4, <1>5 DEF d

\* A BOP state that is read makes known what the camera may wait for.
LEMMA ReadBopAction ==
  ASSUME FrameTransfer = FALSE, NEW b, CamInv(b), NEW w \in BOOLEAN,
         NEW new \in Bop
  PROVE  LET d == Settled(setFullBopState([b EXCEPT !.works = w], new))
         IN  /\ CamInv(d) /\ Sum(d) <= Sum(b) /\ Promised(d) /\ Heard(d, new)
             /\ "READING" \in d.st /\ "window" \in b.que => "window" \in d.que
<1>. DEFINE a == [b EXCEPT !.works = w]
            c == setFullBopState(a, new)
            d == Settled(c)
<1>1. a \in Camera /\ Alike(b, a) /\ Sound(b)
  BY HardwareFields DEF CamInv, Sound
<1>2. Sound(a) /\ Waiting(a)
  BY <1>1, AlikeSound DEF Alike, CamInv, Waiting, Stuck, Busy
<1>. HIDE DEF a
<1>3. Goes(a, c) /\ Heard(c, new) /\ c.que = a.que /\ Waiting(c) /\ Promised(c)
  BY <1>2, FullBop DEF Sound, Queued, Goes
<1>. HIDE DEF c
<1>4. d \in Camera /\ Alike(c, d)
  BY <1>3, SettledFields DEF Goes
<1>. HIDE DEF d
<1>5. Held(c) /\ Apart(c) /\ Queued(c) /\ Resumed(c) /\ ~c.cut
  BY <1>2, <1>3 DEF Goes, Sound, SameHost, SameChip, Apart, Queued, Busy
<1>6. CamInv(d) /\ Promised(d) /\ Heard(d, new)
  BY <1>3, <1>4, <1>5
     DEF Alike, CamInv, Held, Apart, Queued, Resumed, Waiting, Promised, Heard,
         Stuck, Busy
<1>7. Sum(d) <= Sum(b)
  BY <1>1, <1>3, <1>4 DEF Alike, Goes
<1>8. d.que = b.que
  BY <1>1, <1>3, <1>4 DEF Alike
<1>. QED
  BY <1>6, <1>7, <1>8 DEF a, c, d

-----------------------------------------------------------------------------
(***************************************************************************)
(* The theorems.                                                           *)
(***************************************************************************)
\* What every step keeps, and what WindowKept says of it.
Kept == "window" \in cam.que /\ "window" \notin cam'.que => "READING" \notin cam'.st

\* A step of the camera alone keeps the invariant.
LEMMA StepsKeep ==
  ASSUME IInv, NEW k \in {0, 1}, Steps(cam, cam', k), cam'.works,
         line' = line, blockers' = blockers, silent' = silent,
         asked' = asked + k, asked' <= MaxAsked
  PROVE  IInv' /\ Kept
<1>1. /\ cam \in Camera /\ asked \in Nat /\ MaxAsked \in Nat
      /\ blockers \in SUBSET Bits
  BY BoundsAssumption DEF IInv, TypeOK
<1>2. CamInv(cam') /\ Kept
  BY DEF Steps, Kept
<1>3. cam' \in Camera /\ ~cam'.cut
  BY <1>2 DEF CamInv
<1>4. Sum(cam) \in Int /\ Sum(cam') \in Int
  BY <1>1, <1>3 DEF Sum, Camera
<1>5. TypeOK'
  BY <1>1, <1>3 DEF IInv, TypeOK
<1>6. Sum(cam') <= asked'
  BY <1>1, <1>4 DEF IInv, Steps
<1>7. blockers \in SUBSET {"EXPOSURE", "TRIG"}
  BY <1>1, BitsAssumption
<1>8. LineInv'
  BY <1>7 DEF IInv, LineInv, Steps, Hears
<1>. QED
  BY <1>2, <1>5, <1>6, <1>8 DEF IInv

\* The hardware that has been asked answers no more.
LEMMA SettledWorks ==
  ASSUME NEW d, Settled(d) \in Camera
  PROVE  Settled(d).works
BY DEF Settled, Camera

\* Every action keeps the invariant and the window.
LEMMA NextKeeps ==
  ASSUME FrameTransfer = FALSE, IInv, Next
  PROVE  IInv' /\ Kept
<1>1. /\ CamInv(cam) /\ cam \in Camera /\ cam.works
      /\ asked \in 0 .. MaxAsked /\ MaxAsked \in Nat /\ MaxLine \in Nat
      /\ line \in Seq(SUBSET Bits) /\ blockers \in SUBSET Bits
  BY BoundsAssumption DEF IInv, TypeOK
<1>2. ASSUME UNCHANGED <<line, blockers, asked, silent>>, Steps(cam, cam', 0), cam'.works
      PROVE  IInv' /\ Kept
  <2>1. asked' = asked + 0 /\ asked' <= MaxAsked
    BY <1>1, <1>2
  <2>. QED
    BY <1>2, <2>1, StepsKeep
<1>3. ASSUME NEW x \in Clients, NEW care \in BOOLEAN, Expose(x, care)
      PROVE  IInv' /\ Kept
  <2>1. PICK w \in BOOLEAN :
          LET b == Asking([cam EXCEPT !.works = w], x, care)
          IN  cam' = Settled(Told(b, camExpose(b, x, b.st, FALSE), x))
    BY <1>3 DEF Expose, Hardware
  <2>2. Steps(cam, cam', 1)
    BY <1>1, <2>1, ExposeAction
  <2>3. cam'.works
    <3>1. \A d : Settled(d) \in Camera => Settled(d).works
      BY DEF Settled, Camera
    <3>. QED
      BY <2>1, <2>2, <3>1 DEF Steps, CamInv
  <2>4. asked' = asked + 1 /\ asked' <= MaxAsked /\ UNCHANGED <<line, blockers, silent>>
    BY <1>1, <1>3 DEF Expose
  <2>. QED
    BY <2>2, <2>3, <2>4, StepsKeep
<1>4. ASSUME NEW x \in Clients, DeleteConnection(x)
      PROVE  IInv' /\ Kept
  BY <1>1, <1>2, <1>4, DeleteConnectionAction DEF DeleteConnection
<1>5. ASSUME NEW k \in Kinds, SetValue(k)
      PROVE  IInv' /\ Kept
  BY <1>1, <1>2, <1>5, SetValueAction DEF SetValue
<1>6. CASE ExposureEnds
  <2>1. PICK w \in BOOLEAN :
          LET c == [cam EXCEPT !.works = w]
          IN  cam' = Settled(ExposureOver(c, endExposure(c)))
    BY <1>6 DEF ExposureEnds, Hardware
  <2>2. Steps(cam, cam', 0)
    BY <1>1, <2>1, ExposureEndsAction
  <2>. QED
    BY <1>2, <1>6, <2>1, <2>2, SettledWorks DEF ExposureEnds, Steps, CamInv
<1>7. CASE ExposureFails
  BY <1>1, <1>2, <1>7, ExposureFailsAction DEF ExposureFails
<1>8. CASE ReadoutEnds
  <2>1. PICK w \in BOOLEAN :
          LET c == [cam EXCEPT !.works = w]
          IN  cam' = Settled(maskState(endReadout(c), {"READING"}, {}))
    BY <1>8 DEF ReadoutEnds, Hardware
  <2>2. Steps(cam, cam', 0)
    BY <1>1, <1>8, <2>1, ReadoutEndsAction DEF ReadoutEnds
  <2>. QED
    BY <1>2, <1>8, <2>1, <2>2, SettledWorks DEF ReadoutEnds, Steps, CamInv
<1>9. CASE FilterMoveEnd
  <2>1. PICK w \in BOOLEAN :
          LET c == [cam EXCEPT !.works = w]
          IN  cam' = Settled(checkQueuedExposures([c EXCEPT !.moving = FALSE]))
    BY <1>9 DEF FilterMoveEnd, Hardware
  <2>2. Steps(cam, cam', 0)
    BY <1>1, <2>1, FilterMoveEndAction
  <2>. QED
    BY <1>2, <1>9, <2>1, <2>2, SettledWorks DEF FilterMoveEnd, Steps, CamInv
<1>10. CASE KillAll
  BY <1>1, <1>2, <1>10, KillAllAction DEF KillAll
<1>11. CASE StopExposure
  BY <1>1, <1>2, <1>11, StopExposureAction DEF StopExposure
<1>12. CASE ScriptEnds
  BY <1>1, <1>2, <1>12, ScriptEndsAction DEF ScriptEnds
<1>13. CASE BlockersChange
  <2>1. /\ blockers' \in SUBSET Bits /\ line' = Append(line, blockers')
        /\ cam' = cam /\ asked' = asked /\ silent' = silent
    BY <1>13 DEF BlockersChange
  <2>2. /\ line' \in Seq(SUBSET Bits) /\ line' # << >>
        /\ line'[Len(line')] = blockers'
    BY <1>1, <2>1
  <2>. QED
    BY <2>1, <2>2 DEF IInv, TypeOK, LineInv, Kept
<1>14. CASE CentraldAnswers
  <2>1. /\ cam.asks > 0 /\ cam' = [cam EXCEPT !.asks = @ - 1]
        /\ Answered \/ AnsweredPlainly
        /\ blockers' = blockers /\ asked' = asked
    BY <1>14 DEF CentraldAnswers
  <2>2. /\ CamInv(cam') /\ Sum(cam') = Sum(cam) /\ cam'.works = cam.works
        /\ cam'.st = cam.st /\ cam'.que = cam.que /\ cam'.bop = cam.bop
    BY <1>1, <2>1, AnsweredFields
  <2>3. CASE Answered
    <3>1. /\ line' \in Seq(SUBSET Bits) /\ line' # << >>
          /\ line'[Len(line')] = blockers'
      BY <1>1, <2>1, <2>3 DEF Answered
    <3>2. silent' = silent
      BY <2>3 DEF Answered
    <3>. QED
      BY <1>1, <2>1, <2>2, <3>1, <3>2 DEF IInv, TypeOK, LineInv, Kept, CamInv
  <2>4. CASE AnsweredPlainly
    BY <1>1, <2>1, <2>2, <2>4
       DEF AnsweredPlainly, IInv, TypeOK, LineInv, Kept, CamInv, Heard
  <2>. QED
    BY <2>1, <2>3, <2>4
<1>16. CASE CentraldTells
  <2>1. /\ cam' = [cam EXCEPT !.news = FALSE]
        /\ line' = Append(line, blockers) /\ blockers' = blockers
        /\ asked' = asked /\ silent' = silent
    BY <1>16 DEF CentraldTells
  <2>2. /\ line' \in Seq(SUBSET Bits) /\ line' # << >>
        /\ line'[Len(line')] = blockers'
    BY <1>1, <2>1
  <2>3. /\ CamInv(cam') /\ Sum(cam') = Sum(cam) /\ cam'.works = cam.works
        /\ cam'.st = cam.st /\ cam'.que = cam.que
    BY <1>1, <2>1, ReadFields
  <2>. QED
    BY <1>1, <2>1, <2>2, <2>3 DEF IInv, TypeOK, LineInv, Kept, CamInv
<1>15. CASE ReadBop
  <2>1. PICK w \in BOOLEAN :
          cam' = Settled(setFullBopState([cam EXCEPT !.works = w], Head(line)))
    BY <1>15 DEF ReadBop, Hardware
  <2>2. /\ line # << >> /\ line' = Tail(line) /\ blockers' = blockers
        /\ asked' = asked
    BY <1>15 DEF ReadBop
  <2>10. silent' = FALSE
    BY <1>15 DEF ReadBop
  <2>3. Head(line) \in Bop
    <3>1. Head(line) \in SUBSET Bits
      BY <1>1, <2>2
    <3>. QED
      BY <3>1, BitsAssumption DEF Bop
  <2>4. /\ CamInv(cam') /\ Sum(cam') <= Sum(cam) /\ Promised(cam')
        /\ Heard(cam', Head(line)) /\ Kept
    BY <1>1, <2>1, <2>3, ReadBopAction DEF Kept
  <2>5. /\ cam' \in Camera /\ ~cam'.cut /\ cam'.works
    BY <2>1, <2>4, SettledWorks DEF CamInv
  <2>6. /\ Sum(cam') <= asked
    <3>1. Sum(cam) \in Int /\ Sum(cam') \in Int /\ asked \in Int
      BY <1>1, <2>5 DEF Sum, Camera
    <3>. QED
      BY <3>1, <2>4 DEF IInv
  <2>7. line' \in Seq(SUBSET Bits)
    BY <1>1, <2>2
  <2>8. IF line' = << >> THEN Head(line) = blockers
        ELSE line'[Len(line')] = blockers
    <3>1. line[Len(line)] = blockers
      BY <2>2 DEF IInv, LineInv
    <3>. QED
      BY <1>1, <2>2, <3>1, HeadTailProperties, EmptySeq
  <2>9. LineInv'
    BY <2>2, <2>4, <2>8, <2>10 DEF LineInv
  <2>. QED
    BY <1>1, <2>2, <2>4, <2>5, <2>6, <2>7, <2>9, <2>10 DEF IInv, TypeOK
<1>. QED
  BY <1>3, <1>4, <1>5, <1>6, <1>7, <1>8, <1>9, <1>10, <1>11, <1>12, <1>13,
     <1>14, <1>15, <1>16 DEF Next

\* The camera starts with nothing to do.
LEMMA InitHolds ==
  ASSUME Init
  PROVE  IInv
<1>1. /\ cam = [st |-> {}, n |-> 0, waitQue |-> FALSE, waitBop |-> FALSE,
                okLater |-> FALSE, care |-> TRUE, conn |-> NoConn, que |-> {},
                bop |-> {}, moving |-> FALSE, asks |-> 0, told |-> {},
                news |-> FALSE, num |-> 0, owes |-> [x \in Clients |-> 0], failed |-> FALSE,
                works |-> TRUE, cut |-> FALSE]
      /\ line = << >> /\ blockers = {} /\ asked = 0
  BY DEF Init
<1>9. ~silent /\ silent = FALSE
  BY DEF Init
<1>2. [x \in Clients |-> 0] \in [Clients -> Int]
  OBVIOUS
<1>3. cam \in Camera
  BY <1>1, <1>2 DEF Camera
<1>4. /\ cam.st = {} /\ cam.n = 0 /\ cam.que = {} /\ cam.bop = {}
      /\ cam.num = 0 /\ cam.waitQue = FALSE /\ cam.works /\ ~cam.cut
  BY <1>1
<1>5. << >> \in Seq(SUBSET Bits)
  OBVIOUS
<1>6. TypeOK
  <2>1. blockers \in SUBSET Bits /\ asked \in 0 .. MaxAsked
    BY <1>1, BoundsAssumption
  <2>3. silent \in BOOLEAN
    BY <1>9
  <2>2. line \in Seq(SUBSET Bits)
    BY <1>1, <1>5
  <2>. QED
    BY <1>3, <1>4, <2>1, <2>2, <2>3 DEF TypeOK
<1>7. CamInv(cam) /\ Promised(cam) /\ Heard(cam, blockers)
  BY <1>3, <1>4
     DEF CamInv, Held, Apart, Queued, Resumed, Waiting, Promised, Stuck, Heard
<1>8. Sum(cam) <= asked
  BY <1>1, <1>4 DEF Sum
<1>. QED
  BY <1>1, <1>6, <1>7, <1>8, <1>9 DEF IInv, LineInv

\* The inductive invariant holds of a camera without frame transfer.
THEOREM Invariance ==
  ASSUME FrameTransfer = FALSE
  PROVE  Spec => []IInv
<1>1. IInv /\ [Next]_vars => IInv'
  <2>. SUFFICES ASSUME IInv, [Next]_vars PROVE IInv'
    OBVIOUS
  <2>1. CASE Next
    BY <2>1, NextKeeps
  <2>2. CASE UNCHANGED vars
    BY <2>2
       DEF vars, IInv, TypeOK, CamInv, LineInv, Held, Apart, Queued, Resumed,
           Waiting, Promised, Stuck, Busy, Heard, Sum
  <2>. QED
    BY <2>1, <2>2
<1>. QED
  BY <1>1, InitHolds, PTL DEF Spec

\* TypeOK: in particular the calls in circles are never cut, so three calls deep
\* is deep enough.
THEOREM TypeCorrect ==
  ASSUME FrameTransfer = FALSE
  PROVE  Spec => []TypeOK
<1>1. IInv => TypeOK
  BY DEF IInv
<1>. QED
  BY <1>1, Invariance, PTL

\* HoldsMount: TEL_MOVE is raised before BEGIN_EXPOSURE and taken back with it, in
\* every order the methods call each other.
THEOREM MountIsHeld ==
  ASSUME FrameTransfer = FALSE
  PROVE  Spec => []HoldsMount
<1>1. IInv => HoldsMount
  BY DEF IInv, CamInv, Held, HoldsMount
<1>. QED
  BY <1>1, Invariance, PTL

\* NoneUnasked: a queued exposure moves between quedExpNumber, waitingForEmptyQue
\* and the chip, and is never in two of them.
THEOREM NoneBegunTwice ==
  ASSUME FrameTransfer = FALSE
  PROVE  Spec => []NoneUnasked
<1>1. IInv => NoneUnasked
  BY DEF IInv, Sum, Taken, NoneUnasked
<1>. QED
  BY <1>1, Invariance, PTL

\* NoneForgotten: whoever takes the last reason to wait away tells the exposure,
\* but for centrald when it answers a status_info without a BOP state.
THEOREM NoExposureForgotten ==
  ASSUME FrameTransfer = FALSE
  PROVE  Spec => []NoneForgotten
<1>1. IInv => NoneForgotten
  <2>. SUFFICES ASSUME IInv, cam.n > 0 \/ cam.waitQue, cam.conn # NoConn,
                       ~cam.failed, ~Busy(cam), ~cam.moving, ~(cam.asks > 0),
                       line = << >>, ~(silent /\ cam.waitBop)
                PROVE  blockers # {}
    BY DEF NoneForgotten, Busy, Chip
  <2>1. cam.que = {}
    BY DEF IInv, CamInv, Queued
  <2>2. cam.n > 0
    BY <2>1 DEF IInv, CamInv, Resumed
  <2>5. ~silent
    BY <2>2 DEF IInv, CamInv, Waiting, Stuck
  <2>3. cam.bop # {} /\ cam.bop \subseteq {"EXPOSURE", "TRIG"}
    BY <2>2, <2>5 DEF IInv, LineInv, Promised, Stuck, CamInv, Camera
  <2>4. Heard(cam, blockers)
    BY DEF IInv, LineInv
  <2>. QED
    BY <2>1, <2>3, <2>4 DEF Heard
<1>. QED
  BY <1>1, Invariance, PTL

\* WindowKept: checkQueChanges lets a window be changed only when the chip is not
\* read, whichever method has called it.
THEOREM WindowIsKept ==
  ASSUME FrameTransfer = FALSE
  PROVE  Spec => WindowKept
<1>1. IInv /\ [Next]_vars
        => ["window" \in cam.que /\ "window" \notin cam'.que
              => "READING" \notin cam'.st]_vars
  BY NextKeeps DEF Kept
<1>. QED
  BY <1>1, Invariance, PTL DEF Spec, WindowKept
=============================================================================
