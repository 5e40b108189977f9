--------------------------- MODULE CentraldProofs ---------------------------
(***************************************************************************)
(* Theorems about the central server, for every set of devices, every      *)
(* status word they report and every configuration.                        *)
(***************************************************************************)
EXTENDS Centrald, FiniteSetTheorems, TLAPS

-----------------------------------------------------------------------------
(***************************************************************************)
(* What the sequencing operators preserve and return.                      *)
(***************************************************************************)
\* A non-empty set of naturals has a least element: the first device that
\* stops an opening sequence exists.
LEMMA MinExists ==
  ASSUME NEW T \in SUBSET Nat, T # {}
  PROVE  \E x \in T : \A y \in T : x <= y
<1> DEFINE F == {0 .. t : t \in T}
<1>1. F \subseteq FiniteSubsetsOf(Nat)
  <2>1. ASSUME NEW t \in T PROVE IsFiniteSet(0 .. t) /\ 0 .. t \in SUBSET Nat
    <3>1. t \in Int /\ 0 \in Int
      OBVIOUS
    <3> QED BY <3>1, FS_Interval
  <2> QED BY <2>1 DEF FiniteSubsetsOf
<1>2. F # {}
  OBVIOUS
<1>3. PICK X \in F : \A Y \in F : ~(<<Y, X>> \in StrictSubsetOrdering(Nat))
  <2> HIDE DEF F
  <2> QED BY <1>1, <1>2, WFMin, FS_StrictSubsetOrderingWellFounded
<1>4. PICK x \in T : X = 0 .. x
  OBVIOUS
<1>5. ASSUME NEW y \in T, y < x PROVE FALSE
  <2>1. 0 .. y \in F
    OBVIOUS
  <2>2. 0 .. y \subseteq X /\ 0 .. y # X
    <3>1. x \in 0 .. x /\ x \notin 0 .. y
      BY <1>5
    <3> QED BY <1>4, <1>5, <3>1
  <2>3. <<0 .. y, X>> \in StrictSubsetOrdering(Nat)
    <3> HIDE DEF F
    <3> QED BY <2>1, <2>2, <1>1 DEF StrictSubsetOrdering, FiniteSubsetsOf
  <2> QED BY <1>3, <2>1, <2>3
<1> QED BY <1>5

\* A non-empty set of positions has a greatest element: so does the last
\* device that a closing sequence has to close.
LEMMA MaxExists ==
  ASSUME NEW n \in Nat, NEW T \in SUBSET (1 .. n), T # {}
  PROVE  \E x \in T : \A y \in T : y <= x
<1> DEFINE U == {n - t : t \in T}
<1>1. U \in SUBSET Nat /\ U # {}
  <2>1. \A t \in T : n - t \in Nat
    OBVIOUS
  <2>2. \E t \in T : n - t \in U
    OBVIOUS
  <2> QED BY <2>1, <2>2
<1>2. PICK u \in U : \A v \in U : u <= v
  <2> HIDE DEF U
  <2> QED BY <1>1, MinExists
<1>3. PICK x \in T : u = n - x
  OBVIOUS
<1>4. ASSUME NEW y \in T PROVE y <= x
  <2>1. n - y \in U
    OBVIOUS
  <2> QED BY <1>2, <1>3, <2>1
<1> QED BY <1>4

\* doOpen keeps the type of the sequencing record, never starts another
\* phase, and touches neither the failed devices nor the history of who
\* started the sequence.
LEMMA DoOpen ==
  ASSUME NEW cs \in [Devices -> Connection], NEW seq \in Seq(Devices),
         NEW q \in Sequencing
  PROVE  LET r == doOpen(cs, seq, q)
         IN  /\ r \in Sequencing
             /\ r.phase \in {"none", q.phase}
             /\ r.by = q.by
             /\ r.failed = q.failed
             /\ r.timers = q.timers
<1> DEFINE stops == {i \in DOMAIN seq : \/ ~Listed(cs, seq[i])
                                        \/ "open" \in cs[seq[i]].word.blocks}
           i == CHOOSE i \in stops : \A j \in stops : i <= j
           d == seq[i]
<1>1. CASE stops = {}
  <2>1. doOpen(cs, seq, q) = updateOpenClose(q)
    BY <1>1 DEF doOpen
  <2> QED BY <2>1 DEF updateOpenClose, Sequencing
<1>2. CASE stops # {}
  <2>1. stops \in SUBSET Nat
    OBVIOUS
  <2>2. i \in stops
    <3> HIDE DEF stops
    <3> QED BY <1>2, <2>1, MinExists
  <2>3. d \in Devices
    <3> HIDE DEF i
    <3>1. i \in 1 .. Len(seq)
      BY <2>2
    <3> QED BY <3>1
  <2>4. doOpen(cs, seq, q) = IF ~Listed(cs, d) THEN [q EXCEPT !.phase = "none"]
                   ELSE [q EXCEPT !.cmd = [@ EXCEPT ![d] = "open"], !.last = d]
    BY <1>2 DEF doOpen
  <2> HIDE DEF d
  <2>5. CASE ~Listed(cs, d)
    <3>1. doOpen(cs, seq, q) = [q EXCEPT !.phase = "none"]
      BY <2>4, <2>5
    <3> QED BY <3>1 DEF Sequencing
  <2>6. CASE Listed(cs, d)
    <3> DEFINE c == [q.cmd EXCEPT ![d] = "open"]
    <3>1. doOpen(cs, seq, q) = [q EXCEPT !.cmd = c, !.last = d]
      BY <2>4, <2>6
    <3>2. c \in [Devices -> {"none", "open", "close"}]
      BY DEF Sequencing
    <3> HIDE DEF c
    <3> QED BY <2>3, <3>1, <3>2 DEF Sequencing
  <2> QED BY <2>5, <2>6
<1> QED BY <1>1, <1>2

\* doClose keeps the type, never starts another phase, and forgets failed
\* devices only when it ends the sequence.
LEMMA DoClose ==
  ASSUME NEW cs \in [Devices -> Connection], NEW seq \in Seq(Devices),
         NEW q \in Sequencing
  PROVE  LET r == doClose(cs, seq, q)
         IN  /\ r \in Sequencing
             /\ r.phase \in {"none", q.phase}
             /\ r.by = q.by
             /\ \/ r.failed = q.failed
                \/ r.failed = {} /\ r.phase = "none"
<1> DEFINE stops == {i \in DOMAIN seq : /\ Listed(cs, seq[i])
                                        /\ seq[i] \notin q.failed
                                        /\ "close" \in cs[seq[i]].word.blocks}
           i == CHOOSE i \in stops : \A j \in stops : j <= i
           d == seq[i]
<1>1. CASE seq = << >>
  <2>1. doClose(cs, seq, q) = q
    BY <1>1 DEF doClose
  <2> QED BY <2>1 DEF Sequencing
<1>2. CASE seq # << >> /\ stops = {}
  <2>1. doClose(cs, seq, q) = [updateOpenClose(q) EXCEPT !.failed = {}]
    BY <1>2 DEF doClose
  <2> QED BY <2>1 DEF updateOpenClose, Sequencing
<1>3. CASE seq # << >> /\ stops # {}
  <2>1. Len(seq) \in Nat /\ stops \in SUBSET (1 .. Len(seq))
    OBVIOUS
  <2>2. i \in stops
    <3> HIDE DEF stops
    <3> QED BY <1>3, <2>1, MaxExists
  <2>3. d \in Devices
    <3> HIDE DEF i
    <3>1. i \in 1 .. Len(seq)
      BY <2>2
    <3> QED BY <3>1
  <2> DEFINE c == [q.cmd EXCEPT ![d] = "close"]
             t == IF d = q.last THEN q.timers ELSE Append(q.timers, d)
  <2>4. doClose(cs, seq, q) = [q EXCEPT !.cmd = c, !.last = d, !.timers = t]
    BY <1>3 DEF doClose
  <2> HIDE DEF d
  <2>5. c \in [Devices -> {"none", "open", "close"}] /\ t \in Seq(Devices)
    BY <2>3 DEF Sequencing
  <2> HIDE DEF c, t
  <2> QED BY <2>3, <2>4, <2>5 DEF Sequencing
<1> QED BY <1>1, <1>2, <1>3

\* stateChanged does nothing for an equal word; for any other it leaves a
\* sequence of its own that fits the new word.
LEMMA StateChanged ==
  ASSUME NEW cs \in [Devices -> Connection], NEW seq \in Seq(Devices),
         NEW q \in Sequencing, NEW old, NEW new
  PROVE  LET r == stateChanged(old, new, cs, seq, q)
         IN  /\ r \in Sequencing
             /\ new = old => r = q
             /\ new # old =>
                  /\ r.by = "state"
                  /\ r.phase = "opening" => OpenEligible(new)
                  /\ r.phase = "closing" => ~OpenEligible(new)
             /\ r.failed \subseteq q.failed
<1> DEFINE qo == [q EXCEPT !.phase = "opening", !.by = "state"]
           qc == [q EXCEPT !.phase = "closing", !.by = "state"]
<1>1. CASE new = old
  <2>1. stateChanged(old, new, cs, seq, q) = q
    BY <1>1 DEF stateChanged
  <2> QED BY <1>1, <2>1
<1>2. CASE new # old /\ OpenEligible(new)
  <2>1. stateChanged(old, new, cs, seq, q) = doOpen(cs, seq, qo)
    BY <1>2 DEF stateChanged, startOpen
  <2>2. /\ qo \in Sequencing
        /\ qo.phase = "opening" /\ qo.by = "state" /\ qo.failed = q.failed
    BY DEF Sequencing
  <2> HIDE DEF qo
  <2> QED BY <1>2, <2>1, <2>2, DoOpen
<1>3. CASE new # old /\ ~OpenEligible(new)
  <2>1. stateChanged(old, new, cs, seq, q) = doClose(cs, seq, qc)
    BY <1>3 DEF stateChanged, startClose
  <2>2. /\ qc \in Sequencing
        /\ qc.phase = "closing" /\ qc.by = "state" /\ qc.failed = q.failed
    BY DEF Sequencing
  <2> HIDE DEF qc
  <2>3. LET r == doClose(cs, seq, qc)
        IN  /\ r \in Sequencing
            /\ r.phase \in {"none", qc.phase}
            /\ r.by = qc.by
            /\ \/ r.failed = qc.failed
               \/ r.failed = {} /\ r.phase = "none"
    BY <2>2, DoClose
  <2> QED BY <1>3, <2>1, <2>2, <2>3
<1> QED BY <1>1, <1>2, <1>3

-----------------------------------------------------------------------------
(***************************************************************************)
(* The votes.                                                              *)
(***************************************************************************)
\* The state word after the votes of a handler: only the vote fields change.
LEMMA VotesState ==
  ASSUME TypeOK, NEW cs, NEW w \in BOOLEAN, NEW s \in BOOLEAN
  PROVE  /\ AfterWeather(cs, w) \in State
         /\ AfterVotes(cs, w, s) \in State
         /\ AfterVotes(cs, w, s).onoff = st.onoff
         /\ AfterVotes(cs, w, s).period = st.period
         /\ AfterVotes(cs, w, s).weather =
              IF w THEN WeatherVote(cs, required) ELSE st.weather
         /\ AfterVotes(cs, w, s).stop =
              IF s THEN StopVote(cs, required) ELSE st.stop
         /\ OpenEligible(AfterVotes(cs, w, s))
              <=> OpenEligible(AfterWeather(cs, w))
<1>1. WeatherVote(cs, required) \in {"good", "bad"}
  BY DEF WeatherVote
<1>2. StopVote(cs, required) \in {"can_move", "stop"}
  BY DEF StopVote
<1> QED BY <1>1, <1>2 DEF TypeOK, State, AfterWeather, AfterVotes, OpenEligible

\* The sequence in progress is justified by the state word s.
Fits(q, s) ==
  q.by = "state" =>
    /\ q.phase = "opening" => OpenEligible(s)
    /\ q.phase = "closing" => ~OpenEligible(s)

\* The sequencing after the votes of a handler fits the state word after them.
LEMMA VotesSequence ==
  ASSUME TypeOK, NEW cs \in [Devices -> Connection], NEW q \in Sequencing,
         NEW w \in BOOLEAN, NEW s \in BOOLEAN
  PROVE  LET r == VotesSequencing(cs, w, s, q)
         IN  /\ r \in Sequencing
             /\ Fits(q, st) => Fits(r, AfterVotes(cs, w, s))
             /\ r.failed \subseteq q.failed
<1> DEFINE s1 == AfterWeather(cs, w)
           s2 == AfterVotes(cs, w, s)
           q1 == stateChanged(st, s1, cs, openSequence, q)
           q2 == stateChanged(s1, s2, cs, openSequence, q1)
<1>1. VotesSequencing(cs, w, s, q) = q2
  BY DEF VotesSequencing
<1>2. openSequence \in Seq(Devices)
  BY DEF TypeOK
<1> HIDE DEF s1, s2
<1>3. /\ q1 \in Sequencing
      /\ s1 = st => q1 = q
      /\ s1 # st => Fits(q1, s1)
      /\ q1.failed \subseteq q.failed
  BY <1>2, StateChanged DEF Fits
<1> HIDE DEF q1
<1>4. /\ q2 \in Sequencing
      /\ s2 = s1 => q2 = q1
      /\ s2 # s1 => Fits(q2, s2)
      /\ q2.failed \subseteq q1.failed
  BY <1>2, <1>3, StateChanged DEF Fits
<1> HIDE DEF q2
<1>5. Fits(q, st) => Fits(q2, s2)
  BY <1>3, <1>4
<1> QED BY <1>1, <1>3, <1>4, <1>5 DEF s2

\* openCloseChanged continues the sequence in progress or ends it.
LEMMA OpenCloseChanged ==
  ASSUME TypeOK, NEW cs \in [Devices -> Connection], NEW q \in Sequencing,
         NEW s
  PROVE  LET r == openCloseChanged(cs, q)
         IN  /\ r \in Sequencing
             /\ Fits(q, s) => Fits(r, s)
             /\ r.failed \subseteq q.failed
<1>1. openSequence \in Seq(Devices)
  BY DEF TypeOK
<1>2. CASE q.phase = "opening"
  <2>1. openCloseChanged(cs, q) = doOpen(cs, openSequence, q)
    BY <1>2 DEF openCloseChanged
  <2> QED BY <1>1, <1>2, <2>1, DoOpen DEF Fits
<1>3. CASE q.phase = "closing"
  <2>1. openCloseChanged(cs, q) = doClose(cs, openSequence, q)
    BY <1>3 DEF openCloseChanged
  <2> DEFINE r == doClose(cs, openSequence, q)
  <2>2. /\ r \in Sequencing
        /\ r.phase \in {"none", q.phase}
        /\ r.by = q.by
        /\ \/ r.failed = q.failed
           \/ r.failed = {} /\ r.phase = "none"
    BY <1>1, DoClose
  <2> HIDE DEF r
  <2> QED BY <1>3, <2>1, <2>2 DEF Fits, r
<1>4. CASE q.phase \notin {"opening", "closing"}
  <2>1. openCloseChanged(cs, q) = q
    BY <1>4 DEF openCloseChanged
  <2> QED BY <2>1
<1> QED BY <1>2, <1>3, <1>4

-----------------------------------------------------------------------------
(***************************************************************************)
(* The inductive invariant: the invariants of the runs that speak of the   *)
(* votes and of the sequences are inductive together with TypeOK.          *)
(***************************************************************************)
IInv == /\ TypeOK
        /\ WeatherUnanimous
        /\ MoveUnanimous
        /\ WeatherExplained
        /\ SequenceJustified

\* The initial states satisfy the invariant, the one with reboot_on included.
LEMMA InitIInv == Init => IInv
<1> SUFFICES ASSUME Init PROVE IInv
  OBVIOUS
<1> DEFINE cs == [d \in Devices |-> Unlisted]
           s0 == [onoff |-> "hard_off", period |-> DAY,
                  weather |-> "bad", stop |-> "can_move"]
           q0 == [phase |-> "none", last |-> NoDevice, failed |-> {},
                  timers |-> << >>, cmd |-> [d \in Devices |-> "none"],
                  by |-> "state"]
<1>1. Unlisted \in Connection
  BY DEF Unlisted, Connection, InitWord, Word
<1>2. cs \in [Devices -> Connection]
  BY <1>1
<1>3. required \in SUBSET Devices /\ openSequence \in Seq(Devices)
  BY ConfigsAssumption DEF Init
<1>4. q0 \in Sequencing
  BY DEF Sequencing
<1>5. PICK onoff \in {"on", "hard_off"} :
        /\ st = [s0 EXCEPT !.onoff = onoff]
        /\ oc = stateChanged(s0, [s0 EXCEPT !.onoff = onoff], cs, openSequence, q0)
  BY DEF Init
<1>6. st \in State /\ st.weather = "bad" /\ ~OpenEligible(st)
  BY <1>5 DEF State, OnOff, DAY, MORNING, OpenEligible
<1>7. oc \in Sequencing /\ Fits(oc, st)
  <2> DEFINE s1 == [s0 EXCEPT !.onoff = onoff]
  <2>1. s1 = st
    BY <1>5
  <2> HIDE DEF cs, s0, s1
  <2>2. Fits(q0, st)
    BY DEF Fits
  <2>3. q0.phase = "none"
    OBVIOUS
  <2> HIDE DEF q0
  <2> QED BY <1>2, <1>3, <1>4, <1>5, <2>1, <2>2, StateChanged DEF Fits, s1
<1>8. sun \in DAY .. MORNING /\ nextType \in DAY .. MORNING
  BY PeriodsAssumption DEF Init, NextPeriod, DAY, DUSK, NIGHT, DAWN, MORNING
<1>9. TypeOK
  BY <1>2, <1>3, <1>6, <1>7, <1>8 DEF TypeOK, Init
<1>10. \A d \in Devices : ~Listed(conns, d)
  BY DEF Init, Listed, Unlisted
<1> QED BY <1>6, <1>7, <1>9, <1>10
        DEF IInv, WeatherUnanimous, MoveUnanimous, WeatherExplained,
            SequenceJustified, Fits, Init

\* A handler that puts cs in place of the connection list and votes keeps
\* the vote invariants, provided a device whose word it replaces without a
\* vote keeps that part of the word.
LEMMA VoteIInv ==
  ASSUME IInv, NEW cs \in [Devices -> Connection],
         NEW w \in BOOLEAN, NEW s \in BOOLEAN,
         NEW who \in Devices \cup {NoDevice},
         conns' = cs, UNCHANGED <<required, openSequence>>,
         Vote(cs, w, s, who),
         \A d \in Devices : Listed(cs, d) => Listed(conns, d),
         w \/ \A d \in Devices : /\ Listed(conns, d) => Listed(cs, d)
                                 /\ cs[d].word.weather = conns[d].word.weather,
         s \/ \A d \in Devices : /\ Listed(conns, d) => Listed(cs, d)
                                 /\ cs[d].word.move = conns[d].word.move
  PROVE  /\ WeatherUnanimous' /\ MoveUnanimous' /\ WeatherExplained'
         /\ st' \in State
         /\ badWeatherDevices' \in SUBSET Devices
         /\ badWeatherDevice' \in Devices \cup {NoDevice}
         /\ unvoted' \in [weather: SUBSET Devices, stop: SUBSET Devices]
<1>1. TypeOK
  BY DEF IInv
<1>2. /\ st' = AfterVotes(cs, w, s)
      /\ st' \in State
      /\ st'.weather = IF w THEN WeatherVote(cs, required) ELSE st.weather
      /\ st'.stop = IF s THEN StopVote(cs, required) ELSE st.stop
  BY <1>1, VotesState DEF Vote
<1>3. /\ unvoted' \in [weather: SUBSET Devices, stop: SUBSET Devices]
      /\ unvoted'.weather = IF w THEN {} ELSE unvoted.weather
      /\ unvoted'.stop = IF s THEN {} ELSE unvoted.stop
  BY <1>1 DEF Vote, TypeOK
<1>4. WeatherUnanimous'
  <2>1. CASE w
    <3>1. st'.weather = "good" => WeatherFailed(cs, required) = {}
      BY <1>2, <2>1 DEF WeatherVote
    <3>2. required \in SUBSET Devices
      BY <1>1 DEF TypeOK
    <3>3. \A d \in Devices : cs[d].word.weather \in {"good", "bad"}
      BY DEF Connection, Word
    <3> QED BY <3>1, <3>2, <3>3 DEF WeatherUnanimous, WeatherFailed, Listed
  <2>2. CASE ~w
    BY <1>1, <1>2, <1>3, <2>2 DEF IInv, WeatherUnanimous, Listed, TypeOK
  <2> QED BY <2>1, <2>2
<1>5. MoveUnanimous'
  <2>1. CASE s
    <3>1. st'.stop = "can_move" => StopFailed(cs, required) = {}
      BY <1>2, <2>1 DEF StopVote
    <3>2. required \in SUBSET Devices
      BY <1>1 DEF TypeOK
    <3>3. \A d \in Devices : cs[d].word.move \in {"can_move", "stop"}
      BY DEF Connection, Word
    <3> QED BY <3>1, <3>2, <3>3 DEF MoveUnanimous, StopFailed, Listed
  <2>2. CASE ~s
    BY <1>1, <1>2, <1>3, <2>2 DEF IInv, MoveUnanimous, Listed, TypeOK
  <2> QED BY <2>1, <2>2
<1>6. /\ badWeatherDevices' \in SUBSET Devices
      /\ badWeatherDevice' \in Devices \cup {NoDevice}
  BY <1>1 DEF Vote, weatherValues, WeatherFailed, TypeOK
<1>7. WeatherExplained'
  <2>1. CASE w
    BY <1>2, <2>1 DEF WeatherExplained, Vote, weatherValues, WeatherVote,
                      WeatherFailed, Listed
  <2>2. CASE ~w
    BY <1>2, <2>2 DEF IInv, WeatherExplained, Vote, weatherValues, Listed
  <2> QED BY <2>1, <2>2
<1> QED BY <1>2, <1>3, <1>4, <1>5, <1>6, <1>7

\* A status report keeps the invariant.
LEMMA SetStateIInv ==
  ASSUME IInv, NEW d \in Devices, NEW word \in Words, setState(d, word)
  PROVE  IInv'
<1> DEFINE old == conns[d].word
           cs == [conns EXCEPT ![d] = [@ EXCEPT !.word = word]]
           isReady == old.ready = "not_ready" /\ word.ready = "ready"
           w == isReady \/ word.weather # old.weather
           s == isReady \/ word.move # old.move
           q == VotesSequencing(cs, w, s, oc)
<1>1. TypeOK /\ Fits(oc, st)
  BY DEF IInv, SequenceJustified, Fits
<1>2. /\ conns[d].link = "connected"
      /\ conns' = cs
      /\ Vote(cs, w, s, d)
      /\ oc' = IF word.blocks # old.blocks THEN openCloseChanged(cs, q) ELSE q
      /\ UNCHANGED <<required, openSequence, sun, due, nextType, overridden>>
  BY DEF setState
<1>3. cs \in [Devices -> Connection]
  BY <1>1, WordsAssumption DEF TypeOK, Connection
<1>4. \A e \in Devices : Listed(cs, e) <=> Listed(conns, e)
  BY <1>1, <1>2 DEF TypeOK, Connection, Listed
<1>5. w \in BOOLEAN /\ s \in BOOLEAN
  OBVIOUS
<1>6. w \/ \A e \in Devices : cs[e].word.weather = conns[e].word.weather
  BY <1>1 DEF TypeOK, Connection
<1>7. s \/ \A e \in Devices : cs[e].word.move = conns[e].word.move
  BY <1>1 DEF TypeOK, Connection
<1> HIDE DEF cs, w, s
<1>8. /\ WeatherUnanimous' /\ MoveUnanimous' /\ WeatherExplained'
      /\ st' \in State
      /\ badWeatherDevices' \in SUBSET Devices
      /\ badWeatherDevice' \in Devices \cup {NoDevice}
      /\ unvoted' \in [weather: SUBSET Devices, stop: SUBSET Devices]
  BY <1>2, <1>3, <1>4, <1>5, <1>6, <1>7, VoteIInv
<1>9. oc \in Sequencing /\ st' = AfterVotes(cs, w, s)
  BY <1>1, <1>2 DEF TypeOK, Vote
<1>10. q \in Sequencing /\ Fits(q, st')
  BY <1>1, <1>3, <1>5, <1>9, VotesSequence
<1> HIDE DEF q
<1>11. oc' \in Sequencing /\ Fits(oc', st')
  BY <1>1, <1>2, <1>3, <1>10, OpenCloseChanged
<1>12. TypeOK'
  BY <1>1, <1>2, <1>3, <1>8, <1>11 DEF TypeOK
<1> QED BY <1>8, <1>11, <1>12 DEF IInv, SequenceJustified, Fits

\* The removal of a device's or of a client's connection keeps the invariant.
LEMMA RemovedIInv ==
  ASSUME IInv, NEW cs \in [Devices -> Connection], NEW q \in Sequencing,
         \A d \in Devices : Listed(cs, d) => Listed(conns, d),
         q.phase = oc.phase, q.by = oc.by,
         conns' = cs,
         Vote(cs, TRUE, TRUE, NoDevice),
         oc' = VotesSequencing(cs, TRUE, TRUE, q),
         UNCHANGED <<required, openSequence, sun, due, nextType, overridden>>
  PROVE  IInv'
<1>1. TypeOK /\ Fits(q, st)
  BY DEF IInv, SequenceJustified, Fits
<1>2. /\ WeatherUnanimous' /\ MoveUnanimous' /\ WeatherExplained'
      /\ st' \in State
      /\ badWeatherDevices' \in SUBSET Devices
      /\ badWeatherDevice' \in Devices \cup {NoDevice}
      /\ unvoted' \in [weather: SUBSET Devices, stop: SUBSET Devices]
  BY VoteIInv
<1>3. st' = AfterVotes(cs, TRUE, TRUE)
  BY DEF Vote
<1>4. oc' \in Sequencing /\ Fits(oc', st')
  BY <1>1, <1>3, VotesSequence
<1>5. TypeOK'
  BY <1>1, <1>2, <1>4 DEF TypeOK
<1> QED BY <1>2, <1>4, <1>5 DEF IInv, SequenceJustified, Fits

\* A handler that changes the on/off state or the period, in one mask or in
\* two, keeps the invariant.
LEMMA MaskIInv ==
  ASSUME IInv, NEW s1 \in State, NEW s2 \in State,
         s1.weather = st.weather, s1.stop = st.stop,
         s2.weather = st.weather, s2.stop = st.stop,
         st' = s2,
         oc' = stateChanged(s1, s2, conns, openSequence,
                 stateChanged(st, s1, conns, openSequence, oc)),
         nextType' \in DAY .. MORNING, due' \in BOOLEAN, overridden' \in BOOLEAN,
         UNCHANGED <<conns, required, openSequence, badWeatherDevices,
                     badWeatherDevice, sun, unvoted>>
  PROVE  IInv'
<1> DEFINE q1 == stateChanged(st, s1, conns, openSequence, oc)
<1>1. /\ TypeOK /\ Fits(oc, st)
      /\ conns \in [Devices -> Connection] /\ oc \in Sequencing
      /\ openSequence \in Seq(Devices)
  BY DEF IInv, SequenceJustified, Fits, TypeOK
<1>2. q1 \in Sequencing /\ Fits(q1, s1)
  BY <1>1, StateChanged DEF Fits
<1>3. oc' = stateChanged(s1, s2, conns, openSequence, q1)
  OBVIOUS
<1> HIDE DEF q1
<1>4. oc' \in Sequencing /\ Fits(oc', s2)
  BY <1>1, <1>2, <1>3, StateChanged DEF Fits
<1>5. TypeOK'
  BY <1>1, <1>4 DEF TypeOK
<1> QED BY <1>4, <1>5 DEF IInv, WeatherUnanimous, MoveUnanimous,
              WeatherExplained, SequenceJustified, Fits, Listed

\* Every step keeps the invariant.
LEMMA NextIInv == IInv /\ [Next]_vars => IInv'
<1> SUFFICES ASSUME IInv, [Next]_vars PROVE IInv'
  OBVIOUS
<1>0. /\ TypeOK /\ conns \in [Devices -> Connection] /\ oc \in Sequencing
      /\ openSequence \in Seq(Devices) /\ st \in State
      /\ nextType \in DAY .. MORNING /\ sun \in DAY .. MORNING
  BY DEF IInv, TypeOK
<1>1. ASSUME NEW d \in Devices, register(d) PROVE IInv'
  <2>1. [link |-> "connected", word |-> InitWord] \in Connection
    BY DEF Connection, InitWord, Word
  <2>2. conns' \in [Devices -> Connection]
    BY <1>0, <1>1, <2>1 DEF register
  <2>3. TypeOK'
    BY <1>0, <1>1, <2>2 DEF register, TypeOK
  <2> QED BY <1>0, <1>1, <2>3 DEF register, IInv, WeatherUnanimous, MoveUnanimous,
                WeatherExplained, SequenceJustified, Listed, InitWord
<1>2. ASSUME NEW d \in Devices, NEW w \in Words, setState(d, w) PROVE IInv'
  BY <1>2, SetStateIInv
<1>3. ASSUME NEW d \in Devices, connectionError(d) PROVE IInv'
  <2>1. TypeOK'
    BY <1>0, <1>3 DEF connectionError, TypeOK, Connection
  <2>2. \A e \in Devices : /\ Listed(conns', e) <=> Listed(conns, e)
                           /\ conns'[e].word = conns[e].word
    BY <1>0, <1>3 DEF connectionError, Connection, Listed
  <2> QED BY <1>0, <1>3, <2>1, <2>2 DEF connectionError, IInv, WeatherUnanimous,
                MoveUnanimous, WeatherExplained, SequenceJustified, TypeOK
<1>4. ASSUME NEW d \in Devices, connectionRemoved(d) PROVE IInv'
  <2> DEFINE cs == [conns EXCEPT ![d] = Unlisted]
             q == [oc EXCEPT !.cmd = [@ EXCEPT ![d] = "none"]]
  <2>1. Unlisted \in Connection
    BY DEF Unlisted, Connection, InitWord, Word
  <2>2. /\ cs \in [Devices -> Connection]
        /\ \A e \in Devices : Listed(cs, e) => Listed(conns, e)
    BY <1>0, <2>1 DEF Listed, Unlisted
  <2>3. q \in Sequencing /\ q.phase = oc.phase /\ q.by = oc.by
    BY <1>0 DEF Sequencing
  <2>4. /\ conns' = cs
        /\ Vote(cs, TRUE, TRUE, NoDevice)
        /\ oc' = VotesSequencing(cs, TRUE, TRUE, q)
        /\ UNCHANGED <<required, openSequence, sun, due, nextType, overridden>>
    BY <1>4 DEF connectionRemoved
  <2> HIDE DEF cs, q
  <2> QED BY <2>2, <2>3, <2>4, RemovedIInv
<1>5. ASSUME clientRemoved PROVE IInv'
  BY <1>0, <1>5, RemovedIInv DEF clientRemoved
<1>6. ASSUME NEW o \in Commands, changeState(o) PROVE IInv'
  <2> DEFINE new == [st EXCEPT !.onoff = o, !.period = (nextType + 5) % 6]
  <2>1. (nextType + 5) % 6 \in DAY .. MORNING
    BY <1>0 DEF DAY, MORNING
  <2>2. new \in State /\ new.weather = st.weather /\ new.stop = st.stop
    BY <1>0, <2>1, CommandsAssumption DEF State
  <2>3. /\ st' = new
        /\ oc' = stateChanged(st, new, conns, openSequence, oc)
        /\ nextType' = nextType /\ due' = due /\ overridden' = FALSE
        /\ UNCHANGED <<conns, required, openSequence, badWeatherDevices,
                       badWeatherDevice, sun, unvoted>>
    BY <1>6 DEF changeState
  <2>4. due \in BOOLEAN
    BY <1>0 DEF TypeOK
  <2>5. stateChanged(st, st, conns, openSequence, oc) = oc
    BY DEF stateChanged
  <2> HIDE DEF new
  <2> QED BY <1>0, <2>2, <2>3, <2>4, <2>5, MaskIInv
<1>7. ASSUME NEW p \in ClientPeriods, changeStatePeriod(p) PROVE IInv'
  <2> DEFINE new == [st EXCEPT !.period = p]
  <2>1. new \in State /\ new.weather = st.weather /\ new.stop = st.stop
    BY <1>0, PeriodsAssumption DEF State
  <2>2. /\ st' = new
        /\ oc' = stateChanged(st, new, conns, openSequence, oc)
        /\ nextType' = nextType /\ due' = due /\ overridden' = TRUE
        /\ UNCHANGED <<conns, required, openSequence, badWeatherDevices,
                       badWeatherDevice, sun, unvoted>>
    BY <1>7 DEF changeStatePeriod
  <2>3. due \in BOOLEAN
    BY <1>0 DEF TypeOK
  <2>4. stateChanged(st, st, conns, openSequence, oc) = oc
    BY DEF stateChanged
  <2> HIDE DEF new
  <2> QED BY <1>0, <2>1, <2>2, <2>3, <2>4, MaskIInv
<1>8. ASSUME clientOpen PROVE IInv'
  <2> DEFINE q == [oc EXCEPT !.phase = "opening", !.by = "client"]
  <2>1. q \in Sequencing /\ q.by = "client"
    BY <1>0 DEF Sequencing
  <2>2. oc' = doOpen(conns, openSequence, q)
    BY <1>8 DEF clientOpen, startOpen
  <2> HIDE DEF q
  <2>3. oc' \in Sequencing /\ oc'.by = "client"
    BY <1>0, <2>1, <2>2, DoOpen
  <2>4. TypeOK'
    BY <1>0, <1>8, <2>3 DEF clientOpen, TypeOK
  <2> QED BY <1>8, <2>3, <2>4 DEF clientOpen, IInv, WeatherUnanimous, MoveUnanimous,
                WeatherExplained, SequenceJustified, Listed
<1>9. ASSUME clientClose PROVE IInv'
  <2> DEFINE q == [oc EXCEPT !.phase = "closing", !.by = "client"]
  <2>1. q \in Sequencing /\ q.by = "client"
    BY <1>0 DEF Sequencing
  <2>2. oc' = doClose(conns, openSequence, q)
    BY <1>9 DEF clientClose, startClose
  <2> HIDE DEF q
  <2>3. oc' \in Sequencing /\ oc'.by = "client"
    BY <1>0, <2>1, <2>2, DoClose
  <2>4. TypeOK'
    BY <1>0, <1>9, <2>3 DEF clientClose, TypeOK
  <2> QED BY <1>9, <2>3, <2>4 DEF clientClose, IInv, WeatherUnanimous, MoveUnanimous,
                WeatherExplained, SequenceJustified, Listed
<1>10. ASSUME NEW r \in RequiredConfigs, setRequired(r) PROVE IInv'
  <2>1. TypeOK'
    BY <1>0, <1>10, ConfigsAssumption DEF setRequired, TypeOK
  <2> QED BY <1>0, <1>10, <2>1, ConfigsAssumption DEF setRequired, IInv, WeatherUnanimous,
                MoveUnanimous, WeatherExplained, SequenceJustified, Listed, TypeOK
<1>11. ASSUME NEW s \in SequenceConfigs, setOpenSequence(s) PROVE IInv'
  <2>1. TypeOK'
    BY <1>0, <1>11, ConfigsAssumption DEF setOpenSequence, TypeOK
  <2> QED BY <1>0, <1>11, <2>1 DEF setOpenSequence, IInv, WeatherUnanimous,
                MoveUnanimous, WeatherExplained, SequenceJustified, Listed
<1>12. ASSUME NEW r \in RequiredConfigs, NEW s \in SequenceConfigs,
              signaledHUP(r, s)
       PROVE  IInv'
  <2>1. TypeOK'
    BY <1>0, <1>12, ConfigsAssumption DEF signaledHUP, TypeOK
  <2> QED BY <1>0, <1>12, <2>1, ConfigsAssumption DEF signaledHUP, IInv, WeatherUnanimous,
                MoveUnanimous, WeatherExplained, SequenceJustified, Listed, TypeOK
<1>13. ASSUME SunMoves PROVE IInv'
  <2>1. NextPeriod(sun) \in DAY .. MORNING
    BY <1>0 DEF NextPeriod, DAY, DUSK, MORNING
  <2>2. TypeOK'
    BY <1>0, <1>13, <2>1 DEF SunMoves, TypeOK
  <2> QED BY <1>0, <1>13, <2>2 DEF SunMoves, IInv, WeatherUnanimous,
                MoveUnanimous, WeatherExplained, SequenceJustified, Listed
<1>14. ASSUME idle PROVE IInv'
  <2>1. NextPeriod(sun) \in DAY .. MORNING
    BY <1>0 DEF NextPeriod, DAY, DUSK, MORNING
  <2>2. PICK s1 \in State, s2 \in State :
          /\ s1.weather = st.weather /\ s1.stop = st.stop
          /\ s2.weather = st.weather /\ s2.stop = st.stop
          /\ st' = s2
          /\ oc' = stateChanged(s1, s2, conns, openSequence,
                     stateChanged(st, s1, conns, openSequence, oc))
    <3> PICK morning_off \in BOOLEAN, morning_standby \in BOOLEAN :
       LET isMorningEnd == st.period = MORNING /\ sun = DAY
           s1 == IF isMorningEnd /\ morning_off
                   THEN [st EXCEPT !.onoff = "hard_off"]
                 ELSE IF /\ isMorningEnd /\ morning_standby
                         /\ st.onoff \notin {"hard_off", "soft_off"}
                   THEN [st EXCEPT !.onoff = "standby"]
                 ELSE st
           s2 == [s1 EXCEPT !.period = sun]
       IN  /\ st' = s2
           /\ oc' = stateChanged(s1, s2, conns, openSequence,
                      stateChanged(st, s1, conns, openSequence, oc))
      BY <1>14 DEF idle
    <3> DEFINE isMorningEnd == st.period = MORNING /\ sun = DAY
               s1 == IF isMorningEnd /\ morning_off
                       THEN [st EXCEPT !.onoff = "hard_off"]
                     ELSE IF /\ isMorningEnd /\ morning_standby
                             /\ st.onoff \notin {"hard_off", "soft_off"}
                       THEN [st EXCEPT !.onoff = "standby"]
                     ELSE st
               s2 == [s1 EXCEPT !.period = sun]
    <3>1. s1 \in State /\ s1.weather = st.weather /\ s1.stop = st.stop
      BY <1>0 DEF State, OnOff
    <3>2. /\ st' = s2
          /\ oc' = stateChanged(s1, s2, conns, openSequence,
                     stateChanged(st, s1, conns, openSequence, oc))
      OBVIOUS
    <3> HIDE DEF s1
    <3>3. s2 \in State /\ s2.weather = st.weather /\ s2.stop = st.stop
      BY <1>0, <3>1 DEF State
    <3> HIDE DEF s2
    <3> QED BY <3>1, <3>2, <3>3
  <2>3. /\ nextType' \in DAY .. MORNING /\ due' = FALSE /\ overridden' = FALSE
        /\ UNCHANGED <<conns, required, openSequence, badWeatherDevices,
                       badWeatherDevice, sun, unvoted>>
    BY <1>14, <2>1 DEF idle
  <2> QED BY <2>2, <2>3, MaskIInv
<1>15. ASSUME closeTimeout PROVE IInv'
  <2> DEFINE q == [oc EXCEPT !.timers = Tail(@)]
             f == [q EXCEPT !.failed = @ \cup {q.last}]
  <2>1. oc.timers # << >> /\ oc.timers \in Seq(Devices)
    BY <1>0, <1>15 DEF closeTimeout, Sequencing
  <2>2. Tail(oc.timers) \in Seq(Devices)
    BY <2>1
  <2>3. q \in Sequencing /\ q.phase = oc.phase /\ q.by = oc.by
    BY <1>0, <2>2 DEF Sequencing
  <2>4. oc' = IF q.phase = "closing" THEN doClose(conns, openSequence, f) ELSE q
    BY <1>15 DEF closeTimeout
  <2> HIDE DEF q
  <2>5. f \in Sequencing /\ f.phase = q.phase /\ f.by = q.by
    BY <2>3 DEF Sequencing
  <2> HIDE DEF f
  <2>6. oc' \in Sequencing /\ oc'.phase \in {"none", oc.phase} /\ oc'.by = oc.by
    BY <1>0, <2>3, <2>4, <2>5, DoClose
  <2>7. TypeOK'
    BY <1>0, <1>15, <2>6 DEF closeTimeout, TypeOK
  <2> QED BY <1>15, <2>6, <2>7 DEF closeTimeout, IInv, WeatherUnanimous,
                MoveUnanimous, WeatherExplained, SequenceJustified, Listed
<1>16. CASE UNCHANGED vars
  <2>1. TypeOK'
    BY <1>0, <1>16 DEF vars, TypeOK
  <2> QED BY <1>16, <2>1 DEF vars, IInv, WeatherUnanimous, MoveUnanimous,
                WeatherExplained, SequenceJustified, Listed
<1> QED BY <1>1, <1>2, <1>3, <1>4, <1>5, <1>6, <1>7, <1>8, <1>9, <1>10,
           <1>11, <1>12, <1>13, <1>14, <1>15, <1>16
        DEF Next, DeviceStep, ClientStep, LoopStep

\* The inductive invariant holds in every reachable state.
THEOREM Invariance == Spec => []IInv
BY InitIInv, NextIInv, PTL DEF Spec

\* The state of centrald is well typed.
THEOREM TypeCorrect == Spec => []TypeOK
<1>1. IInv => TypeOK
  BY DEF IInv
<1> QED BY <1>1, Invariance, PTL

\* Good weather is unanimous among the listed devices, and no required device
\* that a vote has seen is missing, whatever devices, words and arrays.
THEOREM GoodWeatherIsUnanimous == Spec => []WeatherUnanimous
<1>1. IInv => WeatherUnanimous
  BY DEF IInv
<1> QED BY <1>1, Invariance, PTL

\* The permission to move is unanimous in the same sense.
THEOREM CanMoveIsUnanimous == Spec => []MoveUnanimous
<1>1. IInv => MoveUnanimous
  BY DEF IInv
<1> QED BY <1>1, Invariance, PTL

\* The published bad weather values agree with the weather bit.
THEOREM BadWeatherIsExplained == Spec => []WeatherExplained
<1>1. IInv => WeatherExplained
  BY DEF IInv
<1> QED BY <1>1, Invariance, PTL

\* Sequences centrald starts by itself run only in states that call for them.
THEOREM SequencesAreJustified == Spec => []SequenceJustified
<1>1. IInv => SequenceJustified
  BY DEF IInv
<1> QED BY <1>1, Invariance, PTL

-----------------------------------------------------------------------------
(***************************************************************************)
(* The period.  Away from the polar circles next_event_type is one period  *)
(* ahead of the sun, which is what lets changeState recover the period     *)
(* from it.                                                                *)
(***************************************************************************)
PeriodInv == /\ TypeOK
             /\ ~due => nextType = NextPeriod(sun)
             /\ PeriodFollowsSun

\* Where the sun rises, the period follows it unless the operator forced one.
THEOREM PeriodIsTheSuns ==
  ASSUME Polar = FALSE
  PROVE  Spec => []PeriodFollowsSun
<1>1. Init => PeriodInv
  BY InitIInv DEF IInv, PeriodInv, PeriodFollowsSun, Init
<1>2. IInv /\ PeriodInv /\ [Next]_vars => PeriodInv'
  <2> SUFFICES ASSUME IInv, PeriodInv, [Next]_vars PROVE PeriodInv'
    OBVIOUS
  <2>1. TypeOK /\ TypeOK'
    BY NextIInv DEF IInv
  <2>2. ASSUME UNCHANGED <<sun, due, nextType, overridden>>,
               st'.period = st.period
        PROVE  PeriodInv'
    BY <2>1, <2>2 DEF PeriodInv, PeriodFollowsSun, NextPeriod
  <2>3. ASSUME NEW o \in Commands, changeState(o) PROVE PeriodInv'
    <3>1. st'.period = (nextType + 5) % 6
      BY <2>1, <2>3 DEF changeState, TypeOK, State
    <3>2. ~due => (nextType + 5) % 6 = sun
      <4>1. sun \in 0 .. 5 /\ (~due => nextType = (sun + 1) % 6)
        BY <2>1 DEF PeriodInv, NextPeriod, TypeOK, DAY, MORNING
      <4> QED BY <4>1
    <3> QED BY <2>1, <2>3, <3>1, <3>2
            DEF changeState, PeriodInv, PeriodFollowsSun, NextPeriod
  <2>4. ASSUME NEW p \in ClientPeriods, changeStatePeriod(p) PROVE PeriodInv'
    BY <2>1, <2>4 DEF changeStatePeriod, PeriodInv, PeriodFollowsSun, NextPeriod
  <2>5. ASSUME idle PROVE PeriodInv'
    <3>1. st'.period = sun
      BY <2>1, <2>5 DEF idle, TypeOK, State
    <3> QED BY <2>1, <2>5, <3>1 DEF idle, PeriodInv, PeriodFollowsSun, NextPeriod
  <2>6. ASSUME SunMoves PROVE PeriodInv'
    BY <2>1, <2>6 DEF SunMoves, PeriodInv, PeriodFollowsSun
  <2>7. ASSUME NEW r \in RequiredConfigs, NEW s \in SequenceConfigs,
               signaledHUP(r, s)
        PROVE  PeriodInv'
    BY <2>1, <2>7 DEF signaledHUP, PeriodInv, PeriodFollowsSun
  <2>8. ASSUME NEW cs, NEW w \in BOOLEAN, NEW s \in BOOLEAN, NEW who,
               Vote(cs, w, s, who)
        PROVE  st'.period = st.period
    BY <2>1, <2>8, VotesState DEF Vote
  <2>9. ASSUME NEW d \in Devices, NEW w \in Words, setState(d, w)
        PROVE  PeriodInv'
    <3>1. UNCHANGED <<sun, due, nextType, overridden>>
      BY <2>9 DEF setState
    <3>2. \E cs : \E b, c \in BOOLEAN : Vote(cs, b, c, d)
      <4> DEFINE old == conns[d].word
                 cs == [conns EXCEPT ![d] = [@ EXCEPT !.word = w]]
                 isReady == old.ready = "not_ready" /\ w.ready = "ready"
                 b == isReady \/ w.weather # old.weather
                 c == isReady \/ w.move # old.move
      <4>1. Vote(cs, b, c, d) /\ b \in BOOLEAN /\ c \in BOOLEAN
        BY <2>9 DEF setState
      <4> HIDE DEF cs, b, c
      <4> QED BY <4>1
    <3> QED BY <2>2, <2>8, <3>1, <3>2
  <2>10. ASSUME NEW d \in Devices, connectionRemoved(d) PROVE PeriodInv'
    BY <2>2, <2>8, <2>10 DEF connectionRemoved
  <2>11. ASSUME clientRemoved PROVE PeriodInv'
    BY <2>2, <2>8, <2>11 DEF clientRemoved
  <2>12. ASSUME UNCHANGED <<st, sun, due, nextType, overridden>>
         PROVE  PeriodInv'
    BY <2>2, <2>12
  <2> QED BY <2>3, <2>4, <2>5, <2>6, <2>7, <2>9, <2>10, <2>11, <2>12
          DEF Next, DeviceStep, ClientStep, LoopStep, vars, register,
              connectionError, clientOpen, clientClose, setRequired,
              setOpenSequence, closeTimeout
<1>3. PeriodInv => PeriodFollowsSun
  BY DEF PeriodInv
<1> QED BY <1>1, <1>2, <1>3, Invariance, PTL DEF Spec

-----------------------------------------------------------------------------
(***************************************************************************)
(* The device a sequence waits for.  A closing sequence over an empty      *)
(* open_sequence is left by doClose as it stands, with the device of an    *)
(* earlier sequence still in open_close_last, so what follows is about     *)
(* configurations whose sequences name a device.                           *)
(***************************************************************************)
\* A running sequence waits for a device, whose last command is the one the
\* sequence gives or was lost with its connection.
Ordered(q) ==
  /\ q.phase = "opening" => /\ q.last # NoDevice
                            /\ q.cmd[q.last] \in {"open", "none"}
  /\ q.phase = "closing" => /\ q.last # NoDevice
                            /\ q.cmd[q.last] \in {"close", "none"}

\* doOpen in an opening sequence orders the device it then waits for.
LEMMA DoOpenOrders ==
  ASSUME NEW cs \in [Devices -> Connection], NEW seq \in Seq(Devices),
         NEW q \in Sequencing, q.phase = "opening"
  PROVE  Ordered(doOpen(cs, seq, q))
<1> DEFINE stops == {i \in DOMAIN seq : \/ ~Listed(cs, seq[i])
                                        \/ "open" \in cs[seq[i]].word.blocks}
           i == CHOOSE i \in stops : \A j \in stops : i <= j
           d == seq[i]
<1>1. CASE stops = {}
  <2>1. doOpen(cs, seq, q) = updateOpenClose(q)
    BY <1>1 DEF doOpen
  <2> QED BY <2>1 DEF updateOpenClose, Sequencing, Ordered
<1>2. CASE stops # {}
  <2>1. stops \in SUBSET Nat
    OBVIOUS
  <2>2. i \in stops
    <3> HIDE DEF stops
    <3> QED BY <1>2, <2>1, MinExists
  <2>3. d \in Devices
    <3> HIDE DEF i
    <3>1. i \in 1 .. Len(seq)
      BY <2>2
    <3> QED BY <3>1
  <2>4. doOpen(cs, seq, q) = IF ~Listed(cs, d) THEN [q EXCEPT !.phase = "none"]
                   ELSE [q EXCEPT !.cmd = [@ EXCEPT ![d] = "open"], !.last = d]
    BY <1>2 DEF doOpen
  <2> HIDE DEF d
  <2>5. CASE ~Listed(cs, d)
    <3>1. doOpen(cs, seq, q) = [q EXCEPT !.phase = "none"]
      BY <2>4, <2>5
    <3> QED BY <3>1 DEF Sequencing, Ordered
  <2>6. CASE Listed(cs, d)
    <3> DEFINE c == [q.cmd EXCEPT ![d] = "open"]
    <3>1. doOpen(cs, seq, q) = [q EXCEPT !.cmd = c, !.last = d]
      BY <2>4, <2>6
    <3>2. c[d] = "open"
      BY <2>3 DEF Sequencing
    <3> HIDE DEF c
    <3> QED BY <2>3, <3>1, <3>2, DevicesAssumption DEF Sequencing, Ordered
  <2> QED BY <2>5, <2>6
<1> QED BY <1>1, <1>2

\* doClose in a closing sequence that names a device orders the device it
\* then waits for.
LEMMA DoCloseOrders ==
  ASSUME NEW cs \in [Devices -> Connection],
         NEW seq \in Seq(Devices), seq # << >>,
         NEW q \in Sequencing, q.phase = "closing"
  PROVE  Ordered(doClose(cs, seq, q))
<1> DEFINE stops == {i \in DOMAIN seq : /\ Listed(cs, seq[i])
                                        /\ seq[i] \notin q.failed
                                        /\ "close" \in cs[seq[i]].word.blocks}
           i == CHOOSE i \in stops : \A j \in stops : j <= i
           d == seq[i]
<1>1. CASE stops = {}
  <2>1. doClose(cs, seq, q) = [updateOpenClose(q) EXCEPT !.failed = {}]
    BY <1>1 DEF doClose
  <2> QED BY <2>1 DEF updateOpenClose, Sequencing, Ordered
<1>2. CASE stops # {}
  <2>1. Len(seq) \in Nat /\ stops \in SUBSET (1 .. Len(seq))
    OBVIOUS
  <2>2. i \in stops
    <3> HIDE DEF stops
    <3> QED BY <1>2, <2>1, MaxExists
  <2>3. d \in Devices
    <3> HIDE DEF i
    <3>1. i \in 1 .. Len(seq)
      BY <2>2
    <3> QED BY <3>1
  <2> DEFINE c == [q.cmd EXCEPT ![d] = "close"]
             t == IF d = q.last THEN q.timers ELSE Append(q.timers, d)
  <2>4. doClose(cs, seq, q) = [q EXCEPT !.cmd = c, !.last = d, !.timers = t]
    BY <1>2 DEF doClose
  <2> HIDE DEF d
  <2>5. c[d] = "close"
    BY <2>3 DEF Sequencing
  <2> HIDE DEF c, t
  <2> QED BY <2>3, <2>4, <2>5, DevicesAssumption DEF Sequencing, Ordered
<1> QED BY <1>1, <1>2

\* Whatever changes the state word leaves an ordered sequence.
LEMMA StateChangedOrders ==
  ASSUME NEW cs \in [Devices -> Connection],
         NEW seq \in Seq(Devices), seq # << >>,
         NEW q \in Sequencing, Ordered(q), NEW old, NEW new
  PROVE  /\ stateChanged(old, new, cs, seq, q) \in Sequencing
         /\ Ordered(stateChanged(old, new, cs, seq, q))
<1> DEFINE qo == [q EXCEPT !.phase = "opening", !.by = "state"]
           qc == [q EXCEPT !.phase = "closing", !.by = "state"]
<1>1. stateChanged(old, new, cs, seq, q) \in Sequencing
  BY StateChanged
<1>2. CASE new = old
  BY <1>1, <1>2 DEF stateChanged
<1>3. CASE new # old /\ OpenEligible(new)
  <2>1. stateChanged(old, new, cs, seq, q) = doOpen(cs, seq, qo)
    BY <1>3 DEF stateChanged, startOpen
  <2>2. qo \in Sequencing /\ qo.phase = "opening"
    BY DEF Sequencing
  <2> HIDE DEF qo
  <2> QED BY <1>1, <2>1, <2>2, DoOpenOrders
<1>4. CASE new # old /\ ~OpenEligible(new)
  <2>1. stateChanged(old, new, cs, seq, q) = doClose(cs, seq, qc)
    BY <1>4 DEF stateChanged, startClose
  <2>2. qc \in Sequencing /\ qc.phase = "closing"
    BY DEF Sequencing
  <2> HIDE DEF qc
  <2> QED BY <1>1, <2>1, <2>2, DoCloseOrders
<1> QED BY <1>2, <1>3, <1>4

\* So do the votes of a handler,
LEMMA VotesOrder ==
  ASSUME TypeOK, openSequence # << >>,
         NEW cs \in [Devices -> Connection], NEW q \in Sequencing, Ordered(q),
         NEW w, NEW s
  PROVE  /\ VotesSequencing(cs, w, s, q) \in Sequencing
         /\ Ordered(VotesSequencing(cs, w, s, q))
<1> DEFINE q1 == stateChanged(st, AfterWeather(cs, w), cs, openSequence, q)
<1>1. openSequence \in Seq(Devices)
  BY DEF TypeOK
<1>2. q1 \in Sequencing /\ Ordered(q1)
  BY <1>1, StateChangedOrders
<1>3. VotesSequencing(cs, w, s, q) =
        stateChanged(AfterWeather(cs, w), AfterVotes(cs, w, s), cs, openSequence, q1)
  BY DEF VotesSequencing
<1> HIDE DEF q1
<1> QED BY <1>1, <1>2, <1>3, StateChangedOrders

\* and what follows a change of the blocking bits.
LEMMA OpenCloseOrders ==
  ASSUME TypeOK, openSequence # << >>,
         NEW cs \in [Devices -> Connection], NEW q \in Sequencing, Ordered(q)
  PROVE  Ordered(openCloseChanged(cs, q))
<1>1. openSequence \in Seq(Devices)
  BY DEF TypeOK
<1>2. CASE q.phase = "opening"
  BY <1>1, <1>2, DoOpenOrders DEF openCloseChanged
<1>3. CASE q.phase = "closing"
  <2>1. openCloseChanged(cs, q) = doClose(cs, openSequence, q)
    BY <1>3 DEF openCloseChanged
  <2> QED BY <1>1, <1>3, <2>1, DoCloseOrders
<1>4. CASE q.phase \notin {"opening", "closing"}
  BY <1>4 DEF openCloseChanged
<1> QED BY <1>2, <1>3, <1>4

OrderInv == openSequence # << >> /\ Ordered(oc)

\* While a sequence over configured devices runs, the device it waits for has
\* been told to do what the sequence does, unless its connection was lost.
THEOREM LastIsOrdered ==
  ASSUME \A s \in SequenceConfigs : s # << >>
  PROVE  Spec => []LastWasOrdered
<1>1. Init => OrderInv
  <2> SUFFICES ASSUME Init PROVE OrderInv
    OBVIOUS
  <2> DEFINE cs == [d \in Devices |-> Unlisted]
             q0 == [phase |-> "none", last |-> NoDevice, failed |-> {},
                    timers |-> << >>, cmd |-> [d \in Devices |-> "none"],
                    by |-> "state"]
  <2>1. Unlisted \in Connection
    BY DEF Unlisted, Connection, InitWord, Word
  <2>2. cs \in [Devices -> Connection]
    BY <2>1
  <2>3. openSequence \in Seq(Devices) /\ openSequence # << >>
    BY ConfigsAssumption DEF Init
  <2>4. q0 \in Sequencing /\ Ordered(q0)
    BY DEF Sequencing, Ordered
  <2>5. PICK s0, s1 : oc = stateChanged(s0, s1, cs, openSequence, q0)
    BY DEF Init
  <2> HIDE DEF cs, q0
  <2> QED BY <2>2, <2>3, <2>4, <2>5, StateChangedOrders DEF OrderInv
<1>2. IInv /\ OrderInv /\ [Next]_vars => OrderInv'
  <2> SUFFICES ASSUME IInv, OrderInv, [Next]_vars PROVE OrderInv'
    OBVIOUS
  <2>1. /\ TypeOK /\ conns \in [Devices -> Connection] /\ oc \in Sequencing
        /\ openSequence \in Seq(Devices) /\ openSequence # << >> /\ Ordered(oc)
    BY DEF IInv, TypeOK, OrderInv
  <2>2. ASSUME openSequence' = openSequence, Ordered(oc') PROVE OrderInv'
    BY <2>1, <2>2 DEF OrderInv, Ordered
  <2>3. ASSUME NEW d \in Devices, NEW word \in Words, setState(d, word)
        PROVE  OrderInv'
    <3> DEFINE old == conns[d].word
               cs == [conns EXCEPT ![d] = [@ EXCEPT !.word = word]]
               isReady == old.ready = "not_ready" /\ word.ready = "ready"
               w == isReady \/ word.weather # old.weather
               s == isReady \/ word.move # old.move
               q == VotesSequencing(cs, w, s, oc)
    <3>1. /\ oc' = IF word.blocks # old.blocks THEN openCloseChanged(cs, q) ELSE q
          /\ openSequence' = openSequence
      BY <2>3 DEF setState
    <3>2. cs \in [Devices -> Connection]
      BY <2>1, WordsAssumption DEF Connection
    <3> HIDE DEF cs, w, s
    <3>3. q \in Sequencing /\ Ordered(q)
      BY <2>1, <3>2, VotesOrder
    <3> HIDE DEF q
    <3>4. Ordered(openCloseChanged(cs, q))
      BY <2>1, <3>2, <3>3, OpenCloseOrders
    <3> QED BY <2>2, <3>1, <3>3, <3>4
  <2>4. ASSUME NEW d \in Devices, connectionRemoved(d) PROVE OrderInv'
    <3> DEFINE cs == [conns EXCEPT ![d] = Unlisted]
               q == [oc EXCEPT !.cmd = [@ EXCEPT ![d] = "none"]]
    <3>1. oc' = VotesSequencing(cs, TRUE, TRUE, q) /\ openSequence' = openSequence
      BY <2>4 DEF connectionRemoved
    <3>2. cs \in [Devices -> Connection]
      BY <2>1 DEF Unlisted, Connection, InitWord, Word
    <3>3. q \in Sequencing /\ Ordered(q)
      BY <2>1, DevicesAssumption DEF Sequencing, Ordered
    <3> HIDE DEF cs, q
    <3> QED BY <2>1, <2>2, <3>1, <3>2, <3>3, VotesOrder
  <2>5. ASSUME clientRemoved PROVE OrderInv'
    BY <2>1, <2>2, <2>5, VotesOrder DEF clientRemoved
  <2>6. ASSUME NEW o \in Commands, changeState(o) PROVE OrderInv'
    BY <2>1, <2>2, <2>6, StateChangedOrders DEF changeState
  <2>7. ASSUME NEW p \in ClientPeriods, changeStatePeriod(p) PROVE OrderInv'
    BY <2>1, <2>2, <2>7, StateChangedOrders DEF changeStatePeriod
  <2>8. ASSUME clientOpen PROVE OrderInv'
    <3> DEFINE q == [oc EXCEPT !.phase = "opening", !.by = "client"]
    <3>1. q \in Sequencing /\ q.phase = "opening"
      BY <2>1 DEF Sequencing
    <3>2. oc' = doOpen(conns, openSequence, q) /\ openSequence' = openSequence
      BY <2>8 DEF clientOpen, startOpen
    <3> HIDE DEF q
    <3> QED BY <2>1, <2>2, <3>1, <3>2, DoOpenOrders
  <2>9. ASSUME clientClose PROVE OrderInv'
    <3> DEFINE q == [oc EXCEPT !.phase = "closing", !.by = "client"]
    <3>1. q \in Sequencing /\ q.phase = "closing"
      BY <2>1 DEF Sequencing
    <3>2. oc' = doClose(conns, openSequence, q) /\ openSequence' = openSequence
      BY <2>9 DEF clientClose, startClose
    <3> HIDE DEF q
    <3> QED BY <2>1, <2>2, <3>1, <3>2, DoCloseOrders
  <2>10. ASSUME idle PROVE OrderInv'
    <3>1. PICK s1, s2 :
            oc' = stateChanged(s1, s2, conns, openSequence,
                    stateChanged(st, s1, conns, openSequence, oc))
      BY <2>10 DEF idle
    <3> DEFINE q == stateChanged(st, s1, conns, openSequence, oc)
    <3>2. q \in Sequencing /\ Ordered(q)
      BY <2>1, StateChangedOrders
    <3>3. oc' = stateChanged(s1, s2, conns, openSequence, q)
      BY <3>1
    <3>4. openSequence' = openSequence
      BY <2>10 DEF idle
    <3> HIDE DEF q
    <3> QED BY <2>1, <2>2, <3>2, <3>3, <3>4, StateChangedOrders
  <2>11. ASSUME closeTimeout PROVE OrderInv'
    <3> DEFINE q == [oc EXCEPT !.timers = Tail(@)]
               f == [q EXCEPT !.failed = @ \cup {q.last}]
    <3>1. oc.timers # << >> /\ oc.timers \in Seq(Devices)
      BY <2>1, <2>11 DEF closeTimeout, Sequencing
    <3>2. Tail(oc.timers) \in Seq(Devices)
      BY <3>1
    <3>3. q \in Sequencing /\ q.phase = oc.phase /\ Ordered(q)
      BY <2>1, <3>2 DEF Sequencing, Ordered
    <3>4. /\ oc' = IF q.phase = "closing" THEN doClose(conns, openSequence, f) ELSE q
          /\ openSequence' = openSequence
      BY <2>11 DEF closeTimeout
    <3> HIDE DEF q
    <3>5. f \in Sequencing /\ f.phase = q.phase
      BY <3>3 DEF Sequencing
    <3> HIDE DEF f
    <3>6. CASE q.phase = "closing"
      BY <2>1, <2>2, <3>4, <3>5, <3>6, DoCloseOrders
    <3>7. CASE q.phase # "closing"
      BY <2>2, <3>3, <3>4, <3>7
    <3> QED BY <3>6, <3>7
  <2>12. ASSUME NEW s \in SequenceConfigs, openSequence' = s, oc' = oc
         PROVE  OrderInv'
    BY <2>1, <2>12 DEF OrderInv
  <2>13. ASSUME UNCHANGED <<openSequence, oc>> PROVE OrderInv'
    BY <2>1, <2>13 DEF OrderInv
  <2> QED BY <2>3, <2>4, <2>5, <2>6, <2>7, <2>8, <2>9, <2>10, <2>11, <2>12, <2>13
          DEF Next, DeviceStep, ClientStep, LoopStep, register, vars,
              connectionError, setRequired, setOpenSequence, signaledHUP, SunMoves
<1>3. IInv /\ OrderInv => LastWasOrdered
  BY DEF IInv, TypeOK, Sequencing, OrderInv, Ordered, LastWasOrdered
<1> QED BY <1>1, <1>2, <1>3, Invariance, PTL DEF Spec

-----------------------------------------------------------------------------
(***************************************************************************)
(* What a step may not do.                                                 *)
(***************************************************************************)
\* Only the timeout of a closing sequence gives a device up, and only the one
\* the sequence waits for.
THEOREM OnlyTimeoutsGiveUp == Spec => GivenUpWhileClosing
<1> DEFINE A == oc'.failed \ oc.failed # {} =>
                  /\ oc.phase = "closing" /\ oc.timers # << >>
                  /\ oc'.failed \ oc.failed = {oc.last}
<1>1. IInv /\ [Next]_vars => [A]_vars
  <2> SUFFICES ASSUME IInv, Next PROVE A
    OBVIOUS
  <2>1. /\ TypeOK /\ conns \in [Devices -> Connection] /\ oc \in Sequencing
        /\ openSequence \in Seq(Devices)
    BY DEF IInv, TypeOK
  <2>2. ASSUME oc'.failed \subseteq oc.failed PROVE A
    BY <2>2
  <2>3. ASSUME NEW d \in Devices, NEW word \in Words, setState(d, word) PROVE A
    <3> DEFINE old == conns[d].word
               cs == [conns EXCEPT ![d] = [@ EXCEPT !.word = word]]
               isReady == old.ready = "not_ready" /\ word.ready = "ready"
               w == isReady \/ word.weather # old.weather
               s == isReady \/ word.move # old.move
               q == VotesSequencing(cs, w, s, oc)
    <3>1. oc' = IF word.blocks # old.blocks THEN openCloseChanged(cs, q) ELSE q
      BY <2>3 DEF setState
    <3>2. cs \in [Devices -> Connection] /\ w \in BOOLEAN /\ s \in BOOLEAN
      BY <2>1, WordsAssumption DEF Connection
    <3> HIDE DEF cs, w, s
    <3>3. q \in Sequencing /\ q.failed \subseteq oc.failed
      BY <2>1, <3>2, VotesSequence
    <3> HIDE DEF q
    <3>4. openCloseChanged(cs, q).failed \subseteq q.failed
      BY <2>1, <3>2, <3>3, OpenCloseChanged
    <3> QED BY <2>2, <3>1, <3>3, <3>4
  <2>4. ASSUME NEW d \in Devices, connectionRemoved(d) PROVE A
    <3> DEFINE cs == [conns EXCEPT ![d] = Unlisted]
               q == [oc EXCEPT !.cmd = [@ EXCEPT ![d] = "none"]]
    <3>1. oc' = VotesSequencing(cs, TRUE, TRUE, q)
      BY <2>4 DEF connectionRemoved
    <3>2. cs \in [Devices -> Connection]
      BY <2>1 DEF Unlisted, Connection, InitWord, Word
    <3>3. q \in Sequencing /\ q.failed = oc.failed
      BY <2>1 DEF Sequencing
    <3> HIDE DEF cs, q
    <3> QED BY <2>1, <2>2, <3>1, <3>2, <3>3, VotesSequence
  <2>5. ASSUME clientRemoved PROVE A
    BY <2>1, <2>2, <2>5, VotesSequence DEF clientRemoved
  <2>6. ASSUME NEW o \in Commands, changeState(o) PROVE A
    BY <2>1, <2>2, <2>6, StateChanged DEF changeState
  <2>7. ASSUME NEW p \in ClientPeriods, changeStatePeriod(p) PROVE A
    BY <2>1, <2>2, <2>7, StateChanged DEF changeStatePeriod
  <2>8. ASSUME clientOpen PROVE A
    <3> DEFINE q == [oc EXCEPT !.phase = "opening", !.by = "client"]
    <3>1. q \in Sequencing /\ q.failed = oc.failed
      BY <2>1 DEF Sequencing
    <3>2. oc' = doOpen(conns, openSequence, q)
      BY <2>8 DEF clientOpen, startOpen
    <3> HIDE DEF q
    <3> QED BY <2>1, <2>2, <3>1, <3>2, DoOpen
  <2>9. ASSUME clientClose PROVE A
    <3> DEFINE q == [oc EXCEPT !.phase = "closing", !.by = "client"]
    <3>1. q \in Sequencing /\ q.failed = oc.failed
      BY <2>1 DEF Sequencing
    <3>2. oc' = doClose(conns, openSequence, q)
      BY <2>9 DEF clientClose, startClose
    <3> HIDE DEF q
    <3>3. \/ oc'.failed = q.failed
          \/ oc'.failed = {} /\ oc'.phase = "none"
      BY <2>1, <3>1, <3>2, DoClose
    <3> QED BY <2>2, <3>1, <3>3
  <2>10. ASSUME idle PROVE A
    <3>1. PICK s1, s2 :
            oc' = stateChanged(s1, s2, conns, openSequence,
                    stateChanged(st, s1, conns, openSequence, oc))
      BY <2>10 DEF idle
    <3> DEFINE q == stateChanged(st, s1, conns, openSequence, oc)
    <3>2. q \in Sequencing /\ q.failed \subseteq oc.failed
      BY <2>1, StateChanged
    <3>3. oc' = stateChanged(s1, s2, conns, openSequence, q)
      BY <3>1
    <3> HIDE DEF q
    <3>4. oc'.failed \subseteq q.failed
      BY <2>1, <3>2, <3>3, StateChanged
    <3> QED BY <2>2, <3>2, <3>4
  <2>11. ASSUME closeTimeout PROVE A
    <3> DEFINE q == [oc EXCEPT !.timers = Tail(@)]
               f == [q EXCEPT !.failed = @ \cup {q.last}]
    <3>1. oc.timers # << >> /\ oc.timers \in Seq(Devices)
      BY <2>1, <2>11 DEF closeTimeout, Sequencing
    <3>2. Tail(oc.timers) \in Seq(Devices)
      BY <3>1
    <3>3. /\ q \in Sequencing /\ q.phase = oc.phase
          /\ q.last = oc.last /\ q.failed = oc.failed
      BY <2>1, <3>2 DEF Sequencing
    <3>4. oc' = IF q.phase = "closing" THEN doClose(conns, openSequence, f) ELSE q
      BY <2>11 DEF closeTimeout
    <3> HIDE DEF q
    <3>5. f \in Sequencing /\ f.failed = oc.failed \cup {oc.last}
      BY <3>3 DEF Sequencing
    <3> HIDE DEF f
    <3>6. CASE q.phase = "closing"
      <4>1. oc'.failed = f.failed \/ oc'.failed = {}
        BY <2>1, <3>4, <3>5, <3>6, DoClose
      <4> QED BY <3>1, <3>3, <3>5, <3>6, <4>1
    <3>7. CASE q.phase # "closing"
      BY <2>2, <3>3, <3>4, <3>7
    <3> QED BY <3>6, <3>7
  <2>12. ASSUME oc' = oc PROVE A
    BY <2>2, <2>12
  <2> HIDE DEF A
  <2> QED BY <2>3, <2>4, <2>5, <2>6, <2>7, <2>8, <2>9, <2>10, <2>11, <2>12
          DEF Next, DeviceStep, ClientStep, LoopStep, register,
              connectionError, setRequired, setOpenSequence, signaledHUP, SunMoves
<1> QED BY <1>1, Invariance, PTL DEF Spec, GivenUpWhileClosing

\* Nothing but an on, standby, soft_off or off command takes the system out of
\* hard_off, and only hard_off follows soft_off otherwise.
THEOREM OffIsKept == Spec => OffStaysOff
<1> DEFINE A == /\ st.onoff = "hard_off" => st'.onoff = "hard_off"
                /\ st.onoff = "soft_off" => st'.onoff \in {"soft_off", "hard_off"}
           B == (\A o \in OnOff : ~changeState(o)) => A
<1>1. IInv /\ [Next]_vars => [B]_vars
  <2> SUFFICES ASSUME IInv, Next, \A o \in OnOff : ~changeState(o) PROVE A
    OBVIOUS
  <2>1. TypeOK /\ st \in State
    BY DEF IInv, TypeOK
  <2>2. ASSUME st'.onoff = st.onoff PROVE A
    BY <2>2
  <2>3. ASSUME NEW cs, NEW w \in BOOLEAN, NEW s \in BOOLEAN, NEW who,
               Vote(cs, w, s, who)
        PROVE  A
    BY <2>1, <2>2, <2>3, VotesState DEF Vote
  <2>4. ASSUME NEW d \in Devices, NEW word \in Words, setState(d, word) PROVE A
    <3> DEFINE old == conns[d].word
               cs == [conns EXCEPT ![d] = [@ EXCEPT !.word = word]]
               isReady == old.ready = "not_ready" /\ word.ready = "ready"
               w == isReady \/ word.weather # old.weather
               s == isReady \/ word.move # old.move
    <3>1. w \in BOOLEAN /\ s \in BOOLEAN /\ Vote(cs, w, s, d)
      BY <2>4 DEF setState
    <3> HIDE DEF w, s, cs
    <3> QED BY <2>3, <3>1
  <2>5. ASSUME NEW d \in Devices, connectionRemoved(d) PROVE A
    BY <2>3, <2>5 DEF connectionRemoved
  <2>6. ASSUME clientRemoved PROVE A
    BY <2>3, <2>6 DEF clientRemoved
  <2>7. ASSUME NEW p \in ClientPeriods, changeStatePeriod(p) PROVE A
    BY <2>1, <2>2, <2>7 DEF changeStatePeriod, State
  <2>8. ASSUME idle PROVE A
    BY <2>1, <2>8 DEF idle, State
  <2>9. ASSUME st' = st PROVE A
    BY <2>9
  <2>10. ASSUME NEW o \in Commands, changeState(o) PROVE A
    BY <2>10, CommandsAssumption
  <2> HIDE DEF A
  <2> QED BY <2>4, <2>5, <2>6, <2>7, <2>8, <2>9, <2>10
          DEF Next, DeviceStep, ClientStep, LoopStep, register, connectionError,
              clientOpen, clientClose, setRequired, setOpenSequence,
              signaledHUP, SunMoves, closeTimeout
<1> QED BY <1>1, Invariance, PTL DEF Spec, OffStaysOff
=============================================================================
