----------------------------- MODULE DomeProofs -----------------------------
(***************************************************************************)
(* What the dome guarantees for any number of central servers, any words   *)
(* they send and any failures of the driver.                               *)
(*                                                                         *)
(* The inductive invariant is the conjunction of the invariants TLC checks *)
(* on small instances.  All but TypeOK are about dm and the shutter only,  *)
(* so the proof shows once for every operator that makes a new status that *)
(* it is Sound, and then walks through the actions.                        *)
(***************************************************************************)
EXTENDS Dome, TLAPS

\* The invariants as a predicate on a status q and a shutter position sh.
Sound(q, sh) ==
  /\ q \in DomeStatus
  /\ q.dome = "closed" => q.blocks = {"open"}
  /\ q.dome = "opened" => q.blocks = {"close"} /\ ~q.bop
  /\ q.dome = "opening" => q.blocks = {"open", "close"} /\ q.bop
  /\ q.dome = "closing" => q.blocks = {"open", "close"} /\ ~q.bop
  /\ q.dome = "opening" =>
       \/ q.motor = "opening"
       \/ q.motor = "none" /\ (sh = "open" \/ q.stopped)
  /\ q.dome = "closing" =>
       \/ q.motor = "closing"
       \/ q.motor = "none" /\ (sh = "closed" \/ q.stopped)
  /\ q.retry => q.dome = "wait_closing"

IInv == TypeOK /\ StatusCoherent /\ MovementIsDriven /\ RetryWhileWaiting

\* IInv says of dm exactly that it is sound.
LEMMA IInvSound == IInv <=> TypeOK /\ Sound(dm, shutter)
  BY DEF IInv, TypeOK, StatusCoherent, MovementIsDriven, RetryWhileWaiting, Sound

\* The fields of a status after maskState.
LEMMA ReportFields ==
  ASSUME NEW q \in DomeStatus, NEW b \in SUBSET {"open", "close"},
         NEW x \in BOOLEAN,
         NEW d \in {"unknown", "closed", "opening", "opened", "closing",
                    "wait_closing"}
  PROVE  /\ Report(q, d, b, x) \in DomeStatus
         /\ Report(q, d, b, x).dome = d
         /\ Report(q, d, b, x).blocks = b
         /\ Report(q, d, b, x).bop = x
         /\ Report(q, d, b, x).stopped = q.stopped
         /\ Report(q, d, b, x).retry = q.retry
         /\ Report(q, d, b, x).motor = q.motor
  BY DEF Report, DomeStatus

\* domeOpenStart keeps a status sound whatever the driver answers, and starts
\* the motor only in good weather.
LEMMA OpenStartSound ==
  ASSUME NEW q, NEW sh, Sound(q, sh), NEW good \in BOOLEAN, NEW ret
  PROVE  /\ Sound(domeOpenStart(q, good, ret), sh)
         /\ domeOpenStart(q, good, ret).motor # q.motor => good
<1> DEFINE r == [q EXCEPT !.retry = FALSE]
<1>1. /\ r \in DomeStatus /\ r.motor = q.motor /\ ~r.retry
      /\ Sound(r, sh)
  BY DEF Sound, DomeStatus
<1> HIDE DEF r
<1>2. CASE ret = "there"
  <2>1. domeOpenStart(q, good, ret) = Report(r, "opened", {"close"}, FALSE)
    BY <1>2 DEF domeOpenStart, r
  <2> DEFINE p == Report(r, "opened", {"close"}, FALSE)
  <2>2. /\ p \in DomeStatus /\ p.dome = "opened" /\ p.blocks = {"close"}
        /\ p.bop = FALSE /\ p.retry = r.retry /\ p.motor = q.motor
    BY <1>1 DEF Report, DomeStatus
  <2> QED BY <2>1, <2>2, <1>1 DEF Sound
<1>3. CASE ret = "started" /\ good
  <2>1. domeOpenStart(q, good, ret) =
          [Report(r, "opening", {"open", "close"}, TRUE) EXCEPT !.motor = "opening"]
    BY <1>3 DEF domeOpenStart, r
  <2> QED BY <2>1, <1>1, <1>3 DEF Report, Sound, DomeStatus
<1>4. CASE ret # "there" /\ ~(ret = "started" /\ good)
  <2>1. domeOpenStart(q, good, ret) = r
    BY <1>4 DEF domeOpenStart, r
  <2> QED BY <2>1, <1>1
<1> QED BY <1>2, <1>3, <1>4

\* domeCloseStart keeps a status sound and never drives the shutter open.
LEMMA CloseStartSound ==
  ASSUME NEW q, NEW sh, Sound(q, sh), NEW ret
  PROVE  /\ Sound(domeCloseStart(q, ret), sh)
         /\ domeCloseStart(q, ret).motor \in {q.motor, "closing"}
<1> DEFINE r == [q EXCEPT !.retry = FALSE]
<1>1. /\ r \in DomeStatus /\ r.motor = q.motor /\ ~r.retry
      /\ Sound(r, sh)
  BY DEF Sound, DomeStatus
<1> HIDE DEF r
<1>2. CASE ret = "there"
  <2>1. domeCloseStart(q, ret) = Report(r, "closed", {"open"}, r.bop)
    BY <1>2 DEF domeCloseStart, r
  <2>2. r.bop \in BOOLEAN
    BY <1>1 DEF DomeStatus
  <2> QED BY <2>1, <2>2, <1>1, ReportFields DEF Sound
<1>3. CASE ret = "park"
  <2>1. domeCloseStart(q, ret) =
          [r EXCEPT !.dome = "wait_closing", !.bop = FALSE, !.retry = TRUE]
    BY <1>3 DEF domeCloseStart, r
  <2> QED BY <2>1, <1>1 DEF Sound, DomeStatus
<1>4. CASE ret = "started"
  <2>1. domeCloseStart(q, ret) =
          [Report(r, "closing", {"open", "close"}, FALSE) EXCEPT !.motor = "closing"]
    BY <1>4 DEF domeCloseStart, r
  <2> QED BY <2>1, <1>1 DEF Report, Sound, DomeStatus
<1>5. CASE ret \notin {"there", "park", "started"}
  <2>1. domeCloseStart(q, ret) = r
    BY <1>5 DEF domeCloseStart, r
  <2> QED BY <2>1, <1>1
<1> QED BY <1>2, <1>3, <1>4, <1>5

\* Ending a movement keeps a status sound and leaves the motor alone.
LEMMA CheckOpeningSound ==
  ASSUME Sound(dm, shutter), NEW q \in checkOpening(dm)
  PROVE  Sound(q, shutter) /\ q.motor = dm.motor
<1>1. CASE dm.dome = "opening"
  <2>1. q \in {dm, Report(dm, "opened", {"close"}, FALSE)}
    BY <1>1 DEF checkOpening
  <2> DEFINE p == Report(dm, "opened", {"close"}, FALSE)
  <2>2. /\ p \in DomeStatus /\ p.dome = "opened" /\ p.blocks = {"close"}
        /\ p.bop = FALSE /\ p.retry = dm.retry /\ p.motor = dm.motor
    BY DEF Sound, Report, DomeStatus
  <2> QED BY <1>1, <2>1, <2>2 DEF Sound
<1>2. CASE dm.dome = "closing"
  <2>1. q \in {dm, Report(dm, "closed", {"open"}, dm.bop)}
    BY <1>2 DEF checkOpening
  <2> DEFINE p == Report(dm, "closed", {"open"}, dm.bop)
  <2>2. dm.bop \in BOOLEAN
    BY DEF Sound, DomeStatus
  <2>3. /\ p \in DomeStatus /\ p.dome = "closed" /\ p.blocks = {"open"}
        /\ p.retry = dm.retry /\ p.motor = dm.motor
    BY <2>2, ReportFields DEF Sound
  <2> QED BY <1>2, <2>1, <2>3 DEF Sound
<1>3. CASE dm.dome \notin {"opening", "closing"}
  <2>1. q = dm
    BY <1>3 DEF checkOpening
  <2> QED BY <2>1
<1> QED BY <1>1, <1>2, <1>3

-----------------------------------------------------------------------------
\* The status word of a dome that has just been started is sound.
LEMMA InitIInv == Init => IInv
<1> SUFFICES ASSUME Init PROVE IInv
  OBVIOUS
<1>1. TypeOK
  <2>1. dm \in DomeStatus
    BY DEF Init, DomeStatus
  <2>2. weatherOpens \in BOOLEAN /\ autoClose \in BOOLEAN
    BY ValuesAssumption DEF Init
  <2>3. /\ master \in MasterWord
        /\ word \in [Centralds -> MasterWord]
        /\ link \in [Centralds -> {"broken", "pending", "told", "up"}]
    BY DEF Init, MasterWord, DAY, MORNING
  <2>4. silent \in BOOLEAN /\ settled \in BOOLEAN
    BY DEF Init
  <2> QED BY <2>1, <2>2, <2>3, <2>4 DEF Init, TypeOK
<1>2. Sound(dm, shutter)
  BY DEF Init, Sound, DomeStatus
<1> QED BY <1>1, <1>2, IInvSound

\* A step that starts the motor to open the dome: the weather was asked for.
OpensOnlyWhenGood ==
  dm.motor # "opening" /\ dm'.motor = "opening" =>
    \/ ignore
    \/ /\ \A c \in Centralds : link'[c] = "up" /\ word'[c].weather = "good"
       /\ ~waiting

\* A master word moves the dome through domeOpenStart or domeCloseStart only.
LEMMA MasterStep ==
  ASSUME IInv, NEW c \in Centralds, NEW s \in MasterWords, masterStatus(c, s)
  PROVE  /\ IInv'
         /\ OpensOnlyWhenGood
         /\ c # StateMaster /\ dm'.motor = "opening" /\ ~ignore
              => dm.motor = "opening"
<1> DEFINE ws == [word EXCEPT ![c] = s]
<1>1. TypeOK /\ Sound(dm, shutter)
  BY IInvSound
<1>2. /\ word' = ws /\ ws[c] = s /\ s \in MasterWord
      /\ \A d \in Centralds : link[d] = "up" => link'[d] = "up"
      /\ link' \in [Centralds -> {"broken", "pending", "told", "up"}]
      /\ ws \in [Centralds -> MasterWord]
      /\ UNCHANGED <<shutter, waiting, silent, settled, autoClose, weatherOpens,
                     asked>>
  BY <1>1, MasterWordsAssumption DEF masterStatus, TypeOK, Values
<1>3. isGoodWeather(ws) \in BOOLEAN
  BY DEF isGoodWeather
<1>4. isGoodWeather(ws) =>
        \/ ignore
        \/ /\ \A d \in Centralds : link'[d] = "up" /\ word'[d].weather = "good"
           /\ ~waiting
  BY <1>2 DEF isGoodWeather, Up
<1> HIDE DEF ws
<1>5. \/ UNCHANGED <<dm, ignore, master>>
      \/ /\ Accepts(c, s) /\ master' = s
         /\ changeMasterState(master, s, ws)
  BY DEF masterStatus, ws
<1>6. CASE UNCHANGED <<dm, ignore, master>>
  <2>1. TypeOK'
    BY <1>1, <1>2, <1>6 DEF TypeOK
  <2>2. Sound(dm, shutter)'
    BY <1>1, <1>2, <1>6 DEF Sound
  <2>3. IInv'
    BY <2>1, <2>2, IInvSound, PTL
  <2> QED BY <2>3, <1>6 DEF OpensOnlyWhenGood
<1>7. CASE Accepts(c, s) /\ master' = s /\ changeMasterState(master, s, ws)
  <2>1. /\ ignore' \in BOOLEAN
        /\ Sound(dm', shutter)
        /\ \/ dm' = dm
           \/ /\ Night(s)
              /\ dm'.motor # dm.motor => isGoodWeather(ws)
           \/ dm'.motor \in {dm.motor, "closing"}
    <3>1. CASE UNCHANGED <<dm, ignore>>
      BY <3>1, <1>1 DEF TypeOK
    <3>2. CASE /\ ignore' = (ignore /\ Night(s))
               /\ autoClose /\ Night(s)
               /\ \E ret \in OpenOutcomes :
                    dm' = domeOpenStart(dm, isGoodWeather(ws), ret)
      BY <3>2, <1>1, <1>3, OpenStartSound DEF TypeOK
    <3>3. CASE /\ ignore' = (ignore /\ Night(s))
               /\ autoClose /\ ~Night(s)
               /\ \E ret \in CloseOutcomes : dm' = domeCloseStart(dm, ret)
      BY <3>3, <1>1, CloseStartSound DEF TypeOK
    <3>4. CASE ignore' = (ignore /\ Night(s)) /\ ~autoClose /\ UNCHANGED dm
      BY <3>4, <1>1 DEF TypeOK, Night
    <3> QED BY <3>1, <3>2, <3>3, <3>4, <1>7 DEF changeMasterState
  <2>2. TypeOK'
    BY <2>1, <1>1, <1>2, <1>7 DEF TypeOK, Sound
  <2>3. Sound(dm, shutter)'
    BY <2>1, <1>2 DEF Sound
  <2>4. OpensOnlyWhenGood
    BY <2>1, <1>4 DEF OpensOnlyWhenGood
  <2>5. c # StateMaster /\ Night(s) => ~isGoodWeather(ws) \/ ignore
    BY <1>2, <1>7 DEF Accepts, Night, isGoodWeather
  <2>6. c # StateMaster /\ dm'.motor = "opening" /\ ~ignore
           => dm.motor = "opening"
    BY <2>1, <2>5
  <2> QED BY <2>2, <2>3, <2>4, <2>6, IInvSound, PTL
<1> QED BY <1>5, <1>6, <1>7

\* Every step keeps the invariant and opens only in good weather.
LEMMA NextIInv ==
  ASSUME IInv, Next
  PROVE  IInv' /\ OpensOnlyWhenGood
<1>1. TypeOK /\ Sound(dm, shutter)
  BY IInvSound
<1>q. ASSUME TypeOK', Sound(dm', shutter') PROVE IInv'
  <2>1. Sound(dm, shutter)'
    BY <1>q DEF Sound
  <2> QED BY <2>1, <1>q, IInvSound, PTL
<1> USE DEF Values
<1>2. CASE idle
  <2>1. PICK q \in checkOpening(dm), ret \in CloseOutcomes :
          dm' = [IF isGoodWeather(word) THEN q ELSE closeDomeWeather(q, ret)
                   EXCEPT !.weather = IF MayOpen THEN "good" ELSE "bad"]
    BY <1>2 DEF idle
  <2> DEFINE p == IF isGoodWeather(word) THEN q ELSE closeDomeWeather(q, ret)
  <2>2. Sound(q, shutter) /\ q.motor = dm.motor
    BY <1>1, CheckOpeningSound
  <2>3. Sound(p, shutter) /\ p.motor \in {q.motor, "closing"}
    BY <2>2, CloseStartSound DEF closeDomeWeather
  <2> HIDE DEF p
  <2>4. dm' = [p EXCEPT !.weather = IF MayOpen THEN "good" ELSE "bad"]
    BY <2>1 DEF p
  <2>5. Sound(dm', shutter) /\ dm'.motor = p.motor
    BY <2>3, <2>4 DEF Sound, DomeStatus
  <2>6. TypeOK'
    BY <1>1, <1>2, <2>5 DEF idle, TypeOK, Sound
  <2> QED BY <1>q, <1>2, <2>2, <2>3, <2>5, <2>6 DEF idle, OpensOnlyWhenGood
<1>3. CASE closeRetry \/ commandClose
  <2>1. /\ \E ret \in CloseOutcomes : dm' = domeCloseStart(dm, ret)
        /\ UNCHANGED <<shutter, link, word, master, ignore, waiting, silent,
                       settled, autoClose, weatherOpens, asked>>
    BY <1>3 DEF closeRetry, commandClose
  <2>2. Sound(dm', shutter) /\ dm'.motor \in {dm.motor, "closing"}
    BY <1>1, <2>1, CloseStartSound
  <2>3. TypeOK'
    BY <1>1, <2>1, <2>2 DEF TypeOK, Sound
  <2> QED BY <1>q, <2>1, <2>2, <2>3 DEF OpensOnlyWhenGood
<1>4. CASE commandOpen
  <2>0. isGoodWeather(word) \in BOOLEAN
    BY DEF isGoodWeather
  <2>1. /\ \E ret \in OpenOutcomes : dm' = domeOpenStart(dm, isGoodWeather(word), ret)
        /\ UNCHANGED <<shutter, link, word, master, ignore, waiting, silent,
                       settled, autoClose, weatherOpens, asked>>
    BY <1>4 DEF commandOpen
  <2>2. Sound(dm', shutter) /\ (dm'.motor # dm.motor => isGoodWeather(word))
    BY <1>1, <2>0, <2>1, OpenStartSound
  <2>3. TypeOK'
    BY <1>1, <2>1, <2>2 DEF TypeOK, Sound
  <2>4. OpensOnlyWhenGood
    BY <2>1, <2>2 DEF OpensOnlyWhenGood, isGoodWeather, Up
  <2> QED BY <1>q, <2>1, <2>2, <2>3, <2>4
<1>5. CASE \E future \in BOOLEAN : closeFor(future)
  <2>1. /\ \E ret \in CloseOutcomes : dm' = domeCloseStart(dm, ret)
        /\ waiting' \in BOOLEAN
        /\ UNCHANGED <<shutter, link, word, master, ignore, silent,
                       settled, autoClose, weatherOpens, asked>>
    BY <1>5 DEF closeFor
  <2>2. Sound(dm', shutter) /\ dm'.motor \in {dm.motor, "closing"}
    BY <1>1, <2>1, CloseStartSound
  <2>3. TypeOK'
    BY <1>1, <2>1, <2>2 DEF TypeOK, Sound
  <2> QED BY <1>q, <2>1, <2>2, <2>3 DEF OpensOnlyWhenGood
<1>6. CASE domeStop
  <2>1. Sound(dm', shutter') /\ dm'.motor \in {dm.motor, "none"}
    <3>1. PICK stopped \in BOOLEAN :
            dm' = [dm EXCEPT !.retry = FALSE, !.stopped = @ \/ stopped,
                             !.motor = IF stopped THEN "none" ELSE @]
      BY <1>6 DEF domeStop
    <3>2. dm \in DomeStatus /\ shutter' = shutter
      BY <1>1, <1>6 DEF Sound, domeStop
    <3>3. CASE stopped
      <4>1. dm' = [dm EXCEPT !.retry = FALSE, !.stopped = TRUE, !.motor = "none"]
        BY <3>1, <3>2, <3>3 DEF DomeStatus
      <4> QED BY <4>1, <3>2, <1>1 DEF Sound, DomeStatus
    <3>4. CASE ~stopped
      <4>1. dm' = [dm EXCEPT !.retry = FALSE]
        BY <3>1, <3>2, <3>4 DEF DomeStatus
      <4> QED BY <4>1, <3>2, <1>1 DEF Sound, DomeStatus
    <3> QED BY <3>3, <3>4
  <2>2. TypeOK'
    BY <1>1, <1>6, <2>1 DEF domeStop, TypeOK, Sound
  <2> QED BY <1>q, <2>1, <2>2 DEF OpensOnlyWhenGood
<1>7. CASE resetNext \/ setValues \/ timesReached \/ settleTimeReached
           \/ contactTimeReached
  <2>1. UNCHANGED <<shutter, dm>>
    BY <1>7 DEF resetNext, setValues, timesReached, settleTimeReached,
                contactTimeReached
  <2>2. TypeOK'
    BY <1>1, <1>7, ValuesAssumption
       DEF TypeOK, resetNext, setValues, timesReached, settleTimeReached,
           contactTimeReached
  <2> QED BY <1>q, <1>1, <2>1, <2>2 DEF OpensOnlyWhenGood
<1>8. CASE setWeatherTimeout
  <2>1. Sound(dm', shutter') /\ dm'.motor = dm.motor
    BY <1>1, <1>8 DEF setWeatherTimeout, Sound, DomeStatus
  <2>2. TypeOK'
    BY <1>1, <1>8, <2>1 DEF setWeatherTimeout, TypeOK, Sound
  <2> QED BY <1>q, <2>1, <2>2 DEF OpensOnlyWhenGood
<1>9. CASE shutterMoves
  <2>1. /\ shutter' \in {"closed", "between", "open"}
        /\ dm.motor = "opening" => shutter' # "closed"
        /\ dm.motor = "closing" => shutter' # "open"
        /\ dm.motor # "none"
        /\ dm' = [dm EXCEPT !.motor = IF shutter' = "between" THEN @ ELSE "none"]
    BY <1>9, <1>1 DEF shutterMoves, TypeOK
  <2>2. Sound(dm', shutter') /\ dm'.motor \in {dm.motor, "none"}
    <3>1. CASE shutter' = "between"
      <4>1. dm' = dm
        BY <1>1, <2>1, <3>1 DEF Sound, DomeStatus
      <4> QED BY <1>1, <4>1, <2>1 DEF Sound
    <3>2. CASE shutter' # "between"
      <4>1. dm' = [dm EXCEPT !.motor = "none"]
        BY <2>1, <3>2
      <4> QED BY <1>1, <4>1, <2>1, <3>2 DEF Sound, DomeStatus
    <3> QED BY <3>1, <3>2
  <2>3. TypeOK'
    BY <1>1, <1>9, <2>1, <2>2 DEF shutterMoves, TypeOK, Sound
  <2> QED BY <1>q, <2>2, <2>3 DEF OpensOnlyWhenGood
<1>10. ASSUME NEW c \in Centralds,
              connectionError(c) \/ connConnected(c) \/ registered(c)
       PROVE  IInv' /\ OpensOnlyWhenGood
  <2>1. /\ UNCHANGED <<shutter, dm>>
        /\ link' \in [Centralds -> {"broken", "pending", "told", "up"}]
    BY <1>1, <1>10
       DEF connectionError, connConnected, registered, LinkStep, TypeOK
  <2>2. TypeOK'
    BY <1>1, <1>10, <2>1
       DEF connectionError, connConnected, registered, LinkStep, TypeOK
  <2> QED BY <1>q, <1>1, <2>1, <2>2 DEF OpensOnlyWhenGood
<1>11. CASE \E c \in Centralds, s \in MasterWords : masterStatus(c, s)
  BY <1>11, MasterStep
<1> QED
  BY <1>2, <1>3, <1>4, <1>5, <1>6, <1>7, <1>8, <1>9, <1>10, <1>11
     DEF Next, LinkSteps, CommandStep

\* A stuttering step keeps the invariant and starts no motor.
LEMMA StutterIInv ==
  ASSUME IInv, UNCHANGED vars
  PROVE  IInv' /\ OpensOnlyWhenGood
  BY DEF IInv, TypeOK, StatusCoherent, MovementIsDriven, RetryWhileWaiting,
         vars, Values, OpensOnlyWhenGood

\* The conjunction of the invariants of the dome holds in every behaviour.
THEOREM Invariance == Spec => []IInv
<1>1. IInv /\ [Next]_vars => IInv'
  BY NextIInv, StutterIInv
<1> QED BY InitIInv, <1>1, PTL DEF Spec

\* The state of the dome keeps its type.
THEOREM TypeCorrect == Spec => []TypeOK
<1>1. IInv => TypeOK
  BY DEF IInv
<1> QED BY <1>1, Invariance, PTL

\* The dome state, the block bits and BOP_EXPOSURE it reports fit together.
THEOREM StatusIsCoherent == Spec => []StatusCoherent
<1>1. IInv => StatusCoherent
  BY DEF IInv
<1> QED BY <1>1, Invariance, PTL

\* A reported movement is a real one.
THEOREM MovementsAreDriven == Spec => []MovementIsDriven
<1>1. IInv => MovementIsDriven
  BY DEF IInv
<1> QED BY <1>1, Invariance, PTL

\* The retry timer of a close never outlives the wait it belongs to.
THEOREM RetriesWait == Spec => []RetryWhileWaiting
<1>1. IInv => RetryWhileWaiting
  BY DEF IInv
<1> QED BY <1>1, Invariance, PTL

\* Whoever asks, the shutter is driven open only in weather every central
\* server calls good, or when the operator overrides the weather.
THEOREM OpensOnlyInGoodWeather == Spec => OpensInGoodWeather
<1>1. IInv /\ [Next]_vars => OpensOnlyWhenGood
  BY NextIInv, StutterIInv
<1> QED
  BY <1>1, Invariance, PTL DEF Spec, OpensInGoodWeather, OpensOnlyWhenGood

\* A central server that is not the state master cannot open the dome.
THEOREM OthersCannotOpen == Spec => OthersOnlyRestrain
<1> DEFINE Restrains ==
      \A c \in Centralds \ {StateMaster}, s \in MasterWords :
        masterStatus(c, s) /\ dm'.motor = "opening" /\ ~ignore =>
          dm.motor = "opening"
<1>1. IInv => Restrains
  BY MasterStep
<1> QED BY <1>1, Invariance, PTL DEF Spec, OthersOnlyRestrain
=============================================================================
