-------------------------------- MODULE Dome --------------------------------
(***************************************************************************)
(* The dome skeleton every roof and cupola driver of RTS2 is built on      *)
(* (lib/rts2/dome.cpp), with the part of the device framework that decides *)
(* which central server it obeys (Block::setMasterState).                  *)
(*                                                                         *)
(* A dome is connected to one or several central servers.  It opens and    *)
(* closes on their state words, on commands, and on its own when idle      *)
(* finds the weather bad.  The driver below it (startOpen, isClosed, ...)  *)
(* is external: it answers for a shutter that a motor moves between two    *)
(* end switches, and may fail.                                             *)
(*                                                                         *)
(* Times are abstracted to whether they have passed.  The status word, the *)
(* retry timer and the motor are one record, dm, because one handler may   *)
(* change them several times.                                              *)
(***************************************************************************)
EXTENDS Integers

CONSTANTS
  Centralds,        \* central servers the dome is connected to
  StateMaster,      \* the one given with --state-master
  MasterWords,      \* the state words the central servers send
  InhibitAutoClose, \* the driver offers the auto_close value
  WeatherOpens,     \* values operators give weather_open
  Faults            \* what the driver may do instead of succeeding

VARIABLES
  shutter,      \* driver: position of the shutter
  dm,           \* status word of the dome, retry timer, and motor of the driver
  link,         \* connection to every central server
  word,         \* the last state word of every central server
  master,       \* masterState
  ignore,       \* ignoreTimeout is in the future
  waiting,      \* nextGoodWeather is in the future
  silent,       \* DEF_CENTRALD_CONTACT_TIMEOUT since centraldLastContactTime
  settled,      \* initialSettleTime has passed
  autoClose,    \* domeAutoClose
  weatherOpens, \* weatherOpensDome
  asked         \* the last command queued for the central servers

vars == <<shutter, dm, link, word, master, ignore, waiting, silent, settled,
          autoClose, weatherOpens, asked>>

Values == <<autoClose, weatherOpens>>

DAY == 0
DUSK == 2
NIGHT == 3
DAWN == 4
MORNING == 5

MasterWord == [onoff  : {"on", "standby", "soft_off", "hard_off"},
               period : DAY .. MORNING,
               weather: {"good", "bad"}]

\* The status word (DOME_DOME_MASK, DEVICE_BLOCK_*, BOP_EXPOSURE, DOME_STOPPED,
\* WEATHER_MASK), a pending EVENT_DOMECLOSE_RETRY, the motor of the driver.
DomeStatus == [dome   : {"unknown", "closed", "opening", "opened", "closing",
                         "wait_closing"},
               blocks : SUBSET {"open", "close"},
               bop    : BOOLEAN,
               stopped: BOOLEAN,
               weather: {"good", "bad"},
               retry  : BOOLEAN,
               motor  : {"none", "opening", "closing"}]

ASSUME MasterAssumption == StateMaster \in Centralds
ASSUME MasterWordsAssumption == MasterWords \subseteq MasterWord
ASSUME ValuesAssumption ==
  InhibitAutoClose \in BOOLEAN /\ WeatherOpens \subseteq BOOLEAN
ASSUME FaultsAssumption == Faults \subseteq {"sensor", "start", "park"}

-----------------------------------------------------------------------------
(***************************************************************************)
(* The driver (external).  isOpened and isClosed recognise the end         *)
(* switches and may report an error instead; startOpen and startClose may  *)
(* fail; startClose may have to wait until the equipment is stowed.        *)
(***************************************************************************)
Fault(f, outcome) == IF f \in Faults THEN {outcome} ELSE {}

\* What comes of isOpened or isClosed, asked for one end of the way, followed by
\* startOpen or startClose unless the switch is found closed.
Outcomes(end, starts) ==
  IF shutter = end
    THEN {"there"} \cup (IF "sensor" \in Faults THEN starts ELSE {})
    ELSE starts

OpenOutcomes ==
  Outcomes("open", {"started"} \cup Fault("start", "failed"))

CloseOutcomes ==
  Outcomes("closed",
           {"started"} \cup Fault("start", "failed") \cup Fault("park", "park"))

\* isOpened, isClosed during a movement: it ends at the switch or in an error.
EndOutcomes(end) ==
  IF shutter = end THEN {TRUE} ELSE {FALSE} \cup Fault("sensor", TRUE)

shutterMoves ==
  /\ \/ /\ dm.motor = "opening"
        /\ shutter' = IF shutter = "closed" THEN "between" ELSE "open"
     \/ /\ dm.motor = "closing"
        /\ shutter' = IF shutter = "open" THEN "between" ELSE "closed"
  /\ dm' = [dm EXCEPT !.motor = IF shutter' = "between" THEN @ ELSE "none"]
  /\ UNCHANGED <<link, word, master, ignore, waiting, silent, settled,
                 Values, asked>>

-----------------------------------------------------------------------------
(***************************************************************************)
(* Starting to open and to close.                                          *)
(***************************************************************************)
Up(c) == link[c] = "up"

allCentraldRunning == \A c \in Centralds : Up(c)

\* Only the state master is asked.
FaultyIsGoodWeather(ws) ==
  \/ ignore
  \/ Up(StateMaster) /\ ws[StateMaster].weather = "good" /\ ~waiting

\* Dome::isGoodWeather and, below it, Block::isGoodWeather.
isGoodWeather(ws) ==
  \/ ignore
  \/ /\ \A c \in Centralds : Up(c) /\ ws[c].weather = "good"
     /\ ~waiting

\* maskState of the fields a movement changes.
Report(q, state, blocks, bop) ==
  [q EXCEPT !.dome = state, !.blocks = blocks, !.bop = bop]

\* The movement is reported before the driver is asked to start it.
FaultyDomeOpenStart(q, good, ret) ==
  LET r == [q EXCEPT !.retry = FALSE]
  IN  IF ret = "there" THEN Report(r, "opened", {"close"}, FALSE)
      ELSE [Report(r, "opening", {"open", "close"}, TRUE)
              EXCEPT !.motor = IF ret = "started" /\ good THEN "opening" ELSE @]

\* A pending retry of an earlier close is left alone.
FaultyDomeOpenKeepsRetry(q, good, ret) ==
  CASE ret = "there" -> Report(q, "opened", {"close"}, FALSE)
    [] ret = "started" /\ good ->
         [Report(q, "opening", {"open", "close"}, TRUE)
            EXCEPT !.motor = "opening"]
    [] OTHER -> q

domeOpenStart(q, good, ret) ==
  LET r == [q EXCEPT !.retry = FALSE]
  IN  CASE ret = "there" -> Report(r, "opened", {"close"}, FALSE)
        [] ret = "started" /\ good ->
             [Report(r, "opening", {"open", "close"}, TRUE)
                EXCEPT !.motor = "opening"]
        [] OTHER -> r

\* BOP_EXPOSURE is in none of the masks.
FaultyDomeCloseStart(q, ret) ==
  LET r == [q EXCEPT !.retry = FALSE]
  IN  CASE ret = "there" -> Report(r, "closed", {"open"}, r.bop)
        [] ret = "park" -> [r EXCEPT !.dome = "wait_closing", !.retry = TRUE]
        [] ret = "started" -> [Report(r, "closing", {"open", "close"}, r.bop)
                                 EXCEPT !.motor = "closing"]
        [] OTHER -> r

\* A shutter on its end switch counts as closed, and BOP_EXPOSURE is kept
\* then; waiting for the equipment leaves the block bits alone.
domeCloseStart(q, ret) ==
  LET r == [q EXCEPT !.retry = FALSE]
  IN  CASE ret = "there" -> Report(r, "closed", {"open"}, r.bop)
        [] ret = "park" -> [r EXCEPT !.dome = "wait_closing", !.bop = FALSE,
                                     !.retry = TRUE]
        [] ret = "started" -> [Report(r, "closing", {"open", "close"}, FALSE)
                                 EXCEPT !.motor = "closing"]
        [] OTHER -> r

\* The switches are taken for each other.
FaultyCheckOpening(q) ==
  CASE q.dome = "opening" ->
         {IF e THEN Report(q, "opened", {"close"}, FALSE) ELSE q :
            e \in EndOutcomes("closed")}
    [] q.dome = "closing" ->
         {IF e THEN Report(q, "closed", {"open"}, q.bop) ELSE q :
            e \in EndOutcomes("open")}
    [] OTHER -> {q}

\* A movement ends at the end switch and also when the driver reports an
\* error; the state reported is the same.
checkOpening(q) ==
  CASE q.dome = "opening" ->
         {IF e THEN Report(q, "opened", {"close"}, FALSE) ELSE q :
            e \in EndOutcomes("open")}
    [] q.dome = "closing" ->
         {IF e THEN Report(q, "closed", {"open"}, q.bop) ELSE q :
            e \in EndOutcomes("closed")}
    [] OTHER -> {q}

-----------------------------------------------------------------------------
(***************************************************************************)
(* The main loop.                                                          *)
(***************************************************************************)
\* Only a dome that reports OPENED is closed.
FaultyCloseDomeWeather(q, ret) ==
  IF autoClose /\ q.dome = "opened" THEN domeCloseStart(q, ret) ELSE q

closeDomeWeather(q, ret) ==
  IF autoClose THEN domeCloseStart(q, ret) ELSE q

\* next_open is not looked at.
FaultyMayOpen == allCentraldRunning \/ ~silent

\* The weather vote of the dome itself.
MayOpen == (allCentraldRunning \/ ~silent) /\ ~waiting

\* Dome::idle once the connections had time to settle: finish movements,
\* close in bad weather, ask the central servers to follow, vote.
idle ==
  /\ settled
  /\ \E q \in checkOpening(dm), ret \in CloseOutcomes :
       dm' = [IF isGoodWeather(word) THEN q ELSE closeDomeWeather(q, ret)
                EXCEPT !.weather = IF MayOpen THEN "good" ELSE "bad"]
  /\ asked' = CASE isGoodWeather(word) /\ weatherOpens
                    /\ master.onoff = "standby" -> "on"
                 [] ~isGoodWeather(word) /\ master.onoff = "on" -> "standby"
                 [] OTHER -> asked
  /\ silent' = IF allCentraldRunning THEN FALSE ELSE silent
  /\ UNCHANGED <<shutter, link, word, master, ignore, waiting, settled, Values>>

\* EVENT_DOMECLOSE_RETRY.
closeRetry ==
  /\ dm.retry
  /\ \E ret \in CloseOutcomes : dm' = domeCloseStart(dm, ret)
  /\ UNCHANGED <<shutter, link, word, master, ignore, waiting, silent, settled,
                 Values, asked>>

-----------------------------------------------------------------------------
(***************************************************************************)
(* The central servers.                                                    *)
(***************************************************************************)
\* Every server is followed.
FaultyAccepts(c, s) == TRUE

\* The word of another server than the state master is followed only when it
\* is hard off, standby or bad weather, and cannot lift a hard off.
Accepts(c, s) ==
  \/ c = StateMaster
  \/ /\ s.onoff \in {"hard_off", "standby"} \/ s.weather = "bad"
     /\ ~(master.onoff = "hard_off" /\ s.onoff = "standby")

Night(s) == s.onoff = "on" /\ s.period \in {DUSK, NIGHT, DAWN}

\* Dome::changeMasterState: observing at night, else standby or off, which do
\* the same.  ws: the words of the central servers, the new one included.
changeMasterState(old, new, ws) ==
  IF old.weather = "good" /\ new.weather = "bad" /\ ignore
    THEN UNCHANGED <<dm, ignore>>
  ELSE /\ ignore' = (ignore /\ Night(new))
       /\ \/ ~autoClose /\ UNCHANGED dm
          \/ /\ autoClose /\ Night(new)
             /\ \E ret \in OpenOutcomes :
                  dm' = domeOpenStart(dm, isGoodWeather(ws), ret)
          \/ /\ autoClose /\ ~Night(new)
             /\ \E ret \in CloseOutcomes : dm' = domeCloseStart(dm, ret)

\* A status message (DevConnectionMaster::setState, Block::setMasterState).
\* The first one after a reconnection comes while the registration is pending.
masterStatus(c, s) ==
  LET ws == [word EXCEPT ![c] = s]
  IN  /\ link[c] # "broken"
      /\ link' = [link EXCEPT ![c] = IF @ = "pending" THEN "told" ELSE @]
      /\ word' = ws
      /\ IF Accepts(c, s) /\ s # master
           THEN master' = s /\ changeMasterState(master, s, ws)
           ELSE UNCHANGED <<dm, ignore, master>>
      /\ UNCHANGED <<shutter, waiting, silent, settled, Values, asked>>

\* The state of a connection to a central server: it breaks or is refused at
\* any time, is tried again by DevConnectionMaster::idle, and counts as up
\* when the register command is acknowledged, after the first status message.
LinkStep(c, from, to) ==
  /\ link[c] \in from
  /\ link' = [link EXCEPT ![c] = to]
  /\ UNCHANGED <<shutter, dm, word, master, ignore, waiting, silent, settled,
                 Values, asked>>

connectionError(c) == LinkStep(c, {"pending", "told", "up"}, "broken")
connConnected(c)   == LinkStep(c, {"broken"}, "pending")
registered(c)      == LinkStep(c, {"told"}, "up")

-----------------------------------------------------------------------------
(***************************************************************************)
(* Commands and values.                                                    *)
(***************************************************************************)
commandOpen ==
  /\ \E ret \in OpenOutcomes :
       dm' = domeOpenStart(dm, isGoodWeather(word), ret)
  /\ UNCHANGED <<shutter, link, word, master, ignore, waiting, silent, settled,
                 Values, asked>>

commandClose ==
  /\ \E ret \in CloseOutcomes : dm' = domeCloseStart(dm, ret)
  /\ UNCHANGED <<shutter, link, word, master, ignore, waiting, silent, settled,
                 Values, asked>>

\* DOME_STOPPED is taken for one of the dome states.
FaultyDomeStop ==
  /\ \E stopped \in BOOLEAN :
       dm' = [dm EXCEPT !.retry = FALSE,
                        !.dome = IF stopped THEN "stopped" ELSE @,
                        !.motor = IF stopped THEN "none" ELSE @]
  /\ UNCHANGED <<shutter, link, word, master, ignore, waiting, silent, settled,
                 Values, asked>>

\* stop: the driver may not be able to.  The state is not changed otherwise.
domeStop ==
  /\ \E stopped \in BOOLEAN :
       dm' = [dm EXCEPT !.retry = FALSE,
                        !.stopped = @ \/ stopped,
                        !.motor = IF stopped THEN "none" ELSE @]
  /\ UNCHANGED <<shutter, link, word, master, ignore, waiting, silent, settled,
                 Values, asked>>

\* close_for: the time given replaces next_open, even when it is earlier.
closeFor(future) ==
  /\ waiting' = future
  /\ \E ret \in CloseOutcomes : dm' = domeCloseStart(dm, ret)
  /\ UNCHANGED <<shutter, link, word, master, ignore, silent, settled,
                 Values, asked>>

resetNext ==
  /\ waiting' = FALSE
  /\ UNCHANGED <<shutter, dm, link, word, master, ignore, silent, settled,
                 Values, asked>>

\* Called by drivers, for a time later than next_open.
setWeatherTimeout ==
  /\ waiting' = TRUE
  /\ dm' = [dm EXCEPT !.weather = "bad"]
  /\ UNCHANGED <<shutter, link, word, master, ignore, silent, settled,
                 Values, asked>>

\* Writes of ignore_time, weather_open and, where it exists, auto_close.
setValues ==
  /\ ignore' \in BOOLEAN
  /\ weatherOpens' \in WeatherOpens
  /\ autoClose' \in IF InhibitAutoClose THEN BOOLEAN ELSE {TRUE}
  /\ UNCHANGED <<shutter, dm, link, word, master, waiting, silent, settled,
                 asked>>

\* Time passes: ignore_time and next_open are reached, the connections had their
\* time to settle, the last contact with all central servers is too long ago.
timesReached ==
  /\ ignore' \in {ignore, FALSE}
  /\ waiting' \in {waiting, FALSE}
  /\ UNCHANGED <<shutter, dm, link, word, master, silent, settled, Values, asked>>

settleTimeReached ==
  /\ settled' = TRUE
  /\ UNCHANGED <<shutter, dm, link, word, master, ignore, waiting, silent,
                 Values, asked>>

contactTimeReached ==
  /\ silent' = TRUE
  /\ UNCHANGED <<shutter, dm, link, word, master, ignore, waiting, settled,
                 Values, asked>>

-----------------------------------------------------------------------------
\* The driver finds the shutter anywhere, at rest; the status word is 0.
Init ==
  /\ shutter \in {"closed", "between", "open"}
  /\ dm = [dome |-> "unknown", blocks |-> {}, bop |-> FALSE,
           stopped |-> FALSE, weather |-> "good", retry |-> FALSE,
           motor |-> "none"]
  /\ link = [c \in Centralds |-> "broken"]
  /\ master = [onoff |-> "hard_off", period |-> DAY, weather |-> "good"]
  /\ word = [c \in Centralds |->
              [onoff |-> "on", period |-> DAY, weather |-> "good"]]
  /\ ignore \in BOOLEAN
  /\ waiting \in BOOLEAN
  /\ silent = FALSE
  /\ settled = FALSE
  /\ autoClose = ~InhibitAutoClose
  /\ weatherOpens \in WeatherOpens
  /\ asked = "none"

LinkSteps == \E c \in Centralds :
  \/ \E s \in MasterWords : masterStatus(c, s)
  \/ connectionError(c)
  \/ connConnected(c)
  \/ registered(c)

CommandStep ==
  \/ commandOpen
  \/ commandClose
  \/ domeStop
  \/ \E future \in BOOLEAN : closeFor(future)
  \/ resetNext
  \/ setValues

Next ==
  \/ idle
  \/ closeRetry
  \/ LinkSteps
  \/ CommandStep
  \/ setWeatherTimeout
  \/ shutterMoves
  \/ timesReached
  \/ settleTimeReached
  \/ contactTimeReached

\* The main loop runs idle and fires timers for ever and time passes.  The
\* driver is not dead: a shutter that is driven again and again moves, and a
\* close that is asked for again and again starts.
Fairness ==
  /\ WF_vars(idle)
  /\ WF_vars(settleTimeReached)
  /\ WF_vars(~allCentraldRunning /\ contactTimeReached)
  /\ SF_vars(idle /\ dm'.motor = "closing")
  /\ SF_vars(shutterMoves)

Spec == Init /\ [][Next]_vars

FairSpec == Spec /\ Fairness

-----------------------------------------------------------------------------
(***************************************************************************)
(* Properties.                                                             *)
(***************************************************************************)
\* Type correctness of the state the dome keeps.
TypeOK ==
  /\ shutter \in {"closed", "between", "open"}
  /\ dm \in DomeStatus
  /\ link \in [Centralds -> {"broken", "pending", "told", "up"}]
  /\ word \in [Centralds -> MasterWord]
  /\ master \in MasterWord
  /\ ignore \in BOOLEAN
  /\ waiting \in BOOLEAN
  /\ silent \in BOOLEAN
  /\ settled \in BOOLEAN
  /\ autoClose \in BOOLEAN
  /\ weatherOpens \in BOOLEAN
  /\ asked \in {"none", "on", "standby"}

\* The three parts of the status word that others act on fit together after
\* every sequence of movements, interruptions and retries: centrald's
\* sequences wait on the block bits, the cameras on BOP_EXPOSURE, people read
\* the dome state.  (closed does not exclude BOP_EXPOSURE: see domeCloseStart.)
StatusCoherent ==
  /\ dm.dome = "closed" => dm.blocks = {"open"}
  /\ dm.dome = "opened" => dm.blocks = {"close"} /\ ~dm.bop
  /\ dm.dome = "opening" => dm.blocks = {"open", "close"} /\ dm.bop
  /\ dm.dome = "closing" => dm.blocks = {"open", "close"} /\ ~dm.bop

\* A dome that reports a movement is moving: the motor runs that way, or rests
\* because the end switch has been reached or someone used the stop command,
\* whatever commands, state changes and bad weather crossed on the way.
MovementIsDriven ==
  /\ dm.dome = "opening" =>
       \/ dm.motor = "opening"
       \/ dm.motor = "none" /\ (shutter = "open" \/ dm.stopped)
  /\ dm.dome = "closing" =>
       \/ dm.motor = "closing"
       \/ dm.motor = "none" /\ (shutter = "closed" \/ dm.stopped)

\* A retry timer is pending only for a close that still waits for the
\* equipment: it never closes a dome that has been opened in the meantime.
RetryWhileWaiting == dm.retry => dm.dome = "wait_closing"

\* The shutter is driven open only when every central server is connected and
\* calls the weather good and next_open has passed, or when the operator told
\* the dome to ignore the weather; whoever asked for it, and whichever server
\* had its word accepted.
OpensInGoodWeather ==
  [][ dm.motor # "opening" /\ dm'.motor = "opening" =>
        \/ ignore
        \/ /\ \A c \in Centralds : link'[c] = "up" /\ word'[c].weather = "good"
           /\ ~waiting ]_vars

\* The servers that are not the state master can only restrain the dome: none
\* of their words starts an opening while the weather is being respected.
OthersOnlyRestrain ==
  [][ \A c \in Centralds \ {StateMaster}, s \in MasterWords :
        masterStatus(c, s) /\ dm'.motor = "opening" /\ ~ignore =>
          dm.motor = "opening" ]_vars

\* Bad weather that does not end closes the shutter for good, from any state
\* of the dome, its timers and the driver, though the driver may refuse or
\* report errors in between.
BadWeatherCloses ==
  <>[](~isGoodWeather(word) /\ autoClose) => <>[](shutter = "closed")

\* An opening, which blocks all exposures of the observatory, ends whatever the
\* driver, the weather and the operators do, unless the stop command is used.
OpeningEnds == dm.dome = "opening" ~> dm.dome # "opening" \/ dm.stopped

\* The dome votes against opening when next_open lies in the future or a
\* central server stays away, also when no weather station does.
ReluctanceVoted ==
  /\ waiting ~> ~waiting \/ dm.weather = "bad"
  /\ ~allCentraldRunning ~> allCentraldRunning \/ dm.weather = "bad"

\* The manual page on --state-master: day, evening .. morning transitions
\* "are accepted only from a single master server".
PeriodFromMaster ==
  [][ \A c \in Centralds \ {StateMaster}, s \in MasterWords :
        masterStatus(c, s) => master'.period = master.period ]_vars

\* The manual page on several central servers: for the dome to open, all "must
\* be in at least standby state".  Said of the openings the state master causes.
AllAtLeastStandby ==
  [][ \A s \in MasterWords :
        /\ masterStatus(StateMaster, s)
        /\ ~ignore /\ dm.motor # "opening" /\ dm'.motor = "opening"
        => \A c \in Centralds : word'[c].onoff \in {"on", "standby"} ]_vars

\* The comment of startClose, "Called when dome needs to be closed": a dome that
\* was told to close and reports CLOSED is not being driven open.
ClosedIsNotOpening == dm.dome = "closed" => dm.motor # "opening"
=============================================================================
