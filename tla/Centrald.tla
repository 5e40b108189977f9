------------------------------ MODULE Centrald ------------------------------
(***************************************************************************)
(* The central server of RTS2 (src/centrald/centrald.cpp).                  *)
(*                                                                         *)
(* Every device of an observatory keeps one connection to centrald and     *)
(* reports its status word on it.  Centrald derives from the words a       *)
(* weather vote and a stop vote, combines them with the on/off state the   *)
(* operator asked for and with the period of the day, and drives the       *)
(* opening sequence (and its reverse, for closing) of the building.        *)
(*                                                                         *)
(* A status word is abstracted to the fields the votes and the sequences   *)
(* read.  The centrald state word is the record st.  One handler of the    *)
(* single-threaded main loop is one action; a handler that masks the state *)
(* word several times runs stateChanged once for every mask that changes   *)
(* it, in the order of the code, which is why the open/close bookkeeping   *)
(* is one record, oc, that the operators below thread through a handler.   *)
(*                                                                         *)
(* An operator whose name starts with Faulty is a plausible mistake in the *)
(* definition that follows it.  The specification never uses it; it shows  *)
(* that a property would notice the mistake.                               *)
(***************************************************************************)
EXTENDS Integers, Sequences, FiniteSets

CONSTANTS
  Devices,          \* device names
  NoDevice,         \* the empty name
  Words,            \* the status words the devices of this observatory report
  RequiredConfigs,  \* values required_devices may be given
  SequenceConfigs,  \* values open_sequence may be given
  Commands,         \* on/off commands operators and devices give
  ClientPeriods,    \* periods operators force with day .. morning commands
  Suns,             \* periods of the day at start-up
  Polar,            \* the sun does not rise: dawn is followed by dusk
  SunEvents,        \* time goes on past the end of the first period
  MaxTimers         \* bound on pending EVENT_CLOSE_TIMEOUT timers

VARIABLES
  conns,            \* the connection of every device, and its last status word
  required,         \* requiredDevices
  openSequence,     \* openSequence
  st,               \* the state word of centrald
  badWeatherDevices,
  badWeatherDevice, \* first device that reported bad weather; NoDevice if none
  oc,               \* open/close sequencing
  sun,              \* the period next_event would compute now (environment)
  due,              \* current time has reached next_event_time
  nextType,         \* next_event_type
  unvoted,          \* history: required devices no weather/stop vote has seen
  overridden        \* history: the operator replaced the computed period

vars == <<conns, required, openSequence, st, badWeatherDevices,
          badWeatherDevice, oc, sun, due, nextType, unvoted, overridden>>

DAY     == 0
EVENING == 1
DUSK    == 2
NIGHT   == 3
DAWN    == 4
MORNING == 5

OnOff == {"on", "standby", "soft_off", "hard_off"}

Word == [ready  : {"ready", "not_ready"},
         weather: {"good", "bad"},
         move   : {"can_move", "stop"},
         blocks : SUBSET {"open", "close"}]

\* ServerState before the first report: only DEVICE_NOT_READY is set.
InitWord == [ready |-> "not_ready", weather |-> "good",
             move |-> "can_move", blocks |-> {}]

ASSUME DevicesAssumption == NoDevice \notin Devices
ASSUME WordsAssumption == Words \subseteq Word
ASSUME ConfigsAssumption ==
  /\ RequiredConfigs \subseteq SUBSET Devices
  /\ SequenceConfigs \subseteq Seq(Devices)
ASSUME CommandsAssumption == Commands \subseteq OnOff
ASSUME PeriodsAssumption == /\ ClientPeriods \subseteq DAY .. MORNING
                            /\ Suns \subseteq DAY .. MORNING
ASSUME PolarAssumption == Polar \in BOOLEAN /\ SunEvents \in BOOLEAN
ASSUME MaxTimersAssumption == MaxTimers \in Nat

(***************************************************************************)
(* Connections.  "connected": CONN_CONNECTED.  "delete": connectionError   *)
(* has set CONN_DELETE and closed the socket, the connection is still in   *)
(* the list and keeps its last word until pollSuccess removes it.          *)
(***************************************************************************)
Connection == [link: {"none", "connected", "delete"}, word: Word]

Unlisted == [link |-> "none", word |-> InitWord]

Listed(cs, d) == cs[d].link # "none"

(***************************************************************************)
(* The votes (weatherChanged, stopChanged).  A required device fails       *)
(* unless it is connected and votes for, any other one fails when it       *)
(* votes against.                                                          *)
(***************************************************************************)
FaultyWeatherFailed(cs, req) ==
  {d \in Devices : cs[d].link = "connected" /\ cs[d].word.weather = "bad"}

WeatherFailed(cs, req) ==
  {d \in Devices : \/ Listed(cs, d) /\ cs[d].word.weather = "bad"
                   \/ d \in req /\ cs[d].link # "connected"}

FaultyStopFailed(cs, req) ==
  {d \in req : cs[d].link # "connected" \/ cs[d].word.move = "stop"}

StopFailed(cs, req) ==
  {d \in Devices : \/ Listed(cs, d) /\ cs[d].word.move = "stop"
                   \/ d \in req /\ cs[d].link # "connected"}

WeatherVote(cs, req) == IF WeatherFailed(cs, req) = {} THEN "good" ELSE "bad"

StopVote(cs, req) == IF StopFailed(cs, req) = {} THEN "can_move" ELSE "stop"

(***************************************************************************)
(* Open/close sequencing.  phase is openClose, last openCloseLast, failed  *)
(* failedClose; timers holds, oldest first, the device each pending        *)
(* EVENT_CLOSE_TIMEOUT was armed for (every timer runs 180 s, so they fire *)
(* in the order they were added); cmd is the last command queued on the    *)
(* connection of a device; by is history: who started the sequence.        *)
(***************************************************************************)
Sequencing ==
  [phase : {"none", "opening", "closing"},
   last  : Devices \cup {NoDevice},
   failed: SUBSET (Devices \cup {NoDevice}),
   timers: Seq(Devices),
   cmd   : [Devices -> {"none", "open", "close"}],
   by    : {"state", "client"}]

updateOpenClose(q) == [q EXCEPT !.phase = "none", !.last = NoDevice]

\* The first device of the sequence that is missing or blocks opening
\* decides; when there is none the sequence is complete.
doOpen(cs, seq, q) ==
  LET stops == {i \in DOMAIN seq : \/ ~Listed(cs, seq[i])
                                   \/ "open" \in cs[seq[i]].word.blocks}
      d == seq[CHOOSE i \in stops : \A j \in stops : i <= j]
  IN  IF stops = {} THEN updateOpenClose(q)
      ELSE IF ~Listed(cs, d) THEN [q EXCEPT !.phase = "none"]
      ELSE [q EXCEPT !.cmd = [@ EXCEPT ![d] = "open"], !.last = d]

\* The close command is repeated only when a new device is waited for.
FaultyDoCloseSilent(cs, seq, q) ==
  LET stops == {i \in DOMAIN seq : /\ Listed(cs, seq[i])
                                   /\ seq[i] \notin q.failed
                                   /\ "close" \in cs[seq[i]].word.blocks}
      d == seq[CHOOSE i \in stops : \A j \in stops : j <= i]
  IN  IF seq = << >> \/ (stops # {} /\ d = q.last) THEN q
      ELSE IF stops = {} THEN [updateOpenClose(q) EXCEPT !.failed = {}]
      ELSE [q EXCEPT !.cmd = [@ EXCEPT ![d] = "close"], !.last = d,
                     !.timers = Append(@, d)]

\* close_failed is not consulted.
FaultyDoCloseInsists(cs, seq, q) ==
  LET stops == {i \in DOMAIN seq : /\ Listed(cs, seq[i])
                                   /\ "close" \in cs[seq[i]].word.blocks}
      d == seq[CHOOSE i \in stops : \A j \in stops : j <= i]
  IN  IF seq = << >> THEN q
      ELSE IF stops = {} THEN [updateOpenClose(q) EXCEPT !.failed = {}]
      ELSE [q EXCEPT !.cmd = [@ EXCEPT ![d] = "close"], !.last = d,
                     !.timers = IF d = q.last THEN @ ELSE Append(@, d)]

\* The last device of the sequence that blocks closing and has not failed
\* decides; missing devices are skipped.
doClose(cs, seq, q) ==
  LET stops == {i \in DOMAIN seq : /\ Listed(cs, seq[i])
                                   /\ seq[i] \notin q.failed
                                   /\ "close" \in cs[seq[i]].word.blocks}
      d == seq[CHOOSE i \in stops : \A j \in stops : j <= i]
  IN  IF seq = << >> THEN q
      ELSE IF stops = {} THEN [updateOpenClose(q) EXCEPT !.failed = {}]
      ELSE [q EXCEPT !.cmd = [@ EXCEPT ![d] = "close"], !.last = d,
                     !.timers = IF d = q.last THEN @ ELSE Append(@, d)]

startOpen(cs, seq, q, who) ==
  doOpen(cs, seq, [q EXCEPT !.phase = "opening", !.by = who])

startClose(cs, seq, q, who) ==
  doClose(cs, seq, [q EXCEPT !.phase = "closing", !.by = who])

(***************************************************************************)
(* The state word.                                                         *)
(***************************************************************************)
State == [onoff: OnOff, period: DAY .. MORNING,
          weather: {"good", "bad"}, stop: {"can_move", "stop"}]

\* The condition under which stateChanged opens rather than closes.
OpenEligible(s) == /\ s.weather = "good"
                   /\ s.onoff = "on"
                   /\ s.period \in {DUSK, NIGHT, DAWN}

\* The sequence is turned around only to open.
FaultyStateChanged(old, new, cs, seq, q) ==
  IF new # old /\ OpenEligible(new) THEN startOpen(cs, seq, q, "state") ELSE q

\* Daemon::setState calls stateChanged only for a word that differs.
stateChanged(old, new, cs, seq, q) ==
  IF new = old THEN q
  ELSE IF OpenEligible(new) THEN startOpen(cs, seq, q, "state")
       ELSE startClose(cs, seq, q, "state")

\* A handler calls weatherChanged (when w) and then stopChanged (when s).
\* The state word after the first and after both calls, and the sequencing.
AfterWeather(cs, w) ==
  IF w THEN [st EXCEPT !.weather = WeatherVote(cs, required)] ELSE st

AfterVotes(cs, w, s) ==
  IF s THEN [AfterWeather(cs, w) EXCEPT !.stop = StopVote(cs, required)]
       ELSE AfterWeather(cs, w)

VotesSequencing(cs, w, s, q) ==
  stateChanged(AfterWeather(cs, w), AfterVotes(cs, w, s), cs, openSequence,
    stateChanged(st, AfterWeather(cs, w), cs, openSequence, q))

\* The reason of a past spell of bad weather is kept.
FaultyWeatherValues(cs, w, who) ==
  LET bad == WeatherFailed(cs, required)
      names == badWeatherDevice = NoDevice /\ who \in bad
  IN  /\ badWeatherDevices' = IF w THEN bad ELSE badWeatherDevices
      /\ badWeatherDevice' = IF w /\ names THEN who ELSE badWeatherDevice

\* The values weatherChanged publishes.  The first device of a spell of bad
\* weather is named only when it is the one (who) whose report is handled.
weatherValues(cs, w, who) ==
  LET bad == WeatherFailed(cs, required)
      names == /\ badWeatherDevice = NoDevice
               /\ who \in bad
               /\ cs[who].word.weather = "bad"
  IN  /\ badWeatherDevices' = IF w THEN bad ELSE badWeatherDevices
      /\ badWeatherDevice' = IF ~w THEN badWeatherDevice
                             ELSE IF bad = {} THEN NoDevice
                             ELSE IF names THEN who ELSE badWeatherDevice

\* What voting on the connection list cs does, the sequencing excepted.
Vote(cs, w, s, who) ==
  /\ st' = AfterVotes(cs, w, s)
  /\ weatherValues(cs, w, who)
  /\ unvoted' = [weather |-> IF w THEN {} ELSE unvoted.weather,
                 stop    |-> IF s THEN {} ELSE unvoted.stop]

\* The bound on pending timers, a conjunct of every action that arms one.
TimersBounded == Len(oc'.timers) <= MaxTimers

openCloseChanged(cs, q) ==
  CASE q.phase = "opening" -> doOpen(cs, openSequence, q)
    [] q.phase = "closing" -> doClose(cs, openSequence, q)
    [] OTHER -> q

-----------------------------------------------------------------------------
(***************************************************************************)
(* Handlers.                                                               *)
(***************************************************************************)
\* ConnCentrald::command, register: a name is taken while a connection of
\* that name is in the list, broken or not.  Registering does not vote.
register(d) ==
  /\ ~Listed(conns, d)
  /\ conns' = [conns EXCEPT ![d] = [link |-> "connected", word |-> InitWord]]
  /\ UNCHANGED <<required, openSequence, st, badWeatherDevices,
                 badWeatherDevice, oc, sun, due, nextType, unvoted, overridden>>

\* ConnCentrald::setState on a status message with word w.
setState(d, w) ==
  LET old == conns[d].word
      cs == [conns EXCEPT ![d] = [@ EXCEPT !.word = w]]
      isReady == old.ready = "not_ready" /\ w.ready = "ready"
      votesWeather == isReady \/ w.weather # old.weather
      votesStop == isReady \/ w.move # old.move
      q == VotesSequencing(cs, votesWeather, votesStop, oc)
  IN  /\ conns[d].link = "connected"
      /\ conns' = cs
      /\ Vote(cs, votesWeather, votesStop, d)
      /\ oc' = IF w.blocks # old.blocks THEN openCloseChanged(cs, q) ELSE q
      /\ TimersBounded
      /\ UNCHANGED <<required, openSequence, sun, due, nextType, overridden>>

\* Connection::connectionError outside of receive: a failed write, or the
\* keep-alive of Connection::idle running out.
connectionError(d) ==
  /\ conns[d].link = "connected"
  /\ conns' = [conns EXCEPT ![d] = [@ EXCEPT !.link = "delete"]]
  /\ UNCHANGED <<required, openSequence, st, badWeatherDevices,
                 badWeatherDevice, oc, sun, due, nextType, unvoted, overridden>>

\* The connection is dropped without a vote.
FaultyConnectionRemoved(d) ==
  /\ Listed(conns, d)
  /\ conns' = [conns EXCEPT ![d] = Unlisted]
  /\ UNCHANGED <<required, openSequence, st, badWeatherDevices,
                 badWeatherDevice, oc, sun, due, nextType, unvoted, overridden>>

\* Block::pollSuccess drops a connection (end of file, read error, or marked
\* for deletion before) and calls connectionRemoved.
connectionRemoved(d) ==
  LET cs == [conns EXCEPT ![d] = Unlisted]
  IN  /\ Listed(conns, d)
      /\ conns' = cs
      /\ Vote(cs, TRUE, TRUE, NoDevice)
      /\ oc' = VotesSequencing(cs, TRUE, TRUE,
                 [oc EXCEPT !.cmd = [@ EXCEPT ![d] = "none"]])
      /\ TimersBounded
      /\ UNCHANGED <<required, openSequence, sun, due, nextType, overridden>>

\* The same for the connection of a client, which never votes.
clientRemoved ==
  /\ Vote(conns, TRUE, TRUE, NoDevice)
  /\ oc' = VotesSequencing(conns, TRUE, TRUE, oc)
  /\ TimersBounded
  /\ UNCHANGED <<conns, required, openSequence, sun, due, nextType, overridden>>

\* next_event_type taken for the current period.
FaultyChangeState(onoff) ==
  LET new == [st EXCEPT !.onoff = onoff, !.period = nextType]
  IN  /\ st' = new
      /\ oc' = stateChanged(st, new, conns, openSequence, oc)
      /\ overridden' = FALSE
      /\ UNCHANGED <<conns, required, openSequence, badWeatherDevices,
                     badWeatherDevice, sun, due, nextType, unvoted>>

\* on, standby, soft_off and off: the period is recomputed from next_event_type.
changeState(onoff) ==
  LET new == [st EXCEPT !.onoff = onoff, !.period = (nextType + 5) % 6]
  IN  /\ st' = new
      /\ oc' = stateChanged(st, new, conns, openSequence, oc)
      /\ overridden' = FALSE
      /\ TimersBounded
      /\ UNCHANGED <<conns, required, openSequence, badWeatherDevices,
                     badWeatherDevice, sun, due, nextType, unvoted>>

\* day, evening, dusk, night, dawn and morning commands of a client.
changeStatePeriod(p) ==
  LET new == [st EXCEPT !.period = p]
  IN  /\ st' = new
      /\ oc' = stateChanged(st, new, conns, openSequence, oc)
      /\ overridden' = TRUE
      /\ TimersBounded
      /\ UNCHANGED <<conns, required, openSequence, badWeatherDevices,
                     badWeatherDevice, sun, due, nextType, unvoted>>

clientOpen ==
  /\ oc' = startOpen(conns, openSequence, oc, "client")
  /\ UNCHANGED <<conns, required, openSequence, st, badWeatherDevices,
                 badWeatherDevice, sun, due, nextType, unvoted, overridden>>

clientClose ==
  /\ oc' = startClose(conns, openSequence, oc, "client")
  /\ TimersBounded
  /\ UNCHANGED <<conns, required, openSequence, st, badWeatherDevices,
                 badWeatherDevice, sun, due, nextType, unvoted, overridden>>

\* required_devices and open_sequence are writable values; neither write
\* votes or restarts a sequence.
setRequired(r) ==
  /\ required' = r
  /\ unvoted' = [weather |-> unvoted.weather \cup (r \ required),
                 stop    |-> unvoted.stop \cup (r \ required)]
  /\ UNCHANGED <<conns, openSequence, st, badWeatherDevices,
                 badWeatherDevice, oc, sun, due, nextType, overridden>>

setOpenSequence(s) ==
  /\ openSequence' = s
  /\ UNCHANGED <<conns, required, st, badWeatherDevices, badWeatherDevice,
                 oc, sun, due, nextType, unvoted, overridden>>

\* reloadConfig: both arrays are read again and next_event_time is zeroed.
signaledHUP(r, s) ==
  /\ required' = r
  /\ unvoted' = [weather |-> unvoted.weather \cup (r \ required),
                 stop    |-> unvoted.stop \cup (r \ required)]
  /\ openSequence' = s
  /\ due' = TRUE
  /\ UNCHANGED <<conns, st, badWeatherDevices, badWeatherDevice, oc, sun,
                 nextType, overridden>>

FaultyNextPeriod(p) == p + 1

\* The period next_event names as the next one.
NextPeriod(p) == IF Polar /\ p = DAWN THEN DUSK ELSE (p + 1) % 6

\* Environment: the time of the next event passes.
SunMoves ==
  /\ SunEvents
  /\ sun' = NextPeriod(sun)
  /\ due' = TRUE
  /\ UNCHANGED <<conns, required, openSequence, st, badWeatherDevices,
                 badWeatherDevice, oc, nextType, unvoted, overridden>>

\* The morning switches every state to standby.
FaultyIdle ==
  /\ due
  /\ LET s1 == IF st.period = MORNING /\ sun = DAY
                THEN [st EXCEPT !.onoff = "standby"] ELSE st
         s2 == [s1 EXCEPT !.period = sun]
     IN  /\ st' = s2
         /\ oc' = stateChanged(s1, s2, conns, openSequence,
                    stateChanged(st, s1, conns, openSequence, oc))
  /\ due' = FALSE
  /\ nextType' = NextPeriod(sun)
  /\ overridden' = FALSE
  /\ UNCHANGED <<conns, required, openSequence, badWeatherDevices,
                 badWeatherDevice, sun, unvoted>>

\* Centrald::idle once next_event_time is reached.  morning_off and
\* morning_standby are writable at any time, so either value is possible.
idle ==
  /\ due
  /\ \E morning_off, morning_standby \in BOOLEAN :
       LET isMorningEnd == st.period = MORNING /\ sun = DAY
           s1 == IF isMorningEnd /\ morning_off
                   THEN [st EXCEPT !.onoff = "hard_off"]
                 ELSE IF /\ isMorningEnd /\ morning_standby
                         /\ st.onoff \notin {"hard_off", "soft_off"}
                   THEN [st EXCEPT !.onoff = "standby"]
                 ELSE st
           s2 == [s1 EXCEPT !.period = sun]
       IN  /\ st' = s2
           /\ oc' = stateChanged(s1, s2, conns, openSequence,
                      stateChanged(st, s1, conns, openSequence, oc))
  /\ due' = FALSE
  /\ nextType' = NextPeriod(sun)
  /\ overridden' = FALSE
  /\ TimersBounded
  /\ UNCHANGED <<conns, required, openSequence, badWeatherDevices,
                 badWeatherDevice, sun, unvoted>>

\* The timer does not ask whether centrald is still closing.
FaultyCloseTimeout ==
  LET q == [oc EXCEPT !.timers = Tail(@)]
  IN  /\ oc.timers # << >>
      /\ oc' = doClose(conns, openSequence,
                       [q EXCEPT !.failed = @ \cup {q.last}])
      /\ UNCHANGED <<conns, required, openSequence, st, badWeatherDevices,
                     badWeatherDevice, sun, due, nextType, unvoted, overridden>>

\* Block::idle fires the oldest timer; Centrald::postEvent handles it.
closeTimeout ==
  LET q == [oc EXCEPT !.timers = Tail(@)]
  IN  /\ oc.timers # << >>
      /\ oc' = IF q.phase = "closing"
               THEN doClose(conns, openSequence,
                            [q EXCEPT !.failed = @ \cup {q.last}])
               ELSE q
      /\ UNCHANGED <<conns, required, openSequence, st, badWeatherDevices,
                     badWeatherDevice, sun, due, nextType, unvoted, overridden>>

-----------------------------------------------------------------------------
\* Start-up: initValues keeps HARD_OFF or, with reboot_on, switches to on.
Init ==
  /\ conns = [d \in Devices |-> Unlisted]
  /\ required \in RequiredConfigs
  /\ openSequence \in SequenceConfigs
  /\ LET s0 == [onoff |-> "hard_off", period |-> DAY,
                weather |-> "bad", stop |-> "can_move"]
         q0 == [phase |-> "none", last |-> NoDevice, failed |-> {},
                timers |-> << >>, cmd |-> [d \in Devices |-> "none"],
                by |-> "state"]
     IN  \E onoff \in {"on", "hard_off"} :
           /\ st = [s0 EXCEPT !.onoff = onoff]
           /\ oc = stateChanged(s0, [s0 EXCEPT !.onoff = onoff],
                                [d \in Devices |-> Unlisted], openSequence, q0)
  /\ badWeatherDevices = {}
  /\ badWeatherDevice = NoDevice
  /\ sun \in Suns
  /\ due = TRUE
  /\ nextType = NextPeriod(sun)
  /\ unvoted = [weather |-> required, stop |-> required]
  /\ overridden = FALSE

DeviceStep == \E d \in Devices :
  \/ register(d)
  \/ \E w \in Words : setState(d, w)
  \/ connectionError(d)
  \/ connectionRemoved(d)

ClientStep ==
  \/ clientRemoved
  \/ \E o \in Commands : changeState(o)
  \/ \E p \in ClientPeriods : changeStatePeriod(p)
  \/ clientOpen
  \/ clientClose
  \/ \E r \in RequiredConfigs : setRequired(r)
  \/ \E s \in SequenceConfigs : setOpenSequence(s)
  \/ \E r \in RequiredConfigs, s \in SequenceConfigs : signaledHUP(r, s)

LoopStep == idle \/ closeTimeout

Next == DeviceStep \/ ClientStep \/ LoopStep \/ SunMoves

\* The main loop runs idle and fires timers for ever.  A connection marked
\* for deletion is removed by the next pollSuccess, which the keep-alive
\* traffic of the other connections guarantees.
Fairness ==
  /\ WF_vars(idle)
  /\ WF_vars(closeTimeout)
  /\ \A d \in Devices :
       WF_vars(conns[d].link = "delete" /\ connectionRemoved(d))

Spec == Init /\ [][Next]_vars

FairSpec == Spec /\ Fairness

-----------------------------------------------------------------------------
(***************************************************************************)
(* Properties.                                                             *)
(***************************************************************************)
\* Type correctness of the state centrald keeps.
TypeOK ==
  /\ conns \in [Devices -> Connection]
  /\ required \in SUBSET Devices
  /\ openSequence \in Seq(Devices)
  /\ st \in State
  /\ badWeatherDevices \in SUBSET Devices
  /\ badWeatherDevice \in Devices \cup {NoDevice}
  /\ oc \in Sequencing
  /\ sun \in DAY .. MORNING
  /\ due \in BOOLEAN
  /\ nextType \in DAY .. MORNING
  /\ unvoted \in [weather: SUBSET Devices, stop: SUBSET Devices]
  /\ overridden \in BOOLEAN

\* Good weather is unanimous: while centrald tells the observatory that the
\* weather is good, no connection in its list claims the opposite, and every
\* required device is in the list, except those that became required after
\* the last vote (weatherChanged is not called when the array is written).
WeatherUnanimous ==
  st.weather = "good" =>
    /\ \A d \in Devices : Listed(conns, d) => conns[d].word.weather = "good"
    /\ \A d \in required \ unvoted.weather : Listed(conns, d)

\* The same for the stop vote: while the telescope may move, no connection in
\* the list asks to stop and every required device a vote has seen is there.
MoveUnanimous ==
  st.stop = "can_move" =>
    /\ \A d \in Devices : Listed(conns, d) => conns[d].word.move = "can_move"
    /\ \A d \in required \ unvoted.stop : Listed(conns, d)

\* The published explanation agrees with the decision: bad_weather_devices is
\* empty and bad_weather_device unset whenever the weather is good, and
\* bad_weather_devices names every device that is voting against.
WeatherExplained ==
  /\ st.weather = "good" => /\ badWeatherDevices = {}
                            /\ badWeatherDevice = NoDevice
  /\ \A d \in Devices : /\ Listed(conns, d)
                        /\ conns[d].word.weather = "bad"
                        => d \in badWeatherDevices

\* An opening sequence that no operator started runs only while the system is
\* on, the weather is good and the sun is down; a closing one only while this
\* does not hold (stateChanged turns the sequence around at every change).
SequenceJustified ==
  oc.by = "state" =>
    /\ oc.phase = "opening" => OpenEligible(st)
    /\ oc.phase = "closing" => ~OpenEligible(st)

\* A device waits in open_close_last only for a reason: while a sequence runs
\* the device it names has been ordered to do what the sequence does, unless
\* its connection was lost since.
LastWasOrdered ==
  /\ oc.phase # "none" /\ openSequence # << >> => oc.last # NoDevice
  /\ oc.last # NoDevice /\ Listed(conns, oc.last) =>
       /\ oc.phase = "opening" => oc.cmd[oc.last] \in {"open", "none"}
       /\ oc.phase = "closing" => oc.cmd[oc.last] \in {"close", "none"}

\* Unless the operator forced a period, the period is the one the sun calls
\* for as soon as idle has handled the last event; on, standby and off
\* commands in between restore it from next_event_type and do not disturb it.
PeriodFollowsSun == ~due /\ ~overridden => st.period = sun

\* idle never wakes a system that was switched off: only an operator command
\* leaves hard_off, and soft_off is left by idle only for hard_off.
OffStaysOff ==
  [][ (\A o \in OnOff : ~changeState(o)) =>
        /\ st.onoff = "hard_off" => st'.onoff = "hard_off"
        /\ st.onoff = "soft_off" => st'.onoff \in {"soft_off", "hard_off"} ]_vars

\* A device is given up only for not closing: close_failed grows only in a
\* closing sequence, when a timeout expires, and by the one device the
\* sequence was waiting for (a timeout left over from a sequence that was
\* turned around must not condemn anybody while the building opens).
GivenUpWhileClosing ==
  [][ oc'.failed \ oc.failed # {} =>
        /\ oc.phase = "closing" /\ oc.timers # << >>
        /\ oc'.failed \ oc.failed = {oc.last} ]_vars

\* A closing sequence with a pending timeout for the device it waits for ends
\* whatever the devices do: each device closes or is given up when its timer
\* fires, and the sequence moves on to the next one.
Watched == \E i \in DOMAIN oc.timers : oc.timers[i] = oc.last

CloseSequenceEnds ==
  oc.phase = "closing" /\ Watched /\ openSequence # << >>
    ~> oc.phase # "closing" \/ openSequence = << >>

\* A broken connection of a required device is noticed: it is removed from
\* the list, which calls for a vote the device fails, unless it registers
\* again or stops being required.
DeadRequiredVoted ==
  \A d \in Devices :
    conns[d].link = "delete" /\ d \in required
      ~> st.weather = "bad" \/ d \notin required

\* The comment of weatherChanged: it "is also called periodically, as weather
\* can go bad".  Then good weather the devices and required_devices no longer
\* call for would not last.
VoteRefreshed == []<>(WeatherVote(conns, required) = "bad" => st.weather = "bad")

\* The value open_close_timeout, "timeout for open/close device": the device a
\* closing sequence waits for has a timeout that will expire.
CloseWatched == oc.phase = "closing" /\ oc.last # NoDevice => Watched

\* The same value read the other way: a device is declared failed by its own
\* timeout, not by one armed for a device of an earlier sequence.
OwnTimeout ==
  [][ oc'.failed \ oc.failed # {} => Head(oc.timers) = oc.last ]_vars
=============================================================================
