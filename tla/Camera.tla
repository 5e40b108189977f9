------------------------------- MODULE Camera -------------------------------
(***************************************************************************)
(* The camera skeleton (lib/rts2/camd.cpp, class rts2camd::Camera) with    *)
(* the queue of value changes it takes from lib/rts2/device.cpp: when an   *)
(* exposure is begun, queued or put off, and what is told to whom.         *)
(*                                                                         *)
(* A client's "expose" begins an exposure at once, is counted in           *)
(* quedExpNumber while the chip is in use, waits until the BOP state of    *)
(* the camera has no BOP_EXPOSURE, or waits until the value changes that   *)
(* were queued before it have been made.  The methods call each other in   *)
(* circles: every change of the status word goes through maskState, which  *)
(* makes value changes that are due, which sets the BOP state, which may   *)
(* begin an exposure, which changes the status word.                       *)
(*                                                                         *)
(* The camera has no shutter control (expType == NULL) and one filter      *)
(* wheel; a focuser behaves as the wheel does.  Its state is one record,   *)
(* and each operator is one method, from the camera before the call to the *)
(* camera after it.                                                        *)
(***************************************************************************)
EXTENDS Naturals, Integers, Sequences

CONSTANTS
  Clients,
  FrameTransfer,   \* supportFrameTransfer ()
  Bits,            \* BOP bits other devices set: "EXPOSURE", "TRIG"
  Kinds,           \* kinds of values: "filter", "window"
  MaxAsked,        \* bound on the expose commands
  MaxLine          \* bound on unread messages of centrald

ASSUME FrameTransferAssumption == FrameTransfer \in BOOLEAN
ASSUME BitsAssumption ==
  Bits \subseteq {"EXPOSURE", "TRIG"} /\ Kinds \subseteq {"filter", "window"}
ASSUME BoundsAssumption == MaxAsked \in Nat /\ MaxLine \in Nat \ {0}

NoConn == "none"
ASSUME ClientsAssumption == NoConn \notin Clients

VARIABLES
  cam,        \* the camera
  line,       \* BOP states sent by centrald and not read
  blockers,   \* BOP state made of the status words of the other devices
  asked,      \* history: number of expose commands taken
  silent      \* history: a status_info was answered without a BOP state, and
              \* none has been read since

vars == <<cam, line, blockers, asked, silent>>

\* BOP bits of the camera's own status word
Blocking == {"TEL_MOVE", "WILL_EXPOSE"}

Camera ==
  [st: SUBSET {"EXPOSING", "READING", "FT", "TEL_MOVE", "WILL_EXPOSE"},
   n: Nat,                          \* quedExpNumber
   waitQue: BOOLEAN,                \* waitingForEmptyQue
   waitBop: BOOLEAN,                \* waitingForNotBop
   okLater: BOOLEAN,                \* sendOkInExposure
   care: BOOLEAN,                   \* lastCareBlock
   conn: Clients \cup {NoConn},     \* exposureConn
   que: SUBSET Kinds,               \* queValues
   bop: SUBSET {"EXPOSURE", "TRIG"},  \* fullBopState, its bits that matter
   moving: BOOLEAN,                 \* the filter wheel turns
   asks: Nat,                       \* status_info commands not answered
   told: SUBSET Blocking,           \* BOP bits of the last status word sent
   news: BOOLEAN,                   \* centrald has not read that they changed
   num: Nat,                        \* exposureNumber
   owes: [Clients -> Int],          \* commands of each client not answered
   failed: BOOLEAN,                 \* history: an exposure did not start or
                                    \* could not be read
   works: BOOLEAN,                  \* the hardware does what it is told
   cut: BOOLEAN]                    \* the nesting of calls went too deep

TypeOK ==
  /\ cam \in Camera /\ cam.works /\ ~cam.cut
  /\ line \in Seq(SUBSET Bits) /\ blockers \in SUBSET Bits
  /\ asked \in 0 .. MaxAsked /\ silent \in BOOLEAN

Init ==
  /\ cam = [st |-> {}, n |-> 0, waitQue |-> FALSE, waitBop |-> FALSE,
            okLater |-> FALSE, care |-> TRUE, conn |-> NoConn, que |-> {},
            bop |-> {}, moving |-> FALSE, asks |-> 0, told |-> {},
            news |-> FALSE, num |-> 0,
            owes |-> [x \in Clients |-> 0], failed |-> FALSE, works |-> TRUE,
            cut |-> FALSE]
  /\ line = << >> /\ blockers = {} /\ asked = 0 /\ silent = FALSE

(***************************************************************************)
(* The methods that call each other.  An operator named ...With takes the  *)
(* setFullBopState it calls as its first argument.                         *)
(***************************************************************************)
Chip == {"EXPOSING", "READING"}

\* Mutant: the window may change while the chip is read out.
FaultyStateCondition(k) == {"EXPOSING"}

\* The states in which a value must not change.
StateCondition(k) == IF k = "filter" THEN {"EXPOSING"} ELSE Chip

\* Where the code would end the command of a lost client (a start that fails
\* for a filter that has moved, camd.cpp:1810), nothing is sent.
sendCommandEnd(c, x) ==
  IF x \in Clients THEN [c EXCEPT !.owes[x] = @ - 1] ELSE c

\* doSetValue
Apply(c, ks) == [c EXCEPT !.moving = @ \/ "filter" \in ks]

\* Mutant: centrald is not asked for the devices that block.
FaultyResume(c) == [c EXCEPT !.n = @ + 1, !.waitBop = TRUE]

\* The exposure that waited for the value changes waits for the BOP state.
Resume(c) == [c EXCEPT !.n = @ + 1, !.waitBop = TRUE, !.asks = @ + 1]

\* Device::checkQueChanges: the queued changes that fakeState lets be made.
Due(c, fakeState) == {k \in c.que : StateCondition(k) \cap fakeState = {}}

\* The changes are made, and the BOP state is set to the camera's own status
\* word, of which only the TRIG bit matters here.
MakeDue(Bop(_, _), c, due) ==
  IF due = {} THEN c
  ELSE Bop(Apply([c EXCEPT !.que = @ \ due], due), c.bop \cap {"TRIG"})

\* No change is left: the exposure that waited for them goes on.
QueEmptied(c) ==
  IF c.que # {} \/ ~c.waitQue THEN c
  ELSE IF c.conn = NoConn THEN [c EXCEPT !.waitQue = FALSE, !.okLater = TRUE]
  ELSE Resume([c EXCEPT !.waitQue = FALSE, !.okLater = TRUE])

\* Camera::checkQueChanges and Device::checkQueChanges
checkQueChangesWith(Bop(_, _), c, fakeState) ==
  IF c.n > 0 /\ fakeState \cap Chip # {} THEN c
  ELSE QueEmptied(MakeDue(Bop, c, Due(c, fakeState)))

\* The status word is sent; centrald reacts when its BOP bits have changed.
sendStatusMessage(c) ==
  LET b == c.st \cap Blocking
  IN  IF b = c.told THEN c ELSE [c EXCEPT !.told = b, !.news = TRUE]

\* maskState, setState and stateChanged
maskStateWith(Bop(_, _), c, off, on) ==
  LET d == [c EXCEPT !.st = (@ \ off) \cup on]
  IN  IF d.st = c.st THEN c
      ELSE sendStatusMessage(checkQueChangesWith(Bop, d, d.st))

\* The client that waited is told that its exposure has begun.
TellBegun(c) ==
  IF c.okLater /\ c.conn # NoConn
  THEN sendCommandEnd([c EXCEPT !.okLater = FALSE], c.conn) ELSE c

Launch(Bop(_, _), c) ==
  IF c.works
  THEN TellBegun(maskStateWith(Bop, c, {"WILL_EXPOSE"}, {"EXPOSING", "TEL_MOVE"}))
  ELSE [maskStateWith(Bop, c, {"TEL_MOVE"}, {}) EXCEPT !.failed = TRUE]

\* camStartExposureWithoutCheck
StartWith(Bop(_, _), c) ==
  Launch(Bop, maskStateWith(Bop, [c EXCEPT !.num = @ + 1], {}, {"TEL_MOVE"}))

\* Device::setFullBopState; queued values count as a reason not to expose.
deviceBop(c, new) ==
  [c EXCEPT !.bop = new \cup (IF c.que # {} THEN {"EXPOSURE"} ELSE {})]

\* Mutant: an exposure begins while another one goes on.
FaultyChipBusy(c) == ~FrameTransfer /\ "READING" \in c.st

\* setFullBopState does "not start if already exposing".
ChipBusy(c) ==
  \/ "EXPOSING" \in c.st
  \/ ~FrameTransfer /\ "READING" \in c.st

\* An exposure that was put off may begin.
MayBegin(c, new) == "EXPOSURE" \notin new /\ c.n > 0 /\ c.waitBop

\* Camera::setFullBopState
BopWith(Bop(_, _), c, new) ==
  LET d == deviceBop(c, new)
  IN  IF ~MayBegin(d, new) THEN d
      ELSE IF "TRIG" \in new /\ "WILL_EXPOSE" \notin d.st
      THEN maskStateWith(Bop, d, {}, {"WILL_EXPOSE"})
      ELSE IF ChipBusy(d) THEN d
      ELSE StartWith(Bop, [d EXCEPT !.waitBop = FALSE, !.n = @ - 1])

\* Three calls deep, setFullBopState finds nothing more to begin.
Bop0(c, new) == [deviceBop(c, new) EXCEPT !.cut = @ \/ MayBegin(c, new)]
Bop1(c, new) == BopWith(Bop0, c, new)
setFullBopState(c, new) == BopWith(Bop1, c, new)

checkQueChanges(c, fakeState) ==
  checkQueChangesWith(setFullBopState, c, fakeState)
maskState(c, off, on) == maskStateWith(setFullBopState, c, off, on)
camStartExposureWithoutCheck(c) == StartWith(setFullBopState, c)

(***************************************************************************)
(* The other methods.                                                      *)
(***************************************************************************)
camStartExposure(c) ==
  IF c.care /\ (c.bop # {} \/ c.moving)
  THEN LET d == [c EXCEPT !.n = @ + 1, !.waitBop = TRUE]
       IN  IF c.bop = {"TRIG"} THEN maskState(d, {}, {"WILL_EXPOSE"}) ELSE d
  ELSE camStartExposureWithoutCheck(c)

\* camExpose finds the chip in use, or value changes to be made before.
InUse(c, chipState, fromQue) ==
  \/ "EXPOSING" \in chipState
  \/ "READING" \in chipState /\ ~FrameTransfer
  \/ c.que # {} /\ ~fromQue

\* Mutants: the exposure stays in the queue when it begins, or is taken from
\* it even if it was not there.
FaultyDequeued(n) == n
FaultyDequeuedAlways(n) == n - 1

Dequeued(n) == IF n > 0 THEN n - 1 ELSE 0

\* An exposure that could not be started, d, is a failure of the command.
TellFailed(c, d, x) ==
  IF ~c.works /\ d.num # c.num THEN sendCommandEnd(d, x) ELSE d

camExpose(c, x, chipState, fromQue) ==
  IF InUse(c, chipState, fromQue)
  THEN IF ~fromQue /\ c.que = {} THEN [c EXCEPT !.n = @ + 1]
       ELSE [c EXCEPT !.waitQue = TRUE]
  ELSE TellFailed(c, camStartExposure([c EXCEPT !.n = Dequeued(@), !.conn = x]), x)

Off == {"EXPOSING", "READING", "FT", "TEL_MOVE", "WILL_EXPOSE"}

\* With frame transfer the next exposure may begin while the last is read.
NextExposure(c) ==
  IF c.que = {} THEN camExpose(c, c.conn, c.st \ {"EXPOSING"}, TRUE) ELSE c

BeginReadout(c) ==
  IF c.n > 0 /\ FrameTransfer
  THEN NextExposure(maskState(checkQueChanges(c, c.st \ {"EXPOSING"}), {},
                              {"READING", "FT"}))
  ELSE maskState(c, {"EXPOSING", "TEL_MOVE"}, {"READING"})

camReadout(c) ==
  IF c.works THEN BeginReadout(c)
  ELSE sendCommandEnd([maskState(BeginReadout(c), {"READING"}, {})
                         EXCEPT !.failed = TRUE], c.conn)

stopExposure(c) == [c EXCEPT !.n = 0]

endExposure(c) ==
  IF c.conn # NoConn THEN camReadout(c)
  ELSE maskState(stopExposure(c), Off, {})

(***************************************************************************)
(* Actions.                                                                *)
(***************************************************************************)
\* The hardware obeys in this step or fails: it does not start the exposure, or
\* there is no connection for the data to be read.
Hardware == {[cam EXCEPT !.works = w] : w \in BOOLEAN}
Settled(c) == [c EXCEPT !.works = TRUE]

Asking(c, x, care) == [c EXCEPT !.care = care, !.owes[x] = @ + 1]

\* The client is told at once unless its exposure waits for value changes, or
\* was told of the failure.
Told(c, d, x) ==
  IF \/ InUse(c, c.st, FALSE) /\ c.que # {}
     \/ ~c.works /\ d.num # c.num
  THEN d ELSE sendCommandEnd(d, x)

\* The command expose, or with care = FALSE the one without checks.  A client
\* has one command under way.
Expose(x, care) ==
  /\ asked < MaxAsked /\ cam.owes[x] <= 0
  /\ \E b \in Hardware :
       LET c == Asking(b, x, care)
       IN  cam' = Settled(Told(c, camExpose(c, x, c.st, FALSE), x))
  /\ asked' = asked + 1
  /\ UNCHANGED <<line, blockers, silent>>

\* Daemon::setCondValue
SetValue(k) ==
  /\ cam' = IF StateCondition(k) \cap cam.st # {}
            THEN [cam EXCEPT !.que = @ \cup {k}]
            ELSE Apply(cam, {k})
  /\ UNCHANGED <<line, blockers, asked, silent>>

\* The chip is free unless the next exposure has begun, d.
ExposureOver(c, d) ==
  maskState(d, IF d.num = c.num THEN {"EXPOSING", "FT", "TEL_MOVE"} ELSE {"FT"},
            {})

\* checkExposures finds the exposure finished (isExposing returns -2)
ExposureEnds ==
  /\ "EXPOSING" \in cam.st
  /\ \E c \in Hardware : cam' = Settled(ExposureOver(c, endExposure(c)))
  /\ UNCHANGED <<line, blockers, asked, silent>>

\* finished without an image to be read (-3), or failed (-1)
ExposureFails ==
  /\ "EXPOSING" \in cam.st
  /\ \/ cam' = endExposure([cam EXCEPT !.conn = NoConn])
     \/ cam' = stopExposure(maskState(cam, {"EXPOSING", "READING", "TEL_MOVE"},
                                      {}))
  /\ UNCHANGED <<line, blockers, asked, silent>>

endReadout(c) ==
  IF c.n > 0 /\ c.conn # NoConn
  THEN camExpose(c, c.conn, c.st \cap {"EXPOSING"}, TRUE) ELSE c

\* checkReadouts
ReadoutEnds ==
  /\ "READING" \in cam.st
  /\ \E c \in Hardware :
       cam' = Settled(maskState(endReadout(c), {"READING"}, {}))
  /\ UNCHANGED <<line, blockers, asked, silent>>

checkQueuedExposures(c) ==
  IF c.n > 0 THEN camExpose([c EXCEPT !.n = @ - 1], c.conn, c.st, FALSE) ELSE c

\* EVENT_FILTER_MOVE_END, also posted when the wheel reports its filter again or
\* its connection is lost, whether or not it turns
FilterMoveEnd ==
  /\ \E c \in Hardware :
       cam' = Settled(checkQueuedExposures([c EXCEPT !.moving = FALSE]))
  /\ UNCHANGED <<line, blockers, asked, silent>>

\* Device::killAll
deviceKillAll(c) == [c EXCEPT !.que = {}, !.n = 0]

\* Camera::killAll
KillAll ==
  /\ LET c == [stopExposure(cam) EXCEPT !.waitBop = FALSE, !.waitQue = FALSE,
                                        !.moving = FALSE]
     IN  cam' = deviceKillAll(maskState(c, Off, {}))
  /\ UNCHANGED <<line, blockers, asked, silent>>

\* The command stopexpo
StopExposure ==
  /\ cam' = maskState(stopExposure(cam), Off, {})
  /\ UNCHANGED <<line, blockers, asked, silent>>

\* Camera::scriptEnds; a report of an earlier kill is taken back, which is a
\* change of the status word.
ScriptEnds ==
  /\ LET c == [cam EXCEPT !.n = 0]
     IN  cam' \in {c, checkQueChanges(c, c.st)}
  /\ UNCHANGED <<line, blockers, asked, silent>>

\* The connection of a client is lost and made again.
DeleteConnection(x) ==
  /\ cam' = [cam EXCEPT !.conn = IF @ = x THEN NoConn ELSE @, !.owes[x] = 0]
  /\ UNCHANGED <<line, blockers, asked, silent>>

\* The other devices go on, those that block the camera or others; centrald
\* tells the camera.
BlockersChange ==
  /\ Len(line) < MaxLine
  /\ blockers' \in SUBSET Bits
  /\ line' = Append(line, blockers')
  /\ UNCHANGED <<cam, asked, silent>>

\* centrald reads a status word of the camera with other BOP bits and tells all
\* devices their BOP states, the camera among them (bopMaskChanged).  Of several
\* such words not read the last counts; BlockersChange sends as many messages.
CentraldTells ==
  /\ cam.news
  /\ line' = Append(line, blockers)
  /\ cam' = [cam EXCEPT !.news = FALSE]
  /\ UNCHANGED <<blockers, asked, silent>>

\* centrald answers a status_info with the BOP state.
Answered ==
  /\ line' = Append(line, blockers)
  /\ silent' = silent

\* It has no device in its list that may block the camera and returns at once:
\* nothing but the return is sent, on which the camera does nothing.
AnsweredPlainly ==
  /\ blockers = {}
  /\ line' = line
  /\ silent' = TRUE

CentraldAnswers ==
  /\ cam.asks > 0
  /\ Answered \/ AnsweredPlainly
  /\ cam' = [cam EXCEPT !.asks = @ - 1]
  /\ UNCHANGED <<blockers, asked>>

ReadBop ==
  /\ line # << >>
  /\ \E c \in Hardware : cam' = Settled(setFullBopState(c, Head(line)))
  /\ line' = Tail(line)
  /\ silent' = FALSE
  /\ UNCHANGED <<blockers, asked>>

Next ==
  \/ \E x \in Clients : \/ \E care \in BOOLEAN : Expose(x, care)
                        \/ DeleteConnection(x)
  \/ \E k \in Kinds : SetValue(k)
  \/ ExposureEnds \/ ExposureFails \/ ReadoutEnds \/ FilterMoveEnd
  \/ KillAll \/ StopExposure \/ ScriptEnds
  \/ BlockersChange \/ CentraldTells \/ CentraldAnswers \/ ReadBop

Spec == Init /\ [][Next]_vars

\* Exposures begun, and those still to be.
Taken == cam.num + cam.n + (IF cam.waitQue THEN 1 ELSE 0)

\* The mount is kept from moving as long as the chip is exposed, whatever
\* exposures begin, fail to begin or are taken from the queue meanwhile.
HoldsMount == "EXPOSING" \in cam.st => "TEL_MOVE" \in cam.st

\* There are never more exposures, begun, counted in quedExpNumber and waiting
\* for value changes together, than clients have asked for: none is begun from
\* two of the three places an exposure may wait in.
NoneUnasked == Taken <= asked

\* The window that was asked for after an exposure does not cut its image: a
\* queued change is never made before the readout that goes on is over.
WindowKept == [][ "window" \in cam.que /\ "window" \notin cam'.que =>
                    "READING" \notin cam'.st]_vars

\* No exposure is forgotten: while one is counted or waits for value changes,
\* something is under way that will begin it, the chip in use, a filter that
\* turns, a status_info that is not answered, a BOP state not read, or a device
\* at work.  Three faults are excepted: an exposure that did not start or could
\* not be read, after which nothing begins the next one; the loss of the
\* client; and an exposure that waits for the BOP state when centrald, asked
\* for it, had no device to ask and answered without one.
NoneForgotten ==
  (cam.n > 0 \/ cam.waitQue) /\ cam.conn # NoConn /\ ~cam.failed =>
    \/ cam.st \cap Chip # {} \/ cam.moving \/ cam.asks > 0
    \/ line # << >> \/ blockers # {}
    \/ silent /\ cam.waitBop

\* The transition "readout end" -> exposing [label="exposure_number>0"] of the
\* diagram in camd.h: a counted exposure is begun when the chip is free, or
\* something is under way that will begin it.  Not so in a camera whose queued
\* exposure asks centrald for the BOP state, and is answered without one.
ReadoutEndExposes ==
  cam.n > 0 /\ cam.conn # NoConn /\ ~cam.failed =>
    \/ cam.st \cap Chip # {} \/ cam.moving
    \/ cam.asks > 0 \/ cam.news \/ line # << >> \/ blockers # {}

\* "do not send OK, send it after we finish" (camExpose): a client is sent OK for
\* a command of its own.  exposureConn is still the client before when the
\* exposure that waited for value changes begins.
OkIsOwed == ~cam.failed => \A x \in Clients : cam.owes[x] >= 0
=============================================================================
