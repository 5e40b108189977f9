----------------------------- MODULE StatusRound ----------------------------
(***************************************************************************)
(* How a command learns that nothing blocks it: clients, devices and       *)
(* centrald composed over first-in first-out links.                        *)
(*                                                                         *)
(* A device at work (an exposing camera, a moving mount) has a BOP bit in  *)
(* its status word and so blocks commands of the devices that name it in   *)
(* their block_by list.  Before a client sends such a command it asks the  *)
(* device for its device_status; the device asks centrald for status_info; *)
(* centrald asks every device that may block the first one and, when all   *)
(* have answered or are gone, answers with the BOP state made of their     *)
(* status words (Device::queDeviceStatusCommand, Centrald::statusInfo,     *)
(* ConnCentrald::updateStatusWait).  Apart from these rounds centrald      *)
(* tells every device its BOP state whenever a status word changes.        *)
(*                                                                         *)
(* Values a client changes while a camera exposes or reads its chip wait   *)
(* in queValues.  They are reported as a reason not to expose, and when    *)
(* they are made the camera tells its clients its own status word for a    *)
(* BOP state (Device::checkQueChanges).                                    *)
(*                                                                         *)
(* Everything written to a socket stands in the out field of the           *)
(* connection it is written on, in the order it was written: "S0" and "S1" *)
(* are status words without and with the BOP bit, "B0" and "B1" BOP        *)
(* states, "+0" is a return code, a device's name is the status_info asked *)
(* on its behalf ("orphan" when the device is gone before it was sent);    *)
(* other strings are commands.                                             *)
(***************************************************************************)
EXTENDS Connection, Naturals, FiniteSets

CONSTANTS
  Devices, Clients,
  TargetOf,     \* the device each client commands
  BlockedBy,    \* block_by lists
  Cameras,      \* the devices that queue value changes
  Mortal,       \* devices that may crash
  MaxRuns       \* bound on the commands of each client

NoClient == "none"
Bit == "move"

ASSUME NamesAssumption ==
  /\ NoClient \notin Clients
  /\ Devices \cap {"none", "orphan", "run", "device_status", "status_info",
                   "S0", "S1", "B0", "B1", "+0"} = {}
ASSUME TopologyAssumption ==
  /\ TargetOf \in [Clients -> Devices]
  /\ BlockedBy \in [Devices -> SUBSET Devices]
  /\ Mortal \subseteq Devices /\ Cameras \subseteq Devices
ASSUME MaxRunsAssumption == MaxRuns \in [Clients -> Nat]

VARIABLES
  conn,       \* connection of every client to its device
  toClient,   \* what the device has written to each client
  master,     \* connection of every device to centrald
  peer,       \* connection of centrald to every device
  listed,     \* devices in centrald's list of connections
  word,       \* BOP bit of the last status word centrald has of each device
  waits,      \* statusCommandRunning of every connection of centrald
  owner,      \* owner of Device::deviceStatusCommand
  busy,       \* the device is at work
  reading,    \* cameras that read their chip after the work
  held,       \* cameras with value changes that wait (queValues)
  overwritten,  \* history: cameras that have told their clients their own word
                \* since they read a BOP state of centrald
  alive,
  since,      \* history: devices at work ever since the round of a device began,
              \* empty outside rounds
  runs        \* number of commands a client has queued

vars == <<conn, toClient, master, peer, listed, word, waits, owner, busy,
          reading, held, overwritten, alive, since, runs>>

camera == <<reading, held, overwritten>>

Texts == {"run", "device_status", "status_info", "S0", "S1", "B0", "B1", "+0",
          "orphan"} \cup Devices
Cmds == Command({"none"} \cup Texts, {Bit})
Conns == ConnectionRecord(Cmds, {Bit}, Texts)

TypeOK ==
  /\ conn \in [Clients -> Conns]
  /\ toClient \in [Clients -> Seq(Texts)]
  /\ master \in [Devices -> Conns] /\ peer \in [Devices -> Conns]
  /\ listed \in SUBSET Devices /\ alive \in SUBSET listed
  /\ word \in [Devices -> BOOLEAN] /\ busy \in [Devices -> BOOLEAN]
  /\ reading \in SUBSET Cameras /\ held \in SUBSET Cameras
  /\ overwritten \in SUBSET Cameras
  /\ waits \in [Devices -> Nat]
  /\ owner \in [Devices -> Clients \cup {NoClient}]
  /\ since \in [Devices -> SUBSET Devices]
  /\ \A x \in Clients : runs[x] \in 0 .. MaxRuns[x]

Init ==
  /\ busy = [d \in Devices |-> FALSE] /\ word = busy
  /\ conn = [x \in Clients |-> NewConnection("open")]
  /\ master = [d \in Devices |-> NewConnection("open")]
  /\ toClient = [x \in Clients |-> << >>]
  /\ peer = [d \in Devices |-> NewConnection("open")]
  /\ listed = Devices /\ alive = Devices
  /\ reading = {} /\ held = {} /\ overwritten = {}
  /\ waits = [d \in Devices |-> 0]
  /\ owner = [d \in Devices |-> NoClient]
  /\ since = [d \in Devices |-> {}]
  /\ runs = [x \in Clients |-> 0]

AtWork == {e \in alive : busy[e]}

StatusWord(b) == IF b THEN "S1" ELSE "S0"
BopState(b) == IF b THEN "B1" ELSE "B0"
BitsIn(m) == IF m = "B1" THEN {Bit} ELSE {}

\* What the sender's socket holds after the receiver has read one line.
Rest(c) == [c EXCEPT !.out = Tail(@)]

(***************************************************************************)
(* Clients.                                                                *)
(***************************************************************************)
ClientQueues(x) ==
  /\ conn[x].running = NoCommand
  /\ runs[x] < MaxRuns[x]
  /\ runs' = [runs EXCEPT ![x] = @ + 1]
  /\ conn' = [conn EXCEPT ![x] =
                queCommand(@, NewCommand("run", {Bit}, FALSE))]
  /\ UNCHANGED <<toClient, master, peer, listed, word, waits, owner, busy,
                 camera, alive, since>>

ClientReads(x) ==
  /\ toClient[x] # << >>
  /\ LET m == Head(toClient[x])
     IN  conn' = [conn EXCEPT ![x] =
                    IF m # "+0" THEN setBopState(@, BitsIn(m))
                    ELSE IF @.running = NoCommand THEN @ ELSE commandReturn(@)]
  /\ toClient' = [toClient EXCEPT ![x] = Tail(@)]
  /\ UNCHANGED <<master, peer, listed, word, waits, owner, busy, camera,
                 alive, since, runs>>

(***************************************************************************)
(* Devices.                                                                *)
(***************************************************************************)
\* Device::queDeviceStatusCommand.  deviceStatusCommand is one pointer; a
\* second client that asks takes the place of the first.
AsksStatus(x) ==
  LET d == TargetOf[x]
      m == queCommand(master[d], NewCommand("status_info", {}, FALSE))
  IN  /\ Head(conn[x].out) = "device_status"
      /\ owner' = [owner EXCEPT ![d] = x]
      /\ master' = [master EXCEPT ![d] = m]
      /\ since' = [since EXCEPT ![d] =
                     IF master[d].running = NoCommand
                     THEN AtWork ELSE @]
      /\ UNCHANGED <<toClient, busy>>

\* Any command that sets the BOP bit: the state is changed and sent before
\* the command returns.  A camera does not take it up before the value changes
\* that wait are made (waitingForEmptyQue).
Runs(x) ==
  LET d == TargetOf[x]
  IN  /\ Head(conn[x].out) = "run" /\ d \notin held
      /\ busy' = [busy EXCEPT ![d] = TRUE]
      /\ master' = IF busy[d] THEN master
                   ELSE [master EXCEPT ![d] = sendMsg(@, "S1")]
      /\ toClient' = [toClient EXCEPT ![x] = Append(@, "+0")]
      /\ UNCHANGED <<owner, since>>

DeviceReadsClient(x) ==
  /\ TargetOf[x] \in alive
  /\ conn[x].out # << >>
  /\ AsksStatus(x) \/ Runs(x)
  /\ conn' = [conn EXCEPT ![x] = Rest(@)]
  /\ UNCHANGED <<peer, listed, word, waits, camera, alive, runs>>

\* Daemon::setCondValue for a value that must not change now
QueuesValue(d) ==
  /\ d \in Cameras \cap alive
  /\ busy[d] \/ d \in reading
  /\ held' = held \cup {d}
  /\ UNCHANGED <<conn, toClient, master, peer, listed, word, waits, owner, busy,
                 reading, overwritten, alive, since, runs>>

\* Mutant: the owner of the device_status gets no return.
FaultyEndsStatus(d, ms) ==
  /\ toClient' = [x \in Clients |->
                    IF TargetOf[x] # d THEN toClient[x] ELSE toClient[x] \o ms]
  /\ owner' = [owner EXCEPT ![d] = NoClient]

\* Device::endDeviceStatusCommand, after the lines ms to every client
EndsStatus(d, ms) ==
  /\ toClient' = [x \in Clients |->
                    IF TargetOf[x] # d THEN toClient[x]
                    ELSE toClient[x] \o ms \o (IF owner[d] = x THEN <<"+0">>
                                               ELSE << >>)]
  /\ owner' = [owner EXCEPT ![d] = NoClient]

\* Mutant: the BOP state is made before the changes leave the queue.
FaultyMakesChanges(d, left) ==
  /\ d \in held
  /\ EndsStatus(d, <<BopState(TRUE)>>)
  /\ held' = IF left THEN held ELSE held \ {d}
  /\ overwritten' = overwritten \cup {d}

\* Device::checkQueChanges makes changes; others may be left, and are added
\* (maskQueValueBopState) to the BOP state told, which is the device's own word
\* and so without the bit: no change is due while the device is at work.
MakesChanges(d, left) ==
  /\ d \in held
  /\ EndsStatus(d, <<BopState(left)>>)
  /\ held' = IF left THEN held ELSE held \ {d}
  /\ overwritten' = overwritten \cup {d}

MakesNone == UNCHANGED <<toClient, owner, held, overwritten>>

\* Nothing holds the changes back any more.
MakesAll(d) ==
  \/ MakesChanges(d, FALSE)
  \/ d \notin held /\ MakesNone

\* The work ends, has failed or is stopped, and a camera has nothing to read.
Idles(d) ==
  /\ reading' = reading \ {d}
  /\ MakesAll(d)

\* The camera reads its chip: changes of the filter need not wait any longer.
BeginsReading(d) ==
  /\ d \in Cameras
  /\ reading' = reading \cup {d}
  /\ MakesNone \/ \E left \in BOOLEAN : MakesChanges(d, left)

\* maskState and Device::stateChanged
DeviceFinishes(d) ==
  /\ d \in alive /\ busy[d]
  /\ busy' = [busy EXCEPT ![d] = FALSE]
  /\ master' = [master EXCEPT ![d] = sendMsg(@, "S0")]
  /\ Idles(d) \/ BeginsReading(d)
  /\ since' = [e \in Devices |-> since[e] \ {d}]
  /\ UNCHANGED <<conn, peer, listed, word, waits, alive, runs>>

\* The chip has been read, which is a change of the status word, but not of its
\* BOP bits.  With frame transfer the next exposure may go on.
ReadingEnds(d) ==
  /\ d \in alive \cap reading
  /\ reading' = reading \ {d}
  /\ IF busy[d] THEN MakesNone ELSE MakesAll(d)
  /\ master' = [master EXCEPT ![d] = sendMsg(@, StatusWord(busy[d]))]
  /\ UNCHANGED <<conn, peer, listed, word, waits, busy, alive, since, runs>>

\* Device::statusInfo, and the return of the command
AnswersStatusInfo(d) ==
  /\ Head(peer[d].out) \in Devices \cup {"orphan"}
  /\ master' = [master EXCEPT ![d] =
                  sendMsg(sendMsg(@, StatusWord(busy[d])), "+0")]
  /\ UNCHANGED <<toClient, owner, overwritten, since>>

\* DevConnectionMaster::setBopState and Device::setFullBopState
ReadsBop(d) ==
  /\ Head(peer[d].out) \in {"B0", "B1"}
  /\ EndsStatus(d, <<IF d \in held THEN "B1" ELSE Head(peer[d].out)>>)
  /\ overwritten' = overwritten \ {d}
  /\ master' = [master EXCEPT ![d] = setBopState(@, BitsIn(Head(peer[d].out)))]
  /\ UNCHANGED since

\* The return of status_info (CommandDeviceStatusInfo::commandReturnOK); the
\* next round may begin with it.
ReadsReturn(d) ==
  /\ Head(peer[d].out) = "+0"
  /\ EndsStatus(d, << >>)
  /\ master' = [master EXCEPT ![d] = IF @.running = NoCommand THEN @
                                     ELSE commandReturn(@)]
  /\ since' = [since EXCEPT ![d] = IF master[d].queue = << >> THEN {} ELSE AtWork]
  /\ UNCHANGED overwritten

DeviceReadsMaster(d) ==
  /\ d \in alive
  /\ peer[d].out # << >>
  /\ AnswersStatusInfo(d) \/ ReadsBop(d) \/ ReadsReturn(d)
  /\ peer' = [peer EXCEPT ![d] = Rest(@)]
  /\ UNCHANGED <<conn, listed, word, waits, busy, reading, held, alive, runs>>

\* The memory of the device is lost; what it has written may still be read.
Crash(d) ==
  /\ d \in Mortal \cap alive
  /\ alive' = alive \ {d}
  /\ busy' = [busy EXCEPT ![d] = FALSE]
  /\ master' = [master EXCEPT ![d] =
                  [NewConnection("open") EXCEPT !.out = master[d].out]]
  /\ peer' = [peer EXCEPT ![d].out = << >>]
  /\ owner' = [owner EXCEPT ![d] = NoClient]
  /\ reading' = reading \ {d} /\ held' = held \ {d}
  /\ overwritten' = overwritten \ {d}
  /\ since' = [e \in Devices |-> IF e = d THEN {} ELSE since[e] \ {d}]
  /\ UNCHANGED <<conn, toClient, listed, word, waits, runs>>

(***************************************************************************)
(* centrald.                                                               *)
(***************************************************************************)
\* getStateForConnection: the BOP bits of the listed devices that block d
BopFor(l, w, d) == \E e \in l \cap BlockedBy[d] : w[e]

\* bopMaskChanged
TellAll(ps, l, w) ==
  [e \in Devices |-> IF e \in l THEN sendMsg(ps[e], BopState(BopFor(l, w, e)))
                     ELSE ps[e]]

\* A CommandStatusInfo queued on behalf of d; its text is that of d's name.
AskFor(d) == NewCommand(d, {}, FALSE)

\* queEmptyForOriginator: a returning command does not count.
PendingOn(c, d) ==
  \/ c.running = AskFor(d) /\ c.status # "RETURNING"
  \/ \E i \in DOMAIN c.queue : c.queue[i] = AskFor(d)

\* Mutant: the first device to answer ends the round.
FaultyAnswers(ps, l, d, excluded) == d \in l

\* updateStatusWait (conn): the answer to d, unless others still owe theirs;
\* every connection of excluded is left out of account.
Answers(ps, l, d, excluded) ==
  /\ d \in l
  /\ \A e \in l \ excluded : ~PendingOn(ps[e], d)

Answer(ps, l, w, d) ==
  [ps EXCEPT ![d] = sendMsg(sendMsg(@, BopState(BopFor(l, w, d))), "+0")]

\* Mutant: the round is not counted.
FaultyStatusInfo(d) ==
  LET asked == (listed \cap BlockedBy[d]) \ {d}
  IN  /\ Head(master[d].out) = "status_info"
      /\ peer' = IF asked = {}
                 THEN [peer EXCEPT ![d] = sendMsg(@, "+0")]
                 ELSE [e \in Devices |-> IF e \in asked
                                         THEN queCommand(peer[e], AskFor(d))
                                         ELSE peer[e]]
      /\ UNCHANGED <<word, waits>>

\* Mutant: the answer is made of what is known, without asking.
FaultyStatusInfoAtOnce(d) ==
  /\ Head(master[d].out) = "status_info"
  /\ peer' = Answer(peer, listed, word, d)
  /\ UNCHANGED <<word, waits>>

\* Centrald::statusInfo for device d
StatusInfo(d) ==
  LET asked == (listed \cap BlockedBy[d]) \ {d}
  IN  /\ Head(master[d].out) = "status_info"
      /\ IF asked = {}
         THEN /\ peer' = [peer EXCEPT ![d] = sendMsg(@, "+0")]
              /\ waits' = waits
         ELSE /\ peer' = [e \in Devices |-> IF e \in asked
                                            THEN queCommand(peer[e], AskFor(d))
                                            ELSE peer[e]]
              /\ waits' = [waits EXCEPT ![d] = @ + 1]
      /\ UNCHANGED word

\* ConnCentrald::setState
StatusReport(d) ==
  /\ Head(master[d].out) \in {"S0", "S1"}
  /\ word' = [word EXCEPT ![d] = Head(master[d].out) = "S1"]
  /\ peer' = IF word' = word THEN peer ELSE TellAll(peer, listed, word')
  /\ UNCHANGED waits

\* The return of a status_info: CommandStatusInfo::commandReturnOK for the
\* device it was asked for, then the next command of the connection.
StatusReturn(d) ==
  LET a  == peer[d].running.name
      ps == [peer EXCEPT ![d].status = "RETURNING"]
      answered == a \in Devices /\ Answers(ps, listed, a, {d})
      qs == IF answered THEN Answer(ps, listed, word, a) ELSE ps
  IN  /\ Head(master[d].out) = "+0"
      /\ peer' = IF peer[d].running = NoCommand THEN peer
                 ELSE [qs EXCEPT ![d] = commandReturn(@)]
      /\ waits' = IF answered THEN [waits EXCEPT ![a] = @ - 1] ELSE waits
      /\ UNCHANGED word

CentraldReads(d) ==
  /\ d \in listed
  /\ master[d].out # << >>
  /\ StatusInfo(d) \/ StatusReport(d) \/ StatusReturn(d)
  /\ master' = [master EXCEPT ![d] = Rest(@)]
  /\ UNCHANGED <<conn, toClient, listed, owner, busy, camera, alive, since, runs>>

\* Block::deleteConnection: commands asked for the lost device stay queued
\* and answer nobody.
Orphan(c, d) ==
  LET o(cmd) == IF cmd = AskFor(d) THEN AskFor("orphan") ELSE cmd
  IN  [c EXCEPT !.running = o(@), !.queue = [i \in DOMAIN @ |-> o(@[i])]]

\* Mutant: nobody is answered when a device is lost.
FaultyWaitOver(ps, l) == {}

\* The devices whose round ends when a device is lost: statusCommandRunning
\* says that they wait, and nobody in the list owes them an answer any more.
WaitOver(ps, l) == {a \in l : waits[a] > 0 /\ Answers(ps, l, a, {})}

\* pollSuccess finds the connection dead; Centrald::connectionRemoved.
CentraldRemoves(d) ==
  LET l == listed \ {d}
      ps == [e \in Devices |-> Orphan(peer[e], d)]
      qs == TellAll(ps, l, word)
      answered == WaitOver(qs, l)
  IN  /\ d \in listed \ alive
      /\ listed' = l
      /\ peer' = [e \in Devices |->
                    IF e = d THEN NewConnection("broken")
                    ELSE IF e \in answered THEN Answer(qs, l, word, e)[e]
                    ELSE qs[e]]
      /\ waits' = [a \in Devices |-> IF a = d THEN 0
                                     ELSE IF a \in answered THEN waits[a] - 1
                                     ELSE waits[a]]
      /\ word' = [word EXCEPT ![d] = FALSE]
      /\ master' = [master EXCEPT ![d] = NewConnection("broken")]
      /\ UNCHANGED <<conn, toClient, owner, busy, camera, alive, since, runs>>

Next ==
  \/ \E x \in Clients : ClientQueues(x) \/ ClientReads(x) \/ DeviceReadsClient(x)
  \/ \E d \in Devices : \/ QueuesValue(d) \/ DeviceFinishes(d) \/ ReadingEnds(d)
                        \/ DeviceReadsMaster(d) \/ Crash(d)
                        \/ CentraldReads(d) \/ CentraldRemoves(d)

Spec == Init /\ [][Next]_vars

\* Work ends, and every main loop reads what has arrived on each connection.
Fairness ==
  /\ \A x \in Clients : WF_vars(ClientReads(x)) /\ WF_vars(DeviceReadsClient(x))
  /\ \A d \in Devices : /\ WF_vars(DeviceFinishes(d)) /\ WF_vars(ReadingEnds(d))
                        /\ WF_vars(DeviceReadsMaster(d))
                        /\ WF_vars(CentraldReads(d))
                        /\ WF_vars(CentraldRemoves(d))

FairSpec == Spec /\ Fairness

Count(s, m) == Cardinality({i \in DOMAIN s : s[i] = m})

\* Every status_info a device asks of centrald is answered exactly once, also
\* when devices that owe an answer are lost: the round is either on its way
\* to centrald, counted in statusCommandRunning, or its return is on the way
\* back, and that as long as the device counts the command as running.
AnsweredOnce ==
  \A d \in alive :
    Count(master[d].out, "status_info") + waits[d] + Count(peer[d].out, "+0")
      = IF master[d].running = NoCommand THEN 0 ELSE 1

\* Everything written has been read.
AllRead ==
  /\ listed = alive
  /\ \A d \in alive : master[d].out = << >> /\ peer[d].out = << >>
  /\ \A x \in Clients : conn[x].out = << >> /\ toClient[x] = << >>

\* When everything written has been read, the clients know of every device
\* whether something at work blocks it.  Value changes that wait count as such;
\* and a client may miss what blocks a camera that has made changes since
\* centrald told it (BlockIsKnown).
QuietAgree ==
  AllRead => \A x \in Clients :
    TargetOf[x] \in alive =>
      /\ conn[x].bop # {} =>
           BopFor(alive, busy, TargetOf[x]) \/ TargetOf[x] \in held
      /\ BopFor(alive, busy, TargetOf[x]) =>
           conn[x].bop # {} \/ TargetOf[x] \in overwritten

\* "Returns full BOP state, which include connections mentioned in block_by."
\* (getBopState): when everything written has been read, a client knows of a
\* device at work that blocks the one it commands.  Not so when a camera has
\* told it its own status word instead.
BlockIsKnown ==
  AllRead => \A x \in Clients :
    TargetOf[x] \in alive /\ BopFor(alive, busy, TargetOf[x]) => conn[x].bop # {}

\* The answer of a round is no older than the round: when centrald answers, it
\* has learnt of all work that blocks the asking device, began before the
\* round and still goes on.
RoundIsFresh ==
  [][\A d \in Devices : Count(peer'[d].out, "+0") > Count(peer[d].out, "+0") =>
       \A e \in since[d] \cap BlockedBy[d] : word'[e]]_vars

\* A round that centrald counts is owed by somebody: a device still in its list
\* has been asked, or will be, on behalf of the one that waits.  So no lost
\* device leaves another waiting for an answer nobody will give.
RoundIsOwed ==
  \A d \in listed : waits[d] > 0 => \E e \in listed : PendingOn(peer[e], d)

\* Devices that block each other do not wait for each other forever: a command
\* of a client ends, also when a device is lost, unless it is the device the
\* command is for.
CommandEnds ==
  \A x \in Clients :
    (conn[x].running # NoCommand ~> \/ conn[x].running = NoCommand
                                    \/ TargetOf[x] \notin alive)

\* Every device_status is answered ("OK will be returned when command return
\* from centrald").
StatusAnswered ==
  \A x \in Clients :
    (conn[x].running = DeviceStatus ~> \/ conn[x].running # DeviceStatus
                                       \/ TargetOf[x] \notin alive)
=============================================================================
