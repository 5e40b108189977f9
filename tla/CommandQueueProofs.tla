------------------------- MODULE CommandQueueProofs -------------------------
(***************************************************************************)
(* Theorems about the command queue of a connection, for every set of      *)
(* commands and every assignment of BOP masks to them.                     *)
(***************************************************************************)
EXTENDS CommandQueue, FiniteSetTheorems, SequenceTheorems, TLAPS

-----------------------------------------------------------------------------
(***************************************************************************)
(* The inductive invariant.  What a command looks like tells how far it    *)
(* has come, so most of it is about the shape of the commands held.        *)
(***************************************************************************)
Lines == Names \cup {"auth", "device_status"}

Conns == ConnectionRecord(Cmds, Bits, Lines)

\* A command of the client, with the kind of mask its name calls for.
Masked(cmd) ==
  /\ cmd \in Cmds /\ cmd.name \in Names
  /\ cmd.name \in Plain => cmd.bits = {}
  /\ cmd.name \in Blocking => cmd.bits # {}
  /\ cmd.while <=> cmd.name \in While

\* A command in the queue: new, or put back by its own status call.
Pending(cmd) ==
  /\ Masked(cmd)
  /\ cmd.cip = "NOT_CALLED" \/ (cmd.cip = "WAIT" /\ cmd.name \in Blocking)

\* A command of the client that runs: sent, or waiting for the BOP state.
Started(cmd) ==
  /\ Masked(cmd)
  /\ cmd.name \in Plain => cmd.cip = "NOT_CALLED"
  /\ cmd.name \in Blocking => cmd.cip \in {"RUN", "RETURN"}
  /\ cmd.name \in While => cmd.cip \in {"RUN", "WAIT"}

\* What the connection holds.
Shaped(c) ==
  /\ c.running \in {NoCommand, Auth, DeviceStatus} \/ Started(c.running)
  /\ \A i \in DOMAIN c.queue : Pending(c.queue[i])

\* No command is held twice.
Single(c) ==
  /\ \A i, j \in DOMAIN c.queue : c.queue[i].name = c.queue[j].name => i = j
  /\ \A i \in DOMAIN c.queue : c.queue[i].name # c.running.name

\* What the status says of the running command.
Told(c) ==
  /\ c.status = "SEND" <=> Sent(c.running)
  /\ c.running.cip = "RUN" /\ c.running.name \in Blocking => c.status = "WAITING"

\* An open connection is not idle while a command is queued; one that is not
\* connected runs nothing and has written nothing.
Linked(c) ==
  /\ c.state = "open" /\ c.running = NoCommand => c.queue = << >>
  /\ c.state = "connecting" => c.running = NoCommand
  /\ c.out = << >> \/ (HasSocket(c) /\ Sent(c.running) /\ Len(c.out) = 1)

ConnInv(c) == c \in Conns /\ Shaped(c) /\ Single(c) /\ Told(c) /\ Linked(c)

\* The returns in the lines s, and the return the connection c waits for.
ReturnsOf(s) == {i \in DOMAIN s : "ok" \in DOMAIN s[i]}

Matched(c, s) ==
  /\ c.state = "connecting" => s = << >>
  /\ HasSocket(c) => IF Sent(c.running) /\ c.out = << >>
                     THEN \E i \in DOMAIN s : ReturnsOf(s) = {i}
                     ELSE ReturnsOf(s) = {}

\* The commands of the client that the connection holds are among N.
HeldIn(c, N) ==
  /\ \A i \in DOMAIN c.queue : c.queue[i].name \in N
  /\ c.running.name \in Names => c.running.name \in N

IInv == TypeOK /\ ConnInv(conn) /\ Matched(conn, input) /\ HeldIn(conn, queued)

-----------------------------------------------------------------------------
(***************************************************************************)
(* Commands.                                                               *)
(***************************************************************************)
\* The three commands that are not the client's own, and their progress.
LEMMA OwnCommands ==
  /\ NoCommand \in Cmds /\ Auth \in Cmds /\ DeviceStatus \in Cmds
  /\ NoCommand.name = "none" /\ NoCommand.cip = "NOT_CALLED"
  /\ Auth.name = "auth" /\ Auth.cip = "NOT_CALLED" /\ Auth.bits = {}
  /\ ~Auth.while
  /\ DeviceStatus.name = "device_status" /\ DeviceStatus.cip = "RETURN"
  /\ ~Sent(NoCommand) /\ Sent(Auth) /\ Sent(DeviceStatus)
  /\ Auth # NoCommand /\ DeviceStatus # NoCommand
<1>1. /\ NoCommand \in Cmds /\ NoCommand.name = "none"
      /\ NoCommand.cip = "NOT_CALLED"
  BY DEF NoCommand, NewCommand, Cmds, Command
<1>2. /\ Auth \in Cmds /\ Auth.name = "auth" /\ Auth.cip = "NOT_CALLED"
      /\ Auth.bits = {} /\ ~Auth.while
  BY DEF Auth, NewCommand, Cmds, Command
<1>3. /\ DeviceStatus \in Cmds /\ DeviceStatus.name = "device_status"
      /\ DeviceStatus.cip = "RETURN" /\ ~DeviceStatus.while
  BY DEF DeviceStatus, NewCommand, Cmds, Command
<1>4. Auth # NoCommand /\ DeviceStatus # NoCommand
  BY <1>1, <1>2, <1>3
<1> QED BY <1>1, <1>2, <1>3, <1>4 DEF Sent, HasBopMask

\* A running command of the client was sent unless it waits for the BOP state.
LEMMA StartedSent ==
  ASSUME NEW cmd, Started(cmd)
  PROVE  /\ cmd \in Cmds /\ cmd.name \in Names /\ cmd # NoCommand
         /\ cmd.name \notin {"none", "auth", "device_status"}
         /\ Sent(cmd) <=> cmd.cip # "RUN"
<1>1. cmd \in Cmds /\ cmd.name \in Names /\ cmd.name # "none"
  BY NamesAssumption DEF Started, Masked
<1>2. cmd # NoCommand
  BY <1>1, OwnCommands
<1>3. cmd.name \in Plain \/ cmd.name \in Blocking \/ cmd.name \in While
  BY <1>1 DEF Names
<1> QED BY <1>1, <1>2, <1>3, NamesAssumption, MaskAssumption
        DEF Started, Masked, Sent, HasBopMask

\* What the client queues is a new command with the mask of its name.
LEMMA NewPending ==
  ASSUME NEW n \in Names
  PROVE  /\ Pending(CommandFor(n))
         /\ CommandFor(n).name = n /\ CommandFor(n).cip = "NOT_CALLED"
<1> DEFINE b == IF n \in Plain THEN {} ELSE BitsOf[n]
           cmd == CommandFor(n)
<1>1. b \in SUBSET Bits /\ (n \in Plain => b = {}) /\ (n \in Blocking => b # {})
  BY MaskAssumption DEF Names
<1>2. cmd = [name |-> n, bits |-> b, while |-> n \in While, cip |-> "NOT_CALLED"]
  <2>1. CASE n \in Plain
    <3>1. (n \in While) = FALSE
      BY <2>1, MaskAssumption
    <3> QED BY <2>1, <3>1 DEF CommandFor, NewCommand
  <2>2. CASE n \notin Plain
    BY <2>2 DEF CommandFor, NewCommand
  <2> QED BY <2>1, <2>2
<1> HIDE DEF b, cmd
<1>3. /\ cmd.name = n /\ cmd.bits = b /\ cmd.cip = "NOT_CALLED"
      /\ (cmd.while <=> n \in While) /\ cmd \in Cmds
  <2>1. CASE n \in While
    <3>1. (n \in While) = TRUE
      BY <2>1
    <3>2. cmd = [name |-> n, bits |-> b, while |-> TRUE, cip |-> "NOT_CALLED"]
      BY <1>2, <3>1
    <3> QED BY <1>1, <2>1, <3>2 DEF Cmds, Command
  <2>2. CASE n \notin While
    <3>1. (n \in While) = FALSE
      BY <2>2
    <3>2. cmd = [name |-> n, bits |-> b, while |-> FALSE, cip |-> "NOT_CALLED"]
      BY <1>2, <3>1
    <3> QED BY <1>1, <2>2, <3>2 DEF Cmds, Command
  <2> QED BY <2>1, <2>2
<1> QED BY <1>1, <1>3 DEF Pending, Masked, cmd

\* A command to be tried is none of the connection's own but perhaps the key.
LEMMA PendingNames ==
  ASSUME NEW cmd, Pending(cmd)
  PROVE  /\ cmd \in Cmds /\ cmd.name \in Names
         /\ cmd.name \notin {"none", "auth", "device_status"}
         /\ cmd.name \in Plain \/ cmd.name \in Blocking \/ cmd.name \in While
BY NamesAssumption DEF Pending, Masked, Names

-----------------------------------------------------------------------------
(***************************************************************************)
(* sendCommand.                                                            *)
(***************************************************************************)
\* A connection about to try its running command: nothing written, and the
\* command is from the queue, the key, or one that waits for the BOP state.
Ready(c) ==
  /\ c \in Conns
  /\ c.running = Auth \/ Pending(c.running)
       \/ (Started(c.running) /\ c.running.cip = "RUN")
  /\ \A i \in DOMAIN c.queue : Pending(c.queue[i])
  /\ Single(c)
  /\ c.status # "SEND" /\ c.out = << >> /\ c.state # "connecting"

\* The command is sent.
Sends(c, d) ==
  /\ Sent(d.running) /\ d.running.name = c.running.name
  /\ d.running = Auth \/ Started(d.running)
  /\ d.queue = c.queue /\ d.status = "SEND"
  /\ d.out = IF HasSocket(c) THEN <<c.running.name>> ELSE << >>

\* It is put back and the status is asked for.
Asks(c, d) ==
  /\ d.running = DeviceStatus
  /\ \E cmd : /\ Pending(cmd) /\ cmd.name = c.running.name
              /\ d.queue = <<cmd>> \o c.queue
  /\ d.status = "SEND"
  /\ d.out = IF HasSocket(c) THEN <<"device_status">> ELSE << >>

\* It waits for the BOP state.
Waits(c, d) ==
  /\ ~Sent(d.running) /\ d.running.name = c.running.name
  /\ Started(d.running)
  /\ d.queue = c.queue /\ d.status # "SEND"
  /\ d.running.name \in Blocking => d.status = "WAITING"
  /\ d.out = << >>

\* The fields of a connection whose command has been transmitted.
LEMMA Transmitted ==
  ASSUME NEW c \in Conns, c.running.name \in Lines, c.out = << >>,
         NEW cip \in {"NOT_CALLED", "WAIT", "RUN", "RETURN"}
  PROVE  LET d == Transmit(c, cip)
         IN  /\ d \in Conns
             /\ d.state = c.state /\ d.queue = c.queue /\ d.status = "SEND"
             /\ d.running = [c.running EXCEPT !.cip = cip]
             /\ d.out = IF HasSocket(c) THEN <<c.running.name>> ELSE << >>
<1> DEFINE m == sendMsg(c, c.running.name)
           r == [m.running EXCEPT !.cip = cip]
<1>1. /\ m \in Conns
      /\ m.state = c.state /\ m.queue = c.queue /\ m.running = c.running
      /\ m.out = IF HasSocket(c) THEN <<c.running.name>> ELSE << >>
  <2>1. Append(c.out, c.running.name) = <<c.running.name>>
    OBVIOUS
  <2>2. <<c.running.name>> \in Seq(Lines)
    OBVIOUS
  <2>3. CASE HasSocket(c)
    <3>1. m = [c EXCEPT !.out = <<c.running.name>>]
      BY <2>1, <2>3 DEF sendMsg
    <3> QED BY <2>2, <2>3, <3>1 DEF Conns, ConnectionRecord
  <2>4. CASE ~HasSocket(c)
    BY <2>4 DEF sendMsg
  <2> QED BY <2>3, <2>4
<1>2. Transmit(c, cip) = [m EXCEPT !.status = "SEND", !.running = r]
  BY DEF Transmit
<1> HIDE DEF m
<1>3. r \in Cmds
  BY <1>1 DEF Conns, ConnectionRecord, Cmds, Command
<1> HIDE DEF r
<1>4. LET d == Transmit(c, cip)
      IN  /\ d \in Conns
          /\ d.state = m.state /\ d.queue = m.queue /\ d.status = "SEND"
          /\ d.running = r /\ d.out = m.out
  BY <1>1, <1>2, <1>3 DEF Conns, ConnectionRecord
<1> QED BY <1>1, <1>4 DEF r

\* Giving a command another progress.
LEMMA Progress ==
  ASSUME NEW cmd \in Cmds, NEW cip \in {"NOT_CALLED", "WAIT", "RUN", "RETURN"}
  PROVE  LET r == [cmd EXCEPT !.cip = cip]
         IN  /\ r \in Cmds /\ r.name = cmd.name /\ r.bits = cmd.bits
             /\ r.while = cmd.while /\ r.cip = cip
             /\ cmd.cip = cip => r = cmd
             /\ Masked(cmd) => Masked(r)
<1> DEFINE r == [cmd EXCEPT !.cip = cip]
<1>1. /\ r \in Cmds /\ r.name = cmd.name /\ r.bits = cmd.bits
      /\ r.while = cmd.while /\ r.cip = cip
      /\ cmd.cip = cip => r = cmd
  BY DEF Cmds, Command
<1> HIDE DEF r
<1>2. Masked(cmd) => Masked(r)
  BY <1>1 DEF Masked
<1> QED BY <1>1, <1>2 DEF r

\* sendCommand sends the command, asks for the status first, or waits.
LEMMA SendOutcome ==
  ASSUME NEW c, Ready(c)
  PROVE  LET d == sendCommand(c)
         IN  /\ d \in Conns /\ d.state = c.state
             /\ Sends(c, d) \/ Asks(c, d) \/ Waits(c, d)
<1> DEFINE d == sendCommand(c)
           cmd == c.running
<1>1. /\ c \in Conns /\ cmd \in Cmds /\ c.out = << >> /\ c.status # "SEND"
      /\ c.queue \in Seq(Cmds)
  BY DEF Ready, Conns, ConnectionRecord
<1>2. CASE cmd = Auth
  <2>1. d = Transmit(c, "NOT_CALLED")
    BY <1>2, OwnCommands DEF sendCommand, HasBopMask
  <2>2. cmd.name \in Lines /\ [cmd EXCEPT !.cip = "NOT_CALLED"] = Auth
    BY <1>1, <1>2, OwnCommands, Progress DEF Lines
  <2> HIDE DEF d
  <2>3. /\ d \in Conns
        /\ d.state = c.state /\ d.queue = c.queue /\ d.status = "SEND"
        /\ d.running = Auth
        /\ d.out = IF HasSocket(c) THEN <<c.running.name>> ELSE << >>
    BY <1>1, <2>1, <2>2, Transmitted
  <2> QED BY <1>2, <2>3, OwnCommands DEF Sends, d
<1>3. ASSUME Masked(cmd), NEW cip \in {"NOT_CALLED", "WAIT", "RUN", "RETURN"},
             d = Transmit(c, cip),
             Started([cmd EXCEPT !.cip = cip]), cip # "RUN"
      PROVE  d \in Conns /\ d.state = c.state /\ Sends(c, d)
  <2>1. cmd.name \in Lines
    BY <1>3 DEF Masked, Lines
  <2> DEFINE r == [cmd EXCEPT !.cip = cip]
  <2>2. r.name = cmd.name /\ r.cip = cip
    BY <1>1, Progress
  <2>3. Sent(r)
    BY <1>3, <2>2, StartedSent
  <2> HIDE DEF d
  <2>4. /\ d \in Conns
        /\ d.state = c.state /\ d.queue = c.queue /\ d.status = "SEND"
        /\ d.running = r
        /\ d.out = IF HasSocket(c) THEN <<c.running.name>> ELSE << >>
    BY <1>1, <1>3, <2>1, Transmitted
  <2> HIDE DEF r
  <2>5. Started(r)
    BY <1>3 DEF r
  <2> QED BY <2>2, <2>3, <2>4, <2>5 DEF Sends
<1>4. CASE Pending(cmd) /\ cmd.name \in Plain
  <2>1. d = Transmit(c, "NOT_CALLED")
    BY <1>4, MaskAssumption DEF Pending, Masked, sendCommand, HasBopMask
  <2>2. [cmd EXCEPT !.cip = "NOT_CALLED"] = cmd
    BY <1>1, <1>4, MaskAssumption, Progress DEF Pending
  <2>3. Started(cmd)
    BY <1>4, MaskAssumption DEF Started, Pending, Masked
  <2> HIDE DEF d
  <2> QED BY <1>3, <1>4, <2>1, <2>2, <2>3 DEF Pending, d
<1>5. CASE Masked(cmd) /\ cmd.name \in While /\ cmd.cip \in {"NOT_CALLED", "RUN"}
  <2>1. d = SendWhile(c)
    BY <1>5 DEF Masked, sendCommand, HasBopMask
  <2>2. CASE Blocked(c)
    <3>1. d = Transmit(c, "WAIT")
      BY <1>5, <2>1, <2>2 DEF SendWhile
    <3>2. Started([cmd EXCEPT !.cip = "WAIT"])
      BY <1>1, <1>5, MaskAssumption, Progress DEF Started, Masked
    <3> QED BY <1>3, <1>5, <3>1, <3>2
  <2>3. CASE ~Blocked(c)
    <3> DEFINE r == [cmd EXCEPT !.cip = "RUN"]
    <3>1. d = [c EXCEPT !.running = r]
      BY <2>1, <2>3 DEF SendWhile
    <3>2. /\ r \in Cmds /\ r.name = cmd.name /\ r.cip = "RUN" /\ Started(r)
          /\ r.name \notin Blocking
      BY <1>1, <1>5, MaskAssumption, Progress DEF Started, Masked
    <3> HIDE DEF r, d
    <3>3. /\ d \in Conns /\ d.running = r /\ d.state = c.state
          /\ d.queue = c.queue /\ d.status = c.status /\ d.out = c.out
      BY <1>1, <3>1, <3>2 DEF Conns, ConnectionRecord
    <3>4. ~Sent(r)
      BY <3>2, StartedSent
    <3> QED BY <1>1, <3>2, <3>3, <3>4 DEF Waits, d
  <2> QED BY <2>2, <2>3
<1>6. CASE Masked(cmd) /\ cmd.name \in Blocking
  <2>1. d = SendBop(c)
    BY <1>6, MaskAssumption DEF Masked, sendCommand, HasBopMask
  <2>2. CASE cmd.cip = "NOT_CALLED"
    <3> DEFINE m == sendMsg(c, "device_status")
               p == [cmd EXCEPT !.cip = "WAIT"]
               q == <<p>> \o m.queue
    <3>1. d = [m EXCEPT !.queue = q, !.running = DeviceStatus, !.status = "SEND"]
      BY <2>1, <2>2 DEF SendBop
    <3>2. p \in Cmds /\ p.name = cmd.name /\ Pending(p)
      BY <1>1, <1>6, Progress DEF Pending
    <3>3. /\ m \in Conns /\ m.state = c.state /\ m.queue = c.queue
          /\ m.out = IF HasSocket(c) THEN <<"device_status">> ELSE << >>
      <4>1. Append(c.out, "device_status") = <<"device_status">>
        BY <1>1
      <4>2. <<"device_status">> \in Seq(Lines)
        BY DEF Lines
      <4>3. CASE HasSocket(c)
        <5>1. m = [c EXCEPT !.out = <<"device_status">>]
          BY <4>1, <4>3 DEF sendMsg
        <5> QED BY <1>1, <4>2, <4>3, <5>1 DEF Conns, ConnectionRecord
      <4>4. CASE ~HasSocket(c)
        BY <1>1, <4>4 DEF sendMsg
      <4> QED BY <4>3, <4>4
    <3> HIDE DEF m, p
    <3>4. q \in Seq(Cmds)
      BY <1>1, <3>2, <3>3
    <3>5. q = <<p>> \o c.queue
      BY <3>3
    <3> HIDE DEF q, d
    <3>6. /\ d \in Conns /\ d.state = c.state /\ d.running = DeviceStatus
          /\ d.queue = q /\ d.status = "SEND" /\ d.out = m.out
      BY <3>1, <3>3, <3>4, OwnCommands DEF Conns, ConnectionRecord
    <3> QED BY <3>2, <3>3, <3>5, <3>6 DEF Asks, d
  <2>3. CASE cmd.cip \in {"WAIT", "RUN"}
    <3>1. CASE ~Blocked(c)
      <4>1. d = Transmit(c, "RETURN")
        BY <2>1, <2>3, <3>1 DEF SendBop
      <4>2. Started([cmd EXCEPT !.cip = "RETURN"])
        BY <1>1, <1>6, MaskAssumption, Progress DEF Started, Masked
      <4> QED BY <1>3, <1>6, <4>1, <4>2
    <3>2. CASE Blocked(c)
      <4> DEFINE r == [cmd EXCEPT !.cip = "RUN"]
      <4>1. d = [c EXCEPT !.running = r, !.status = "WAITING"]
        BY <2>1, <2>3, <3>2 DEF SendBop
      <4>2. r \in Cmds /\ r.name = cmd.name /\ r.cip = "RUN" /\ Started(r)
        BY <1>1, <1>6, MaskAssumption, Progress DEF Started, Masked
      <4> HIDE DEF r, d
      <4>3. /\ d \in Conns /\ d.running = r /\ d.state = c.state
            /\ d.queue = c.queue /\ d.status = "WAITING" /\ d.out = c.out
        BY <1>1, <4>1, <4>2 DEF Conns, ConnectionRecord
      <4>4. ~Sent(r)
        BY <4>2, StartedSent
      <4> QED BY <1>1, <4>2, <4>3, <4>4 DEF Waits, d
    <3> QED BY <3>1, <3>2
  <2>4. CASE cmd.cip \notin {"NOT_CALLED", "WAIT", "RUN"}
    BY <1>6, <2>4, OwnCommands DEF Ready, Pending
  <2> QED BY <2>2, <2>3, <2>4
<1>7. \/ cmd = Auth
      \/ Pending(cmd) /\ cmd.name \in Plain
      \/ Masked(cmd) /\ cmd.name \in While /\ cmd.cip \in {"NOT_CALLED", "RUN"}
      \/ Masked(cmd) /\ cmd.name \in Blocking
  <2>1. CASE Pending(cmd)
    BY <2>1, PendingNames, MaskAssumption DEF Pending
  <2>2. CASE Started(cmd) /\ cmd.cip = "RUN"
    BY <2>2 DEF Started, Masked, Names
  <2> QED BY <2>1, <2>2 DEF Ready
<1> HIDE DEF d
<1> QED BY <1>2, <1>4, <1>5, <1>6, <1>7 DEF d

\* After sendCommand the connection satisfies its invariant, runs a command,
\* and holds no other commands than before.
LEMMA SendKeeps ==
  ASSUME NEW c, Ready(c)
  PROVE  LET d == sendCommand(c)
         IN  /\ ConnInv(d) /\ d.state = c.state /\ d.running # NoCommand
             /\ Sends(c, d) \/ Asks(c, d) \/ Waits(c, d)
             /\ \A N : HeldIn(c, N) => HeldIn(d, N)
<1> DEFINE d == sendCommand(c)
<1>1. /\ d \in Conns /\ d.state = c.state
      /\ Sends(c, d) \/ Asks(c, d) \/ Waits(c, d)
  BY SendOutcome
<1> HIDE DEF d
<1>2. /\ c \in Conns /\ c.queue \in Seq(Cmds)
      /\ \A i \in DOMAIN c.queue : Pending(c.queue[i])
      /\ Single(c) /\ c.state # "connecting"
  BY DEF Ready, Conns, ConnectionRecord
<1>3. HasSocket(d) <=> HasSocket(c)
  BY <1>1 DEF HasSocket
<1>4. CASE Sends(c, d)
  <2>1. d.running = Auth \/ Started(d.running)
    BY <1>4 DEF Sends
  <2>2. d.running # NoCommand /\ d.running.cip # "RUN"
    BY <1>4, <2>1, OwnCommands, StartedSent DEF Sends
  <2>3. Shaped(d)
    BY <1>2, <1>4, <2>1 DEF Shaped, Sends
  <2>4. Single(d)
    BY <1>2, <1>4 DEF Single, Sends
  <2>5. Told(d)
    BY <1>4, <2>2 DEF Told, Sends
  <2>6. Linked(d)
    BY <1>1, <1>2, <1>3, <1>4, <2>2 DEF Linked, Sends
  <2>7. \A N : HeldIn(c, N) => HeldIn(d, N)
    BY <1>4 DEF HeldIn, Sends
  <2> QED BY <1>1, <2>2, <2>3, <2>4, <2>5, <2>6, <2>7 DEF ConnInv, d
<1>5. CASE Asks(c, d)
  <2>1. PICK cmd : /\ Pending(cmd) /\ cmd.name = c.running.name
                   /\ d.queue = <<cmd>> \o c.queue
    BY <1>5 DEF Asks
  <2>2. cmd \in Cmds /\ cmd.name \in Names /\ cmd.name # "device_status"
    BY <2>1, PendingNames
  <2>3. /\ d.queue \in Seq(Cmds) /\ Len(d.queue) = Len(c.queue) + 1
        /\ DOMAIN d.queue = 1 .. Len(c.queue) + 1
        /\ d.queue[1] = cmd
        /\ \A i \in 2 .. Len(c.queue) + 1 : /\ i - 1 \in DOMAIN c.queue
                                            /\ d.queue[i] = c.queue[i - 1]
    BY <1>2, <2>1, <2>2
  <2>4. d.running = DeviceStatus /\ d.running # NoCommand /\ Sent(d.running)
    BY <1>5, OwnCommands DEF Asks
  <2>5. Shaped(d)
    BY <1>2, <2>1, <2>3, <2>4 DEF Shaped
  <2>6. Single(d)
    <3>1. \A i \in DOMAIN d.queue : d.queue[i].name # "device_status"
      BY <1>2, <2>2, <2>3, PendingNames
    <3>2. \A i, j \in DOMAIN d.queue : d.queue[i].name = d.queue[j].name => i = j
      BY <1>2, <2>1, <2>3 DEF Single
    <3> QED BY <2>4, <3>1, <3>2, OwnCommands DEF Single
  <2>7. Told(d)
    BY <1>5, <2>4, OwnCommands DEF Told, Asks
  <2>8. Linked(d)
    BY <1>1, <1>2, <1>3, <1>5, <2>4 DEF Linked, Asks
  <2>9. ASSUME NEW N, HeldIn(c, N) PROVE HeldIn(d, N)
    BY <1>2, <2>1, <2>2, <2>3, <2>4, <2>9, OwnCommands, NamesAssumption DEF HeldIn
  <2> QED BY <1>1, <1>5, <2>4, <2>5, <2>6, <2>7, <2>8, <2>9 DEF ConnInv, d
<1>6. CASE Waits(c, d)
  <2>1. Started(d.running) /\ d.running # NoCommand
    BY <1>6, StartedSent DEF Waits
  <2>2. Shaped(d)
    BY <1>2, <1>6, <2>1 DEF Shaped, Waits
  <2>3. Single(d)
    BY <1>2, <1>6 DEF Single, Waits
  <2>4. Told(d)
    BY <1>6 DEF Told, Waits
  <2>5. Linked(d)
    BY <1>1, <1>2, <1>6, <2>1 DEF Linked, Waits
  <2>6. \A N : HeldIn(c, N) => HeldIn(d, N)
    BY <1>6 DEF HeldIn, Waits
  <2> QED BY <1>1, <1>6, <2>1, <2>2, <2>3, <2>4, <2>5, <2>6 DEF ConnInv, d
<1> QED BY <1>1, <1>4, <1>5, <1>6

\* A connection whose last command is over: the queue is in order and nothing
\* is on its way.
Free(c) ==
  /\ c \in Conns
  /\ \A i \in DOMAIN c.queue : Pending(c.queue[i])
  /\ \A i, j \in DOMAIN c.queue : c.queue[i].name = c.queue[j].name => i = j
  /\ c.status # "SEND" /\ c.out = << >> /\ c.state # "connecting"

\* The connection with the first command of the queue taken to run.
Taken(c) == [c EXCEPT !.running = Head(c.queue), !.queue = Tail(c.queue)]

\* A command taken from the queue is ready to be tried.
LEMMA TakenReady ==
  ASSUME NEW c, Free(c), c.queue # << >>
  PROVE  /\ Ready(Taken(c)) /\ Taken(c).state = c.state
         /\ Taken(c).running = Head(c.queue) /\ Taken(c).queue = Tail(c.queue)
         /\ \A N : HeldIn(c, N) => HeldIn(Taken(c), N)
<1> DEFINE t == Taken(c)
           q == c.queue
<1>1. /\ c \in Conns /\ q \in Seq(Cmds) /\ Len(q) \in Nat \ {0}
      /\ DOMAIN q = 1 .. Len(q)
  BY DEF Free, Conns, ConnectionRecord
<1>2. /\ Head(q) = q[1] /\ Head(q) \in Cmds /\ Pending(Head(q))
  BY <1>1 DEF Free
<1>3. /\ Tail(q) \in Seq(Cmds) /\ DOMAIN Tail(q) = 1 .. Len(q) - 1
      /\ \A i \in 1 .. Len(q) - 1 : Tail(q)[i] = q[i + 1] /\ i + 1 \in DOMAIN q
  BY <1>1
<1>4. /\ t \in Conns /\ t.running = Head(q) /\ t.queue = Tail(q)
      /\ t.state = c.state /\ t.status = c.status /\ t.out = c.out
  BY <1>1, <1>2, <1>3 DEF Taken, Conns, ConnectionRecord
<1> HIDE DEF t
<1>5. \A i \in DOMAIN t.queue : Pending(t.queue[i])
  BY <1>1, <1>3, <1>4 DEF Free
<1>6. Single(t)
  <2>1. \A i, j \in DOMAIN t.queue : t.queue[i].name = t.queue[j].name => i = j
    <3>1. ASSUME NEW i \in DOMAIN t.queue, NEW j \in DOMAIN t.queue,
                 t.queue[i].name = t.queue[j].name
          PROVE  i = j
      <4>1. /\ i \in Nat /\ j \in Nat
            /\ i + 1 \in DOMAIN q /\ t.queue[i] = q[i + 1]
            /\ j + 1 \in DOMAIN q /\ t.queue[j] = q[j + 1]
        BY <1>1, <1>3, <1>4
      <4>2. i + 1 = j + 1
        BY <3>1, <4>1 DEF Free
      <4> QED BY <4>1, <4>2
    <3> QED BY <3>1
  <2>2. \A i \in DOMAIN t.queue : t.queue[i].name # t.running.name
    <3>1. ASSUME NEW i \in DOMAIN t.queue, t.queue[i].name = t.running.name
          PROVE  FALSE
      <4>1. /\ i \in Nat \ {0} /\ i + 1 \in DOMAIN q /\ t.queue[i] = q[i + 1]
            /\ 1 \in DOMAIN q /\ t.running = q[1]
        BY <1>1, <1>2, <1>3, <1>4
      <4>2. i + 1 = 1
        BY <3>1, <4>1 DEF Free
      <4> QED BY <4>1, <4>2
    <3> QED BY <3>1
  <2> QED BY <2>1, <2>2 DEF Single
<1>7. \A N : HeldIn(c, N) => HeldIn(t, N)
  BY <1>1, <1>2, <1>3, <1>4 DEF HeldIn
<1> QED BY <1>2, <1>4, <1>5, <1>6, <1>7 DEF Ready, Free, t

\* sendNextCommand runs the next command, or none when the queue is empty.
LEMMA SendNext ==
  ASSUME NEW c, Free(c)
  PROVE  LET d == sendNextCommand(c)
         IN  /\ ConnInv(d) /\ d.state = c.state
             /\ c.queue = << >> => /\ d.running = NoCommand /\ d.queue = c.queue
                                   /\ d.out = << >>
             /\ c.queue # << >> => /\ d = sendCommand(Taken(c))
                                   /\ d.running # NoCommand
             /\ \A N : HeldIn(c, N) => HeldIn(d, N)
<1> DEFINE d == sendNextCommand(c)
<1>1. CASE c.queue = << >>
  <2>1. d = [c EXCEPT !.running = NoCommand]
    BY <1>1 DEF sendNextCommand
  <2> HIDE DEF d
  <2>2. /\ d \in Conns /\ d.running = NoCommand /\ d.queue = << >>
        /\ d.state = c.state /\ d.status = c.status /\ d.out = << >>
    BY <1>1, <2>1, OwnCommands DEF Free, Conns, ConnectionRecord
  <2>3. Shaped(d) /\ Single(d)
    BY <2>2 DEF Shaped, Single
  <2>4. Told(d) /\ Linked(d)
    BY <2>2, OwnCommands DEF Told, Linked, Free
  <2>5. \A N : HeldIn(d, N)
    BY <2>2, OwnCommands, NamesAssumption DEF HeldIn
  <2> QED BY <1>1, <2>2, <2>3, <2>4, <2>5 DEF ConnInv, d
<1>2. CASE c.queue # << >>
  <2>1. d = sendCommand(Taken(c))
    BY <1>2 DEF sendNextCommand, Taken
  <2>2. /\ ConnInv(d) /\ d.state = Taken(c).state /\ d.running # NoCommand
        /\ \A N : HeldIn(Taken(c), N) => HeldIn(d, N)
    BY <1>2, <2>1, TakenReady, SendKeeps
  <2> QED BY <1>2, <2>1, <2>2, TakenReady DEF d
<1> QED BY <1>1, <1>2

-----------------------------------------------------------------------------
(***************************************************************************)
(* The lines of the device.                                                *)
(***************************************************************************)
\* A line is a BOP state or a return.
LEMMA MessageKinds ==
  ASSUME NEW m \in Messages
  PROVE  /\ "bop" \in DOMAIN m <=> "ok" \notin DOMAIN m
         /\ "bop" \in DOMAIN m => m.bop \in SUBSET Bits
BY DEF Messages

LEMMA NewMessages ==
  ASSUME NEW b \in SUBSET Bits, NEW ok \in BOOLEAN
  PROVE  /\ [bop |-> b] \in Messages /\ "ok" \notin DOMAIN [bop |-> b]
         /\ [ok |-> ok] \in Messages /\ "ok" \in DOMAIN [ok |-> ok]
<1>1. [bop |-> b] \in Messages /\ "ok" \notin DOMAIN [bop |-> b]
  BY DEF Messages
<1>2. [ok |-> ok] \in Messages /\ "ok" \in DOMAIN [ok |-> ok]
  BY DEF Messages
<1> QED BY <1>1, <1>2

\* The device writes a line.
LEMMA LineWritten ==
  ASSUME NEW s \in Seq(Messages), NEW m \in Messages
  PROVE  /\ Append(s, m) \in Seq(Messages)
         /\ s \o <<m>> = Append(s, m)
         /\ Len(s) + 1 \in DOMAIN Append(s, m)
         /\ DOMAIN s \subseteq DOMAIN Append(s, m)
         /\ ReturnsOf(Append(s, m)) =
              ReturnsOf(s) \cup (IF "ok" \in DOMAIN m THEN {Len(s) + 1} ELSE {})
<1> DEFINE t == Append(s, m)
<1>1. /\ t \in Seq(Messages) /\ s \o <<m>> = t
      /\ DOMAIN t = 1 .. Len(s) + 1 /\ DOMAIN s = 1 .. Len(s) /\ Len(s) \in Nat
      /\ t[Len(s) + 1] = m
      /\ \A i \in 1 .. Len(s) : t[i] = s[i]
  <2> HIDE DEF Messages
  <2> QED OBVIOUS
<1> HIDE DEF t
<1>2. ReturnsOf(t) =
        ReturnsOf(s) \cup (IF "ok" \in DOMAIN m THEN {Len(s) + 1} ELSE {})
  <2>1. ASSUME NEW i PROVE i \in ReturnsOf(t) <=>
          i \in ReturnsOf(s) \cup (IF "ok" \in DOMAIN m THEN {Len(s) + 1} ELSE {})
    <3>1. i \in 1 .. Len(s) + 1 <=> i \in 1 .. Len(s) \/ i = Len(s) + 1
      BY <1>1
    <3>2. Len(s) + 1 \notin 1 .. Len(s)
      BY <1>1
    <3> QED BY <1>1, <3>1, <3>2 DEF ReturnsOf
  <2> QED BY <2>1
<1> QED BY <1>1, <1>2 DEF t

\* The client reads a line.
LEMMA LineRead ==
  ASSUME NEW s \in Seq(Messages), s # << >>
  PROVE  /\ Head(s) \in Messages /\ Tail(s) \in Seq(Messages)
         /\ "ok" \in DOMAIN Head(s) => 1 \in ReturnsOf(s)
         /\ "ok" \notin DOMAIN Head(s) /\ ReturnsOf(s) = {} => ReturnsOf(Tail(s)) = {}
         /\ \A i : ReturnsOf(s) = {i} =>
              IF "ok" \in DOMAIN Head(s) THEN ReturnsOf(Tail(s)) = {}
              ELSE i - 1 \in DOMAIN Tail(s) /\ ReturnsOf(Tail(s)) = {i - 1}
<1> DEFINE t == Tail(s)
<1>1. /\ Head(s) \in Messages /\ t \in Seq(Messages) /\ Head(s) = s[1]
      /\ Len(s) \in Nat \ {0} /\ DOMAIN s = 1 .. Len(s)
      /\ DOMAIN t = 1 .. Len(s) - 1
      /\ \A i \in 1 .. Len(s) - 1 : t[i] = s[i + 1]
  <2> HIDE DEF Messages
  <2> QED OBVIOUS
<1> HIDE DEF t
<1>2. \A i : i \in ReturnsOf(t) => i \in Nat \ {0} /\ i + 1 \in ReturnsOf(s)
  BY <1>1 DEF ReturnsOf
<1>3. \A i \in ReturnsOf(s) : i \in Nat /\ (i # 1 => i - 1 \in ReturnsOf(t))
  BY <1>1 DEF ReturnsOf
<1>4. 1 \in ReturnsOf(s) <=> "ok" \in DOMAIN Head(s)
  BY <1>1 DEF ReturnsOf
<1>5. ASSUME NEW i, ReturnsOf(s) = {i}
      PROVE  IF "ok" \in DOMAIN Head(s) THEN ReturnsOf(t) = {}
             ELSE i - 1 \in DOMAIN t /\ ReturnsOf(t) = {i - 1}
  <2>1. CASE "ok" \in DOMAIN Head(s)
    <3>1. i = 1
      BY <1>4, <1>5, <2>1
    <3>2. ASSUME NEW j \in ReturnsOf(t) PROVE FALSE
      <4>1. j \in Nat \ {0} /\ j + 1 = 1
        BY <1>2, <1>5, <3>1
      <4> QED BY <4>1
    <3> QED BY <2>1, <3>2
  <2>2. CASE "ok" \notin DOMAIN Head(s)
    <3>1. i \in Nat /\ i # 1 /\ i - 1 \in ReturnsOf(t)
      BY <1>3, <1>4, <1>5, <2>2
    <3>2. ASSUME NEW j \in ReturnsOf(t) PROVE j = i - 1
      <4>1. j \in Nat \ {0} /\ j + 1 = i
        BY <1>2, <1>5
      <4> QED BY <4>1
    <3>3. i - 1 \in DOMAIN t
      BY <3>1 DEF ReturnsOf
    <3> QED BY <2>2, <3>1, <3>2, <3>3
  <2> QED BY <2>1, <2>2
<1>6. ReturnsOf(s) = {} => ReturnsOf(t) = {}
  BY <1>2
<1> QED BY <1>1, <1>4, <1>5, <1>6 DEF t

\* A command that is tried when no return is due has its own return to come.
LEMMA SendMatched ==
  ASSUME NEW c, Ready(c), NEW s, ReturnsOf(s) = {}
  PROVE  Matched(sendCommand(c), s)
<1> DEFINE d == sendCommand(c)
<1>1. d.state = c.state /\ (Sends(c, d) \/ Asks(c, d) \/ Waits(c, d))
  BY SendKeeps
<1>2. HasSocket(d) <=> HasSocket(c)
  BY <1>1 DEF HasSocket
<1>3. HasSocket(d) /\ Sent(d.running) => d.out # << >>
  <2> HIDE DEF d
  <2>1. <<c.running.name>> # << >> /\ <<"device_status">> # << >>
    OBVIOUS
  <2> QED BY <1>1, <1>2, <2>1 DEF Sends, Asks, Waits
<1> HIDE DEF d
<1> QED BY <1>1, <1>3 DEF Matched, Ready, d

LEMMA SendNextMatched ==
  ASSUME NEW c, Free(c), NEW s, ReturnsOf(s) = {}
  PROVE  Matched(sendNextCommand(c), s)
<1> DEFINE d == sendNextCommand(c)
<1>1. CASE c.queue = << >>
  <2>1. d.running = NoCommand /\ d.state = c.state
    BY <1>1, SendNext
  <2> HIDE DEF d
  <2> QED BY <2>1, OwnCommands DEF Matched, Free, d
<1>2. CASE c.queue # << >>
  BY <1>2, SendNext, TakenReady, SendMatched
<1> QED BY <1>1, <1>2

-----------------------------------------------------------------------------
(***************************************************************************)
(* The inductive invariant holds initially and is kept by every action.    *)
(***************************************************************************)
\* A new connection satisfies the invariant.
LEMMA NewConnectionInv ==
  LET c == NewConnection("connecting")
  IN  /\ ConnInv(c) /\ Matched(c, << >>) /\ \A N : HeldIn(c, N)
<1> DEFINE c == NewConnection("connecting")
<1>1. /\ c \in Conns /\ c.state = "connecting" /\ c.running = NoCommand
      /\ c.status = "RETURNING" /\ c.queue = << >> /\ c.out = << >>
  BY OwnCommands DEF NewConnection, Conns, ConnectionRecord, ConnStates
<1> HIDE DEF c
<1>2. Shaped(c) /\ Single(c)
  BY <1>1 DEF Shaped, Single
<1>3. Told(c) /\ Linked(c)
  BY <1>1, OwnCommands DEF Told, Linked
<1>4. ~HasSocket(c)
  BY <1>1 DEF HasSocket
<1>5. Matched(c, << >>)
  BY <1>4 DEF Matched
<1>6. \A N : HeldIn(c, N)
  BY <1>1, OwnCommands, NamesAssumption DEF HeldIn
<1> QED BY <1>1, <1>2, <1>3, <1>5, <1>6 DEF ConnInv, c

LEMMA InitIInv == Init => IInv
<1> SUFFICES ASSUME Init PROVE IInv
  OBVIOUS
<1>1. conn = NewConnection("connecting") /\ input = << >>
  BY DEF Init
<1>2. ConnInv(conn) /\ Matched(conn, input) /\ HeldIn(conn, queued)
  BY <1>1, NewConnectionInv
<1>3. TypeOK
  BY <1>1, <1>2 DEF Init, TypeOK, ConnInv, Conns, Lines
<1> QED BY <1>2, <1>3 DEF IInv

\* What the invariant says of the fields.
LEMMA Fields ==
  ASSUME IInv
  PROVE  /\ conn \in Conns /\ conn.running \in Cmds /\ conn.queue \in Seq(Cmds)
         /\ conn.status \in {"WAITING", "SEND", "RETURNING"}
         /\ conn.state \in ConnStates
         /\ DOMAIN conn.queue = 1 .. Len(conn.queue) /\ Len(conn.queue) \in Nat
         /\ Shaped(conn) /\ Single(conn) /\ Told(conn) /\ Linked(conn)
         /\ input \in Seq(Messages) /\ bop \in SUBSET Bits
         /\ Matched(conn, input) /\ HeldIn(conn, queued)
         /\ queued \in SUBSET Names /\ gone \in SUBSET queued
         /\ \A i \in DOMAIN conn.queue : Pending(conn.queue[i])
         /\ ~Sent(conn.running) => conn.status # "SEND" /\ conn.out = << >>
BY DEF IInv, ConnInv, TypeOK, Conns, ConnectionRecord, Shaped, Linked, Told

\* The parts of the invariant after a step.
LEMMA Combine ==
  ASSUME ConnInv(conn'), Matched(conn', input'), HeldIn(conn', queued'),
         input' \in Seq(Messages), bop' \in SUBSET Bits,
         queued' \in SUBSET Names, gone' \in SUBSET queued'
  PROVE  IInv'
<1>1. TypeOK'
  BY DEF TypeOK, ConnInv, Conns, Lines
<1> QED BY <1>1 DEF IInv

\* queCommand: the command joins the queue, or is tried at once.
LEMMA QueCommandSteps ==
  ASSUME IInv, NEW n \in Names, n \notin queued
  PROVE  LET cmd == CommandFor(n)
             a == [conn EXCEPT !.queue = Append(@, cmd)]
             r == [conn EXCEPT !.running = cmd]
         IN  \/ /\ queCommand(conn, cmd) = a
                /\ conn.running # NoCommand \/ conn.state # "open"
                /\ ConnInv(a) /\ a.state = conn.state /\ a.running = conn.running
                /\ a.out = conn.out /\ a.queue = Append(conn.queue, cmd)
                /\ HeldIn(a, queued \cup {n})
             \/ /\ queCommand(conn, cmd) = sendCommand(r)
                /\ conn.running = NoCommand /\ conn.state = "open"
                /\ Ready(r) /\ r.state = conn.state /\ r.running = cmd
                /\ conn.queue = << >> /\ r.queue = << >>
                /\ HeldIn(r, queued \cup {n})
<1> DEFINE cmd == CommandFor(n)
           a == [conn EXCEPT !.queue = Append(@, cmd)]
           r == [conn EXCEPT !.running = cmd]
           q == Append(conn.queue, cmd)
<1>1. Pending(cmd) /\ cmd.name = n /\ cmd \in Cmds
  BY NewPending, PendingNames
<1> HIDE DEF cmd
<1>2. CASE conn.running # NoCommand \/ conn.state # "open"
  <2>1. queCommand(conn, cmd) = a
    BY <1>2 DEF queCommand
  <2>2. /\ q \in Seq(Cmds) /\ DOMAIN q = 1 .. Len(conn.queue) + 1
        /\ Len(conn.queue) \in Nat /\ DOMAIN conn.queue = 1 .. Len(conn.queue)
        /\ q[Len(conn.queue) + 1] = cmd
        /\ \A i \in 1 .. Len(conn.queue) : q[i] = conn.queue[i]
    BY <1>1, Fields
  <2>3. a = [conn EXCEPT !.queue = q]
    OBVIOUS
  <2> HIDE DEF q
  <2>4. /\ a \in Conns /\ a.running = conn.running /\ a.queue = q
        /\ a.state = conn.state /\ a.status = conn.status /\ a.out = conn.out
    BY <2>2, <2>3, Fields DEF Conns, ConnectionRecord
  <2> HIDE DEF a
  <2>5. Shaped(a)
    BY <1>1, <2>2, <2>4, Fields DEF Shaped
  <2>6. \A i \in DOMAIN conn.queue : conn.queue[i].name # n
    BY Fields DEF HeldIn
  <2>7. conn.running.name # n
    BY Fields DEF HeldIn
  <2>8. Single(a)
    <3>1. \A i, j \in DOMAIN a.queue : a.queue[i].name = a.queue[j].name => i = j
      <4>1. ASSUME NEW i \in DOMAIN q, NEW j \in DOMAIN q, q[i].name = q[j].name
            PROVE  i = j
        <5>1. \A k \in DOMAIN q : \/ k \in DOMAIN conn.queue /\ q[k] = conn.queue[k]
                                  \/ k = Len(conn.queue) + 1 /\ q[k] = cmd
          BY <2>2
        <5>2. \A k, l \in DOMAIN conn.queue :
                 conn.queue[k].name = conn.queue[l].name => k = l
          BY Fields DEF Single
        <5> QED BY <1>1, <2>6, <4>1, <5>1, <5>2
      <4> QED BY <2>4, <4>1
    <3>2. \A i \in DOMAIN a.queue : a.queue[i].name # a.running.name
      BY <1>1, <2>2, <2>4, <2>7, Fields DEF Single
    <3> QED BY <3>1, <3>2 DEF Single
  <2>9. Told(a)
    BY <2>4, Fields DEF Told
  <2>10. Linked(a)
    BY <1>2, <2>4, Fields DEF Linked, HasSocket
  <2>11. HeldIn(a, queued \cup {n})
    <3>1. \A i \in DOMAIN q : q[i].name \in queued \cup {n}
      BY <1>1, <2>2, Fields DEF HeldIn
    <3>2. a.running.name \in Names => a.running.name \in queued \cup {n}
      BY <2>4, Fields DEF HeldIn
    <3> QED BY <2>4, <3>1, <3>2 DEF HeldIn
  <2> QED BY <1>2, <2>1, <2>4, <2>5, <2>8, <2>9, <2>10, <2>11 DEF ConnInv, cmd, a, q
<1>3. CASE conn.running = NoCommand /\ conn.state = "open"
  <2>1. queCommand(conn, cmd) = sendCommand(r)
    BY <1>3 DEF queCommand
  <2>2. /\ r \in Conns /\ r.running = cmd /\ r.queue = conn.queue
        /\ r.state = conn.state /\ r.status = conn.status /\ r.out = conn.out
    BY <1>1, Fields DEF Conns, ConnectionRecord
  <2> HIDE DEF r
  <2>3. conn.queue = << >>
    BY <1>3, Fields DEF Linked
  <2>4. Single(r)
    BY <2>2, <2>3 DEF Single
  <2>5. Ready(r)
    BY <1>1, <1>3, <2>2, <2>3, <2>4, OwnCommands, Fields DEF Ready
  <2>6. HeldIn(r, queued \cup {n})
    BY <1>1, <2>2, <2>3 DEF HeldIn
  <2> QED BY <1>3, <2>1, <2>2, <2>3, <2>5, <2>6 DEF cmd, r
<1> QED BY <1>2, <1>3

LEMMA QueCommandInv ==
  ASSUME IInv, NEW n \in Names, QueCommand(n)
  PROVE  IInv'
<1> DEFINE cmd == CommandFor(n)
           a == [conn EXCEPT !.queue = Append(@, cmd)]
           r == [conn EXCEPT !.running = cmd]
<1>1. /\ n \notin queued /\ conn' = queCommand(conn, cmd)
      /\ queued' = queued \cup {n} /\ UNCHANGED <<input, bop, gone>>
  BY DEF QueCommand
<1>2. /\ queued' \in SUBSET Names /\ gone' \in SUBSET queued'
      /\ input' \in Seq(Messages) /\ bop' \in SUBSET Bits
  BY <1>1, Fields
<1>3. CASE /\ conn' = a
           /\ ConnInv(a) /\ a.state = conn.state /\ a.running = conn.running
           /\ a.out = conn.out /\ HeldIn(a, queued \cup {n})
  <2>1. Matched(conn', input')
    BY <1>1, <1>3, Fields DEF Matched, HasSocket
  <2> QED BY <1>1, <1>2, <1>3, <2>1, Combine
<1>4. CASE /\ conn' = sendCommand(r) /\ conn.running = NoCommand
           /\ conn.state = "open" /\ Ready(r) /\ HeldIn(r, queued \cup {n})
  <2>1. ReturnsOf(input) = {}
    BY <1>4, OwnCommands, Fields DEF Matched, HasSocket
  <2> HIDE DEF r
  <2>2. Matched(conn', input')
    BY <1>1, <1>4, <2>1, SendMatched
  <2>3. ConnInv(conn') /\ HeldIn(conn', queued')
    BY <1>1, <1>4, SendKeeps
  <2> QED BY <1>2, <2>2, <2>3, Combine
<1> HIDE DEF a, r
<1> QED BY <1>1, <1>3, <1>4, QueCommandSteps DEF a, r

\* queClear keeps nothing but a command that was sent.
LEMMA QueClearKeeps ==
  ASSUME IInv
  PROVE  LET d == queClear(conn)
         IN  /\ ConnInv(d) /\ d.state = conn.state /\ d.out = conn.out
             /\ d.queue = << >>
             /\ d.running = IF Sent(conn.running) THEN conn.running ELSE NoCommand
<1> DEFINE r == IF conn.status # "SEND" THEN NoCommand ELSE conn.running
           d == queClear(conn)
<1>1. r = IF Sent(conn.running) THEN conn.running ELSE NoCommand
  BY Fields DEF Told
<1>2. r \in Cmds
  BY Fields, OwnCommands
<1>3. d = [conn EXCEPT !.running = r, !.queue = << >>]
  BY DEF queClear
<1> HIDE DEF r, d
<1>4. /\ d \in Conns /\ d.running = r /\ d.queue = << >>
      /\ d.state = conn.state /\ d.status = conn.status /\ d.out = conn.out
  <2>1. << >> \in Seq(Cmds)
    OBVIOUS
  <2> QED BY <1>2, <1>3, <2>1, Fields DEF Conns, ConnectionRecord
<1>5. Shaped(d) /\ Single(d)
  BY <1>1, <1>4, Fields DEF Shaped, Single
<1>6. Told(d)
  BY <1>1, <1>4, OwnCommands, Fields DEF Told
<1>7. Linked(d)
  BY <1>1, <1>4, OwnCommands, Fields DEF Linked, HasSocket
<1> QED BY <1>1, <1>4, <1>5, <1>6, <1>7 DEF ConnInv, d

\* The commands a connection holds, by name.
LEMMA HeldNames ==
  ASSUME NEW c
  PROVE  Held(c) = ({c.queue[i].name : i \in DOMAIN c.queue} \cup {c.running.name})
                     \cap Names
BY DEF Held, ToSet

LEMMA HeldSubset ==
  ASSUME NEW c, NEW N, HeldIn(c, N)
  PROVE  Held(c) \subseteq N
BY HeldNames DEF HeldIn

LEMMA ClearAllInv ==
  ASSUME IInv, ClearAll
  PROVE  IInv'
<1> DEFINE d == queClear(conn)
<1>1. conn' = d /\ UNCHANGED <<input, bop, queued>>
  BY DEF ClearAll
<1>2. /\ ConnInv(d) /\ d.state = conn.state /\ d.out = conn.out
      /\ d.queue = << >>
      /\ d.running = IF Sent(conn.running) THEN conn.running ELSE NoCommand
  BY QueClearKeeps
<1> HIDE DEF d
<1>3. Matched(conn', input')
  BY <1>1, <1>2, OwnCommands, Fields DEF Matched, HasSocket
<1>4. HeldIn(conn', queued')
  BY <1>1, <1>2, OwnCommands, NamesAssumption, Fields DEF HeldIn
<1>5. gone' \in SUBSET queued'
  BY <1>1, Fields, HeldSubset DEF ClearAll
<1> QED BY <1>1, <1>2, <1>3, <1>4, <1>5, Fields, Combine

LEMMA ConnectedInv ==
  ASSUME IInv, Connected
  PROVE  IInv' /\ conn'.queue = conn.queue /\ conn'.running = conn.running
<1>1. /\ conn.state = "connecting" /\ conn' = [conn EXCEPT !.state = "pending"]
      /\ UNCHANGED <<input, bop, queued, gone>>
  BY DEF Connected, setConnState
<1>2. /\ conn' \in Conns /\ conn'.running = conn.running
      /\ conn'.queue = conn.queue /\ conn'.state = "pending"
      /\ conn'.status = conn.status /\ conn'.out = conn.out
  BY <1>1, Fields DEF Conns, ConnectionRecord, ConnStates
<1>3. conn.running = NoCommand /\ input = << >>
  BY <1>1, Fields DEF Linked, Matched
<1>4. Shaped(conn') /\ Single(conn')
  BY <1>2, Fields DEF Shaped, Single
<1>5. Told(conn') /\ Linked(conn')
  BY <1>2, <1>3, OwnCommands, Fields DEF Told, Linked
<1>6. ReturnsOf(input') = {}
  BY <1>1, <1>3 DEF ReturnsOf
<1>7. Matched(conn', input')
  BY <1>2, <1>3, <1>6, OwnCommands DEF Matched
<1>8. HeldIn(conn', queued')
  BY <1>1, <1>2, Fields DEF HeldIn
<1> QED BY <1>1, <1>2, <1>4, <1>5, <1>7, <1>8, Fields, Combine DEF ConnInv

\* The key is sent at once, past the commands that are queued.
LEMMA SetKeyInv ==
  ASSUME IInv, SetKey
  PROVE  /\ IInv' /\ conn'.queue = conn.queue
         /\ conn.running = NoCommand /\ conn'.running = Auth
<1> DEFINE r == [conn EXCEPT !.running = Auth]
<1>1. /\ conn.state = "pending" /\ conn.running = NoCommand
      /\ conn' = sendCommand(r) /\ UNCHANGED <<input, bop, queued, gone>>
  BY DEF SetKey, queSend
<1>2. /\ r \in Conns /\ r.running = Auth /\ r.queue = conn.queue
      /\ r.state = conn.state /\ r.status = conn.status /\ r.out = conn.out
  BY Fields, OwnCommands DEF Conns, ConnectionRecord
<1> HIDE DEF r
<1>3. \A i \in DOMAIN conn.queue : conn.queue[i].name # "auth"
  BY Fields, PendingNames
<1>4. Single(r)
  BY <1>2, <1>3, OwnCommands, Fields DEF Single
<1>5. Ready(r)
  BY <1>1, <1>2, <1>4, OwnCommands, Fields DEF Ready
<1>6. ReturnsOf(input) = {}
  BY <1>1, OwnCommands, Fields DEF Matched, HasSocket
<1>7. Matched(conn', input')
  BY <1>1, <1>5, <1>6, SendMatched
<1>8. HeldIn(r, queued)
  BY <1>2, OwnCommands, NamesAssumption, Fields DEF HeldIn
<1>9. ConnInv(conn') /\ HeldIn(conn', queued')
  BY <1>1, <1>5, <1>8, SendKeeps
<1>10. IInv'
  BY <1>1, <1>7, <1>9, Fields, Combine
<1>11. Sends(r, conn')
  <2>1. ASSUME NEW cmd, Pending(cmd) PROVE cmd.name # "auth"
    BY <2>1, PendingNames
  <2>2. ASSUME NEW cmd, Started(cmd) PROVE cmd.name # "auth"
    BY <2>2, StartedSent
  <2> QED BY <1>1, <1>2, <1>5, <2>1, <2>2, OwnCommands, SendKeeps DEF Asks, Waits
<1>12. conn'.running = Auth /\ conn'.queue = conn.queue
  <2>1. ASSUME NEW cmd, Started(cmd) PROVE cmd.name # "auth"
    BY <2>1, StartedSent
  <2> QED BY <1>2, <1>11, <2>1, OwnCommands DEF Sends
<1> QED BY <1>1, <1>10, <1>12

LEMMA DeviceExecutesInv ==
  ASSUME IInv, DeviceExecutes
  PROVE  IInv' /\ conn'.queue = conn.queue /\ conn'.running = conn.running
<1>1. /\ conn.out # << >> /\ conn' = [conn EXCEPT !.out = Tail(@)]
      /\ UNCHANGED <<bop, queued, gone>>
  BY DEF DeviceExecutes
<1>2. HasSocket(conn) /\ Sent(conn.running) /\ Len(conn.out) = 1
  BY <1>1, Fields DEF Linked
<1>3. Tail(conn.out) = << >>
  <2>1. conn.out \in Seq(Lines)
    BY Fields DEF Conns, ConnectionRecord
  <2>2. Tail(conn.out) \in Seq(Lines) /\ Len(Tail(conn.out)) = 0
    BY <1>1, <1>2, <2>1, HeadTailProperties
  <2> QED BY <2>2, EmptySeq
<1>4. /\ conn' \in Conns /\ conn'.running = conn.running
      /\ conn'.queue = conn.queue /\ conn'.state = conn.state
      /\ conn'.status = conn.status /\ conn'.out = << >>
  <2>1. << >> \in Seq(Lines)
    OBVIOUS
  <2>2. conn' = [conn EXCEPT !.out = << >>]
    BY <1>1, <1>3
  <2> QED BY <2>1, <2>2, Fields DEF Conns, ConnectionRecord
<1>5. Shaped(conn') /\ Single(conn')
  BY <1>4, Fields DEF Shaped, Single
<1>6. Told(conn') /\ Linked(conn')
  BY <1>4, Fields DEF Told, Linked
<1>7. ReturnsOf(input) = {}
  BY <1>1, <1>2, Fields DEF Matched
<1>8. /\ input' \in Seq(Messages)
      /\ \E i \in DOMAIN input' : ReturnsOf(input') = {i}
  <2>1. PICK ok \in BOOLEAN : input' = input \o
               (IF Head(conn.out) = "auth" /\ ok
                THEN <<[bop |-> bop], [ok |-> ok]>>
                ELSE IF Head(conn.out) = "device_status"
                THEN <<[bop |-> bop], [ok |-> TRUE]>>
                ELSE <<[ok |-> ok]>>)
    BY DEF DeviceExecutes
  <2>2. ASSUME NEW b \in BOOLEAN
        PROVE  LET s == Append(input, [ok |-> b])
               IN  /\ input \o <<[ok |-> b]>> = s /\ s \in Seq(Messages)
                   /\ \E i \in DOMAIN s : ReturnsOf(s) = {i}
    <3> DEFINE m == [ok |-> b]
    <3>1. m \in Messages /\ "ok" \in DOMAIN m
      BY NewMessages
    <3> HIDE DEF m
    <3>2. LET s == Append(input, m)
          IN  /\ input \o <<m>> = s /\ s \in Seq(Messages)
              /\ Len(input) + 1 \in DOMAIN s
              /\ ReturnsOf(s) = {Len(input) + 1}
      BY <1>7, <3>1, Fields, LineWritten
    <3> QED BY <3>2 DEF m
  <2>3. ASSUME NEW b \in BOOLEAN
        PROVE  LET s == input \o <<[bop |-> bop], [ok |-> b]>>
               IN  s \in Seq(Messages) /\ \E i \in DOMAIN s : ReturnsOf(s) = {i}
    <3> DEFINE l == [bop |-> bop]
               m == [ok |-> b]
               t == Append(input, l)
    <3>1. l \in Messages /\ "ok" \notin DOMAIN l /\ m \in Messages /\ "ok" \in DOMAIN m
      BY Fields, NewMessages
    <3> HIDE DEF l, m
    <3>2. input \in Seq(Messages)
      BY Fields
    <3>3. input \o <<l, m>> = Append(t, m)
      <4> HIDE DEF Messages
      <4> QED BY <3>1, <3>2
    <3>4. t \in Seq(Messages) /\ ReturnsOf(t) = {}
      BY <1>7, <3>1, <3>2, LineWritten
    <3> HIDE DEF t
    <3>5. LET s == Append(t, m)
          IN  /\ s \in Seq(Messages) /\ Len(t) + 1 \in DOMAIN s
              /\ ReturnsOf(s) = {Len(t) + 1}
      BY <3>1, <3>4, LineWritten
    <3> QED BY <3>3, <3>5 DEF l, m
  <2>4. \/ \E b \in BOOLEAN : input' = input \o <<[ok |-> b]>>
        \/ \E b \in BOOLEAN : input' = input \o <<[bop |-> bop], [ok |-> b]>>
    BY <2>1, Zenon
  <2> QED BY <2>2, <2>3, <2>4, Zenon
<1>9. Matched(conn', input')
  BY <1>2, <1>4, <1>8 DEF Matched, HasSocket
<1>10. HeldIn(conn', queued')
  BY <1>1, <1>4, Fields DEF HeldIn
<1> QED BY <1>1, <1>4, <1>5, <1>6, <1>8, <1>9, <1>10, Fields, Combine DEF ConnInv

LEMMA DeviceBopInv ==
  ASSUME IInv, DeviceBop
  PROVE  IInv' /\ conn' = conn
<1>1. /\ conn' = conn /\ bop' \in SUBSET Bits /\ UNCHANGED <<queued, gone>>
      /\ input' = IF HasSocket(conn) THEN Append(input, [bop |-> bop']) ELSE input
  BY DEF DeviceBop
<1> DEFINE m == [bop |-> bop']
<1>2. m \in Messages /\ "ok" \notin DOMAIN m
  BY <1>1, NewMessages
<1> HIDE DEF m
<1>3. /\ Append(input, m) \in Seq(Messages)
      /\ DOMAIN input \subseteq DOMAIN Append(input, m)
      /\ ReturnsOf(Append(input, m)) = ReturnsOf(input)
  <2>1. input \in Seq(Messages)
    BY Fields
  <2>2. /\ Append(input, m) \in Seq(Messages)
        /\ DOMAIN input \subseteq DOMAIN Append(input, m)
        /\ ReturnsOf(Append(input, m)) = ReturnsOf(input) \cup {}
    BY <1>2, <2>1, LineWritten
  <2> QED BY <2>2
<1>4. input' = IF HasSocket(conn) THEN Append(input, m) ELSE input
  BY <1>1 DEF m
<1>5. input' \in Seq(Messages)
  BY <1>3, <1>4, Fields
<1>6. Matched(conn', input')
  <2>1. CASE HasSocket(conn)
    <3>1. conn.state # "connecting"
      BY <2>1 DEF HasSocket
    <3> QED BY <1>1, <1>3, <1>4, <2>1, <3>1, Fields DEF Matched
  <2>2. CASE ~HasSocket(conn)
    BY <1>1, <1>4, <2>2, Fields
  <2> QED BY <2>1, <2>2
<1> QED BY <1>1, <1>5, <1>6, Fields, Combine DEF IInv

\* A new BOP state: the connection is as before, or a command that waits for
\* the state is tried again.
LEMMA ReadBopInv ==
  ASSUME IInv, ReadBop
  PROVE  LET d == [conn EXCEPT !.bop = Head(input).bop]
         IN  /\ IInv' /\ d.running = conn.running /\ d.queue = conn.queue
             /\ \/ conn' = d
                \/ /\ conn' = sendCommand(d) /\ Ready(d)
                   /\ Started(conn.running) /\ ~Sent(conn.running)
<1> DEFINE b == Head(input).bop
           d == [conn EXCEPT !.bop = b]
<1>1. /\ HasSocket(conn) /\ input # << >> /\ "bop" \in DOMAIN Head(input)
      /\ conn' = setBopState(conn, b) /\ input' = Tail(input)
      /\ UNCHANGED <<bop, queued, gone>>
  BY DEF ReadBop
<1>2. /\ input \in Seq(Messages) /\ Head(input) \in Messages
      /\ input' \in Seq(Messages)
  BY <1>1, Fields, LineRead
<1>3. b \in SUBSET Bits /\ "ok" \notin DOMAIN Head(input)
  BY <1>1, <1>2, MessageKinds
<1> HIDE DEF b
<1>4. /\ d \in Conns /\ d.running = conn.running /\ d.queue = conn.queue
      /\ d.state = conn.state /\ d.status = conn.status /\ d.out = conn.out
  BY <1>3, Fields DEF Conns, ConnectionRecord
<1>5. conn' = IF d.running.cip = "RUN" THEN sendCommand(d) ELSE d
  BY <1>1 DEF setBopState
<1> HIDE DEF d
<1>6. IF Sent(conn.running) /\ conn.out = << >>
      THEN \E i \in DOMAIN input' : ReturnsOf(input') = {i}
      ELSE ReturnsOf(input') = {}
  <2>1. CASE Sent(conn.running) /\ conn.out = << >>
    <3>1. PICK i \in DOMAIN input : ReturnsOf(input) = {i}
      BY <1>1, <2>1, Fields DEF Matched
    <3>2. i - 1 \in DOMAIN input' /\ ReturnsOf(input') = {i - 1}
      BY <1>1, <1>2, <1>3, <3>1, LineRead
    <3> QED BY <2>1, <3>2
  <2>2. CASE ~(Sent(conn.running) /\ conn.out = << >>)
    <3>1. ReturnsOf(input) = {}
      BY <1>1, <2>2, Fields DEF Matched
    <3> QED BY <1>1, <1>2, <1>3, <2>2, <3>1, LineRead
  <2> QED BY <2>1, <2>2
<1>7. HeldIn(d, queued)
  BY <1>4, Fields DEF HeldIn
<1>8. conn.state # "connecting" /\ (HasSocket(d) <=> HasSocket(conn))
  BY <1>1, <1>4 DEF HasSocket
<1>9. CASE conn.running.cip = "RUN"
  <2>1. Started(conn.running) /\ ~Sent(conn.running)
    BY <1>9, Fields, OwnCommands, StartedSent DEF Shaped
  <2>2. Ready(d)
    <3>1. Single(d)
      BY <1>4, Fields DEF Single
    <3> QED BY <1>4, <1>8, <1>9, <2>1, <3>1, Fields DEF Ready
  <2>3. ReturnsOf(input') = {}
    BY <1>6, <2>1
  <2>4. conn' = sendCommand(d)
    BY <1>4, <1>5, <1>9
  <2>5. Matched(conn', input')
    BY <2>2, <2>3, <2>4, SendMatched
  <2>6. ConnInv(conn') /\ HeldIn(conn', queued')
    BY <1>1, <1>7, <2>2, <2>4, SendKeeps
  <2>7. IInv'
    BY <1>1, <1>2, <2>5, <2>6, Fields, Combine
  <2> QED BY <1>4, <2>1, <2>2, <2>4, <2>7 DEF d, b
<1>10. CASE conn.running.cip # "RUN"
  <2>1. conn' = d
    BY <1>4, <1>5, <1>10
  <2>2. Shaped(d) /\ Single(d)
    BY <1>4, Fields DEF Shaped, Single
  <2>3. Told(d)
    BY <1>4, Fields DEF Told
  <2>4. Linked(d)
    BY <1>4, <1>8, Fields DEF Linked
  <2>5. Matched(d, input')
    BY <1>4, <1>6, <1>8 DEF Matched
  <2>6. IInv'
    BY <1>1, <1>2, <1>4, <1>7, <2>1, <2>2, <2>3, <2>4, <2>5, Fields, Combine
       DEF ConnInv
  <2> QED BY <1>4, <2>1, <2>6 DEF d, b
<1> QED BY <1>9, <1>10

\* The connection after the return of the running command, before the next.
Returned(c, ok) ==
  [(IF c.running.name # "auth" THEN c
    ELSE IF ok THEN setConnState(c, "open")
    ELSE connectionError(c)) EXCEPT !.status = "RETURNING"]

\* A return ends the running command, which was sent, and the next is taken.
LEMMA ReadReturnInv ==
  ASSUME IInv, ReadReturn
  PROVE  /\ IInv'
         /\ Sent(conn.running)
         /\ gone' = gone \cup ({conn.running.name} \cap Names)
         /\ \E ok : LET f == Returned(conn, ok)
                    IN  /\ Free(f) /\ f.queue = conn.queue
                        /\ conn' = sendNextCommand(f)
<1> DEFINE ok == Head(input).ok
           f == Returned(conn, ok)
<1>1. /\ HasSocket(conn) /\ input # << >> /\ "ok" \in DOMAIN Head(input)
      /\ input' = Tail(input) /\ UNCHANGED <<bop, queued>>
      /\ gone' = gone \cup ({conn.running.name} \cap Names)
  BY DEF ReadReturn
<1>2. /\ input \in Seq(Messages) /\ 1 \in ReturnsOf(input)
      /\ input' \in Seq(Messages)
  BY <1>1, Fields, LineRead
<1>3. Sent(conn.running) /\ conn.out = << >>
  BY <1>1, <1>2, Fields DEF Matched
<1>4. ReturnsOf(input') = {}
  <2>1. PICK i \in DOMAIN input : ReturnsOf(input) = {i}
    BY <1>1, <1>3, Fields DEF Matched
  <2> QED BY <1>1, <1>2, <2>1, LineRead
<1>5. conn.running # NoCommand
  BY <1>3, OwnCommands
<1>6. conn' = sendNextCommand(f)
  BY <1>5 DEF ReadReturn, commandReturn, Returned
<1>7. /\ f \in Conns /\ f.queue = conn.queue /\ f.status = "RETURNING"
      /\ f.running = conn.running
      /\ f.state # "connecting" /\ f.out = << >>
  <2>1. CASE conn.running.name # "auth"
    <3>1. f = [conn EXCEPT !.status = "RETURNING"]
      BY <2>1 DEF Returned
    <3>2. conn.state # "connecting"
      BY <1>1 DEF HasSocket
    <3> HIDE DEF f
    <3> QED BY <1>3, <3>1, <3>2, Fields DEF Conns, ConnectionRecord
  <2>2. CASE conn.running.name = "auth" /\ ok
    <3>1. f = [[conn EXCEPT !.state = "open"] EXCEPT !.status = "RETURNING"]
      BY <1>5, <2>2 DEF Returned, setConnState
    <3> HIDE DEF f
    <3> QED BY <1>3, <3>1, Fields DEF Conns, ConnectionRecord, ConnStates
  <2>3. CASE conn.running.name = "auth" /\ ~ok
    <3>1. f = [[conn EXCEPT !.state = "delete", !.out = << >>]
                 EXCEPT !.status = "RETURNING"]
      BY <1>5, <2>3 DEF Returned, connectionError
    <3>2. << >> \in Seq(Lines)
      OBVIOUS
    <3> HIDE DEF f
    <3> QED BY <1>3, <3>1, <3>2, Fields DEF Conns, ConnectionRecord, ConnStates
  <2> QED BY <2>1, <2>2, <2>3
<1> HIDE DEF f
<1>8. Free(f)
  BY <1>7, Fields DEF Free, Single
<1>9. HeldIn(f, queued)
  BY <1>7, Fields DEF HeldIn
<1>10. ConnInv(conn') /\ HeldIn(conn', queued')
  BY <1>1, <1>6, <1>8, <1>9, SendNext
<1>11. Matched(conn', input')
  BY <1>4, <1>6, <1>8, SendNextMatched
<1>12. gone' \in SUBSET queued'
  BY <1>1, Fields DEF HeldIn
<1>13. IInv'
  BY <1>1, <1>2, <1>10, <1>11, <1>12, Fields, Combine
<1> QED BY <1>1, <1>3, <1>6, <1>7, <1>8, <1>13 DEF f

LEMMA BreakInv ==
  ASSUME IInv, Break
  PROVE  IInv' /\ conn'.queue = conn.queue /\ conn'.running = conn.running
<1>1. /\ conn' = [conn EXCEPT !.state = "delete", !.out = << >>]
      /\ UNCHANGED <<input, bop, queued, gone>>
  BY DEF Break, connectionError
<1>2. /\ conn' \in Conns /\ conn'.running = conn.running
      /\ conn'.queue = conn.queue /\ conn'.state = "delete"
      /\ conn'.status = conn.status /\ conn'.out = << >>
  <2>1. << >> \in Seq(Lines)
    OBVIOUS
  <2> QED BY <1>1, <2>1, Fields DEF Conns, ConnectionRecord, ConnStates
<1>3. Shaped(conn') /\ Single(conn')
  BY <1>2, Fields DEF Shaped, Single
<1>4. Told(conn') /\ Linked(conn')
  BY <1>2, Fields DEF Told, Linked
<1>5. Matched(conn', input')
  BY <1>2 DEF Matched, HasSocket
<1>6. HeldIn(conn', queued')
  BY <1>1, <1>2, Fields DEF HeldIn
<1> QED BY <1>1, <1>2, <1>3, <1>4, <1>5, <1>6, Fields, Combine DEF ConnInv

LEMMA RemoveConnectionInv ==
  ASSUME IInv, RemoveConnection
  PROVE  IInv'
<1>1. /\ conn' = NewConnection("connecting") /\ input' = << >>
      /\ gone' = gone \cup Held(conn) /\ UNCHANGED <<bop, queued>>
  BY DEF RemoveConnection
<1>2. ConnInv(conn') /\ Matched(conn', input') /\ HeldIn(conn', queued')
  BY <1>1, NewConnectionInv
<1>3. gone' \in SUBSET queued'
  BY <1>1, Fields, HeldSubset
<1>4. input' \in Seq(Messages)
  BY <1>1
<1> QED BY <1>1, <1>2, <1>3, <1>4, Fields, Combine

\* The invariant is inductive.
LEMMA NextIInv == IInv /\ [Next]_vars => IInv'
<1> SUFFICES ASSUME IInv, [Next]_vars PROVE IInv'
  OBVIOUS
<1>1. CASE UNCHANGED vars
  BY <1>1 DEF vars, IInv, TypeOK, ConnInv, Matched, HeldIn, Shaped, Single, Told,
              Linked, HasSocket
<1>2. CASE Next
  BY <1>2, QueCommandInv, ClearAllInv, ConnectedInv, SetKeyInv, DeviceExecutesInv,
     DeviceBopInv, ReadBopInv, ReadReturnInv, BreakInv, RemoveConnectionInv DEF Next
<1> QED BY <1>1, <1>2

\* The invariant holds in every reachable state.
THEOREM Invariance == Spec => []IInv
BY InitIInv, NextIInv, PTL DEF Spec

\* The state of the connection, of the lines under way and of the histories is
\* well typed.
THEOREM TypeCorrect == Spec => []TypeOK
<1>1. IInv => TypeOK
  BY DEF IInv
<1> QED BY <1>1, Invariance, PTL

\* Whatever commands and masks: the one return to come is that of the command
\* that runs, and it was sent.
THEOREM ReturnsMatchCommands == Spec => []ReturnsMatch
<1>1. IInv => ReturnsMatch
  <2> SUFFICES ASSUME IInv, HasSocket(conn)
               PROVE  Len(conn.out) + Cardinality(Returns)
                        = IF Sent(conn.running) THEN 1 ELSE 0
    BY DEF ReturnsMatch
  <2>1. Returns = ReturnsOf(input)
    BY DEF Returns, ReturnsOf
  <2>2. Cardinality({}) = 0 /\ \A i : Cardinality({i}) = 1
    BY FS_EmptySet, FS_Singleton
  <2>3. Len(<< >>) = 0
    OBVIOUS
  <2>4. CASE conn.out = << >>
    <3>1. CASE Sent(conn.running)
      <4>1. PICK i : Returns = {i}
        BY <2>1, <2>4, <3>1, Fields DEF Matched
      <4>2. Cardinality(Returns) = 1
        BY <2>2, <4>1
      <4> QED BY <2>3, <2>4, <3>1, <4>2
    <3>2. CASE ~Sent(conn.running)
      <4>1. Returns = {}
        BY <2>1, <3>2, Fields DEF Matched
      <4> QED BY <2>2, <2>3, <2>4, <3>2, <4>1
    <3> QED BY <3>1, <3>2
  <2>5. CASE conn.out # << >>
    <3>1. Sent(conn.running) /\ Len(conn.out) = 1
      BY <2>5, Fields DEF Linked
    <3>2. Returns = {}
      BY <2>1, <2>5, Fields DEF Matched
    <3> QED BY <2>2, <3>1, <3>2
  <2> QED BY <2>4, <2>5
<1> QED BY <1>1, Invariance, PTL

\* runningCommandStatus says SEND exactly for a command that was sent, and
\* queEmpty overlooks no command but one that waits for a state.
THEOREM StatusTellsTruth == Spec => []StatusTells
<1>1. IInv => StatusTells
  <2> SUFFICES ASSUME IInv, conn.running # NoCommand
               PROVE  /\ conn.status = "SEND" <=> Sent(conn.running)
                      /\ queEmpty(conn) => conn.running.while
    BY DEF StatusTells
  <2>1. conn.status = "SEND" <=> Sent(conn.running)
    BY Fields DEF Told
  <2>2. ASSUME queEmpty(conn) PROVE conn.running.while
    <3>1. conn.status = "RETURNING" /\ ~Sent(conn.running)
      BY <2>1, <2>2 DEF queEmpty
    <3>2. Started(conn.running) /\ conn.running.cip = "RUN"
      BY <3>1, OwnCommands, StartedSent, Fields DEF Shaped
    <3>3. conn.running.name \in While
      BY <3>1, <3>2, Fields DEF Told, Started, Masked, Names
    <3> QED BY <3>2, <3>3 DEF Started, Masked
  <2> QED BY <2>1, <2>2
<1> QED BY <1>1, Invariance, PTL

-----------------------------------------------------------------------------
(***************************************************************************)
(* The refinement: what those who queue commands see is CommandOrder.      *)
(***************************************************************************)
CmdNames == Names \cup {"none", "auth", "device_status"}

\* Todo and Live of a connection.
TodoOf(c) == NamesOf(Unsent(c))

LiveOf(c) == IF Sent(c.running) /\ c.running.name \in Names
             THEN c.running.name ELSE "none"

\* The names of a sequence of commands follow the operations on it.
LEMMA NamesOfSeq ==
  ASSUME NEW q \in Seq(Cmds)
  PROVE  /\ NamesOf(q) \in Seq(CmdNames) /\ Len(NamesOf(q)) = Len(q)
         /\ \A i \in 1 .. Len(q) : NamesOf(q)[i] = q[i].name
         /\ ToSet(NamesOf(q)) = {q[i].name : i \in DOMAIN q}
<1>1. DOMAIN q = 1 .. Len(q) /\ Len(q) \in Nat
  OBVIOUS
<1>2. \A i \in DOMAIN q : q[i] \in Cmds /\ q[i].name \in CmdNames
  <2>1. \A i \in DOMAIN q : q[i] \in Cmds
    BY <1>1
  <2> QED BY <2>1 DEF Cmds, Command, CmdNames
<1> DEFINE p == NamesOf(q)
<1>3. p \in [1 .. Len(q) -> CmdNames]
  BY <1>1, <1>2 DEF NamesOf
<1>4. p \in Seq(CmdNames) /\ Len(p) = Len(q)
  BY <1>1, <1>3
<1>5. \A i \in DOMAIN q : p[i] = q[i].name
  BY DEF NamesOf
<1>6. DOMAIN p = DOMAIN q
  BY DEF NamesOf
<1> HIDE DEF p
<1>7. ToSet(p) = {q[i].name : i \in DOMAIN q}
  BY <1>5, <1>6 DEF ToSet
<1> QED BY <1>1, <1>4, <1>5, <1>7 DEF p

LEMMA NamesOfEmpty == NamesOf(<< >>) = << >>
<1>1. << >> \in Seq(Cmds)
  OBVIOUS
<1>2. NamesOf(<< >>) \in Seq(CmdNames) /\ Len(NamesOf(<< >>)) = 0
  BY <1>1, NamesOfSeq
<1> QED BY <1>2, EmptySeq

LEMMA NamesOfAppend ==
  ASSUME NEW q \in Seq(Cmds), NEW cmd \in Cmds
  PROVE  NamesOf(Append(q, cmd)) = Append(NamesOf(q), cmd.name)
<1> DEFINE r == Append(q, cmd)
           p == NamesOf(q)
           s == Append(p, cmd.name)
<1>1. /\ r \in Seq(Cmds) /\ Len(r) = Len(q) + 1 /\ Len(q) \in Nat
      /\ r[Len(q) + 1] = cmd /\ \A i \in 1 .. Len(q) : r[i] = q[i]
  OBVIOUS
<1>2. p \in Seq(CmdNames) /\ Len(p) = Len(q) /\ \A i \in 1 .. Len(q) : p[i] = q[i].name
  BY NamesOfSeq
<1>3. cmd.name \in CmdNames
  BY DEF Cmds, Command, CmdNames
<1> HIDE DEF p
<1>4. /\ s \in Seq(CmdNames) /\ Len(s) = Len(q) + 1
      /\ s[Len(q) + 1] = cmd.name /\ \A i \in 1 .. Len(q) : s[i] = p[i]
  BY <1>1, <1>2, <1>3
<1> HIDE DEF r, s
<1>5. /\ NamesOf(r) \in Seq(CmdNames) /\ Len(NamesOf(r)) = Len(q) + 1
      /\ \A i \in 1 .. Len(q) + 1 : NamesOf(r)[i] = r[i].name
  BY <1>1, NamesOfSeq
<1>6. ASSUME NEW i \in 1 .. Len(q) + 1 PROVE NamesOf(r)[i] = s[i]
  <2>1. NamesOf(r)[i] = r[i].name
    BY <1>5
  <2>2. CASE i = Len(q) + 1
    BY <1>1, <1>4, <2>1, <2>2
  <2>3. CASE i \in 1 .. Len(q)
    <3>1. r[i] = q[i] /\ s[i] = p[i] /\ p[i] = q[i].name
      BY <1>1, <1>2, <1>4, <2>3
    <3> QED BY <2>1, <3>1
  <2> QED BY <1>1, <2>2, <2>3
<1>7. NamesOf(r) = s
  BY <1>4, <1>5, <1>6, SeqEqual
<1> QED BY <1>7 DEF r, s, p

LEMMA NamesOfCons ==
  ASSUME NEW q \in Seq(Cmds), NEW cmd \in Cmds
  PROVE  NamesOf(<<cmd>> \o q) = <<cmd.name>> \o NamesOf(q)
<1> DEFINE r == <<cmd>> \o q
           p == NamesOf(q)
           s == <<cmd.name>> \o p
<1>1. /\ r \in Seq(Cmds) /\ Len(r) = Len(q) + 1 /\ Len(q) \in Nat
      /\ r[1] = cmd
      /\ \A i \in 2 .. Len(q) + 1 : r[i] = q[i - 1] /\ i - 1 \in 1 .. Len(q)
  OBVIOUS
<1>2. p \in Seq(CmdNames) /\ Len(p) = Len(q) /\ \A i \in 1 .. Len(q) : p[i] = q[i].name
  BY NamesOfSeq
<1>3. cmd.name \in CmdNames
  BY DEF Cmds, Command, CmdNames
<1> HIDE DEF p
<1>4. /\ s \in Seq(CmdNames) /\ Len(s) = Len(q) + 1
      /\ s[1] = cmd.name /\ \A i \in 2 .. Len(q) + 1 : s[i] = p[i - 1]
  BY <1>1, <1>2, <1>3
<1> HIDE DEF r, s
<1>5. /\ NamesOf(r) \in Seq(CmdNames) /\ Len(NamesOf(r)) = Len(q) + 1
      /\ \A i \in 1 .. Len(q) + 1 : NamesOf(r)[i] = r[i].name
  BY <1>1, NamesOfSeq
<1>6. \A i \in 1 .. Len(q) + 1 : NamesOf(r)[i] = s[i]
  <2>1. NamesOf(r)[1] = s[1]
    BY <1>1, <1>4, <1>5
  <2>2. ASSUME NEW i \in 2 .. Len(q) + 1 PROVE NamesOf(r)[i] = s[i]
    <3>1. i \in 1 .. Len(q) + 1 /\ i - 1 \in 1 .. Len(q)
      BY <1>1
    <3>2. NamesOf(r)[i] = r[i].name /\ p[i - 1] = q[i - 1].name
      BY <1>2, <1>5, <3>1
    <3>3. r[i] = q[i - 1] /\ s[i] = p[i - 1]
      BY <1>1, <1>4
    <3> QED BY <3>2, <3>3
  <2>3. \A i \in 1 .. Len(q) + 1 : i = 1 \/ i \in 2 .. Len(q) + 1
    BY <1>1
  <2> QED BY <2>1, <2>2, <2>3
<1>7. NamesOf(r) = s
  BY <1>4, <1>5, <1>6, SeqEqual
<1> QED BY <1>7 DEF r, s, p

\* Taking the first command from a queue and the first of its names.
LEMMA NamesOfTail ==
  ASSUME NEW q \in Seq(Cmds), q # << >>
  PROVE  /\ Head(q) \in Cmds /\ Tail(q) \in Seq(Cmds)
         /\ NamesOf(q) # << >>
         /\ Head(NamesOf(q)) = Head(q).name
         /\ Tail(NamesOf(q)) = NamesOf(Tail(q))
         /\ NamesOf(q) = <<Head(q).name>> \o NamesOf(Tail(q))
<1>1. /\ Head(q) \in Cmds /\ Tail(q) \in Seq(Cmds) /\ q = <<Head(q)>> \o Tail(q)
  OBVIOUS
<1>2. NamesOf(q) = <<Head(q).name>> \o NamesOf(Tail(q))
  <2> DEFINE h == Head(q)
             t == Tail(q)
  <2> HIDE DEF h, t
  <2>1. NamesOf(<<h>> \o t) = <<h.name>> \o NamesOf(t)
    BY <1>1, NamesOfCons DEF h, t
  <2> QED BY <1>1, <2>1 DEF h, t
<1>3. Head(q).name \in CmdNames /\ NamesOf(Tail(q)) \in Seq(CmdNames)
  BY <1>1, NamesOfSeq DEF Cmds, Command, CmdNames
<1>4. \A S : \A x \in S : \A p \in Seq(S) :
         /\ <<x>> \o p # << >> /\ Head(<<x>> \o p) = x /\ Tail(<<x>> \o p) = p
  OBVIOUS
<1> QED BY <1>1, <1>2, <1>3, <1>4

\* What the invariant says of the commands to do.
LEMMA TodoIs ==
  ASSUME NEW c, ConnInv(c)
  PROVE  /\ c.queue \in Seq(Cmds) /\ c.running \in Cmds
         /\ c.running = NoCommand \/ Sent(c.running) => TodoOf(c) = NamesOf(c.queue)
         /\ ~(c.running = NoCommand \/ Sent(c.running)) =>
              TodoOf(c) = <<c.running.name>> \o NamesOf(c.queue)
<1>1. c.queue \in Seq(Cmds) /\ c.running \in Cmds
  BY DEF ConnInv, Conns, ConnectionRecord
<1>2. CASE c.running = NoCommand \/ Sent(c.running)
  <2>1. << >> \o c.queue = c.queue
    BY <1>1
  <2> QED BY <1>1, <1>2, <2>1 DEF TodoOf, Unsent
<1>3. CASE ~(c.running = NoCommand \/ Sent(c.running))
  <2>1. Unsent(c) = <<c.running>> \o c.queue
    BY <1>3 DEF Unsent
  <2> QED BY <1>1, <1>3, <2>1, NamesOfCons DEF TodoOf
<1> QED BY <1>2, <1>3

\* A command that is tried is begun, or stays the first of those to do.
LEMMA SendTodo ==
  ASSUME NEW c, Ready(c), c.running.name \in Names
  PROVE  LET d == sendCommand(c)
         IN  \/ /\ TodoOf(d) = <<c.running.name>> \o NamesOf(c.queue)
                /\ LiveOf(d) = "none"
             \/ /\ TodoOf(d) = NamesOf(c.queue)
                /\ LiveOf(d) = c.running.name
<1> DEFINE d == sendCommand(c)
<1>1. /\ ConnInv(d) /\ d.running # NoCommand
      /\ Sends(c, d) \/ Asks(c, d) \/ Waits(c, d)
  BY SendKeeps
<1>2. c.queue \in Seq(Cmds)
  BY DEF Ready, Conns, ConnectionRecord
<1> HIDE DEF d
<1>3. CASE Sends(c, d)
  BY <1>1, <1>3, TodoIs DEF Sends, LiveOf, d
<1>4. CASE Asks(c, d)
  <2>1. PICK cmd : /\ Pending(cmd) /\ cmd.name = c.running.name
                   /\ d.queue = <<cmd>> \o c.queue
    BY <1>4 DEF Asks
  <2>2. cmd \in Cmds
    BY <2>1, PendingNames
  <2>3. TodoOf(d) = NamesOf(d.queue) /\ LiveOf(d) = "none"
    BY <1>1, <1>4, OwnCommands, NamesAssumption, TodoIs DEF Asks, LiveOf
  <2>4. NamesOf(d.queue) = <<c.running.name>> \o NamesOf(c.queue)
    BY <1>2, <2>1, <2>2, NamesOfCons
  <2> QED BY <2>3, <2>4 DEF d
<1>5. CASE Waits(c, d)
  BY <1>1, <1>5, TodoIs DEF Waits, LiveOf, d
<1> QED BY <1>1, <1>3, <1>4, <1>5

\* When the next command is taken, the first of those to do is begun, or none.
LEMMA SendNextTodo ==
  ASSUME NEW c, Free(c)
  PROVE  LET d == sendNextCommand(c)
             p == NamesOf(c.queue)
         IN  \/ TodoOf(d) = p /\ LiveOf(d) = "none"
             \/ p # << >> /\ TodoOf(d) = Tail(p) /\ LiveOf(d) = Head(p)
<1> DEFINE d == sendNextCommand(c)
           p == NamesOf(c.queue)
<1>1. ConnInv(d)
  BY SendNext
<1>2. c.queue \in Seq(Cmds) /\ \A i \in DOMAIN c.queue : Pending(c.queue[i])
  BY DEF Free, Conns, ConnectionRecord
<1>3. CASE c.queue = << >>
  <2>1. d.running = NoCommand /\ d.queue = c.queue
    BY <1>3, SendNext
  <2> HIDE DEF d
  <2>2. TodoOf(d) = p /\ LiveOf(d) = "none"
    BY <1>1, <2>1, OwnCommands, TodoIs DEF LiveOf
  <2> QED BY <2>2 DEF d
<1>4. CASE c.queue # << >>
  <2> DEFINE t == Taken(c)
  <2>1. /\ d = sendCommand(t) /\ Ready(t)
        /\ t.running = Head(c.queue) /\ t.queue = Tail(c.queue)
    BY <1>4, SendNext, TakenReady
  <2>2. Head(c.queue).name \in Names
    <3>1. Head(c.queue) = c.queue[1] /\ 1 \in DOMAIN c.queue
      BY <1>2, <1>4
    <3> QED BY <1>2, <3>1, PendingNames
  <2> HIDE DEF t
  <2>3. \/ /\ TodoOf(sendCommand(t)) = <<t.running.name>> \o NamesOf(t.queue)
           /\ LiveOf(sendCommand(t)) = "none"
        \/ /\ TodoOf(sendCommand(t)) = NamesOf(t.queue)
           /\ LiveOf(sendCommand(t)) = t.running.name
    BY <2>1, <2>2, SendTodo
  <2>4. /\ p # << >> /\ Head(p) = Head(c.queue).name
        /\ Tail(p) = NamesOf(Tail(c.queue))
        /\ p = <<Head(c.queue).name>> \o NamesOf(Tail(c.queue))
    BY <1>2, <1>4, NamesOfTail
  <2> HIDE DEF d, p
  <2> QED BY <2>1, <2>3, <2>4 DEF d, p
<1> QED BY <1>3, <1>4

\* Todo, Live and the names of the queue in a state.
LEMMA Mapping ==
  ASSUME IInv
  PROVE  /\ Todo = TodoOf(conn) /\ Live = LiveOf(conn)
         /\ NamesOf(conn.queue) \in Seq(CmdNames)
         /\ ToSet(NamesOf(conn.queue)) = {conn.queue[i].name : i \in DOMAIN conn.queue}
         /\ conn.running = NoCommand \/ Sent(conn.running) =>
              Todo = NamesOf(conn.queue)
         /\ ~(conn.running = NoCommand \/ Sent(conn.running)) =>
              /\ Todo = <<conn.running.name>> \o NamesOf(conn.queue)
              /\ Started(conn.running)
              /\ ToSet(Todo) = {conn.running.name} \cup ToSet(NamesOf(conn.queue))
<1>1. Todo = TodoOf(conn) /\ Live = LiveOf(conn)
  BY DEF Todo, TodoOf, Live, LiveOf
<1>2. conn.queue \in Seq(Cmds) /\ conn.running \in Cmds
  BY Fields
<1>3. /\ NamesOf(conn.queue) \in Seq(CmdNames)
      /\ ToSet(NamesOf(conn.queue)) = {conn.queue[i].name : i \in DOMAIN conn.queue}
  BY <1>2, NamesOfSeq
<1>4. conn.running = NoCommand \/ Sent(conn.running) => Todo = NamesOf(conn.queue)
  BY <1>1, TodoIs DEF IInv
<1>5. ASSUME ~(conn.running = NoCommand \/ Sent(conn.running))
      PROVE  /\ Todo = <<conn.running.name>> \o NamesOf(conn.queue)
             /\ Started(conn.running)
             /\ ToSet(Todo) = {conn.running.name} \cup ToSet(NamesOf(conn.queue))
  <2>1. Todo = <<conn.running.name>> \o NamesOf(conn.queue)
    BY <1>1, <1>5, TodoIs DEF IInv
  <2>2. Started(conn.running)
    BY <1>5, OwnCommands, Fields DEF Shaped
  <2>3. conn.running.name \in CmdNames
    BY <1>2 DEF Cmds, Command, CmdNames
  <2>4. ASSUME NEW S, NEW x \in S, NEW p \in Seq(S)
        PROVE  ToSet(<<x>> \o p) = {x} \cup ToSet(p)
    <3> DEFINE r == <<x>> \o p
    <3>1. /\ DOMAIN p = 1 .. Len(p) /\ Len(p) \in Nat
          /\ DOMAIN r = 1 .. Len(p) + 1 /\ r[1] = x
          /\ \A i \in 2 .. Len(p) + 1 : r[i] = p[i - 1] /\ i - 1 \in 1 .. Len(p)
          /\ \A i \in 1 .. Len(p) : r[i + 1] = p[i] /\ i + 1 \in 1 .. Len(p) + 1
      OBVIOUS
    <3> HIDE DEF r
    <3>2. \A i \in DOMAIN r : i = 1 \/ i \in 2 .. Len(p) + 1
      BY <3>1
    <3>3. \A i \in DOMAIN r : r[i] = x \/ \E j \in DOMAIN p : r[i] = p[j]
      BY <3>1, <3>2
    <3>4. x \in ToSet(r)
      BY <3>1 DEF ToSet
    <3>5. \A j \in DOMAIN p : p[j] \in ToSet(r)
      BY <3>1 DEF ToSet
    <3> QED BY <3>3, <3>4, <3>5 DEF ToSet, r
  <2> QED BY <1>3, <2>1, <2>2, <2>3, <2>4
<1> QED BY <1>1, <1>3, <1>4, <1>5

\* A step that keeps the commands held, or replaces a command in progress by
\* one in the same state, is not seen.
LEMMA Unseen ==
  ASSUME IInv, conn'.queue = conn.queue, conn'.running = conn.running,
         gone' = gone
  PROVE  UNCHANGED Order!avars
BY DEF Order!avars, Todo, Live, Unsent

\* The abstract specification means the same by the set of a sequence.
LEMMA SameSet == \A s : Order!ToSet(s) = ToSet(s)
BY DEF Order!ToSet, ToSet

LEMMA QueCommandRefines ==
  ASSUME IInv, NEW n \in Names, QueCommand(n)
  PROVE  Order!Accept(n)
<1> DEFINE cmd == CommandFor(n)
           a == [conn EXCEPT !.queue = Append(@, cmd)]
           r == [conn EXCEPT !.running = cmd]
<1>1. /\ n \notin queued /\ conn' = queCommand(conn, cmd) /\ gone' = gone
  BY DEF QueCommand
<1>2. n # "none" /\ cmd \in Cmds /\ cmd.name = n
  BY NewPending, PendingNames, NamesAssumption
<1>3. Order!New(n)
  <2>1. n \notin ToSet(NamesOf(conn.queue))
    BY <1>1, Mapping, Fields DEF HeldIn
  <2>2. n # conn.running.name
    BY <1>1, Fields DEF HeldIn
  <2>3. n \notin ToSet(Todo)
    BY <2>1, <2>2, Mapping
  <2>4. n # Live /\ n \notin gone
    BY <1>1, <1>2, <2>2, Fields DEF Live
  <2> QED BY <2>3, <2>4, SameSet DEF Order!New
<1>4. CASE /\ conn' = a /\ ConnInv(a) /\ a.running = conn.running
           /\ a.queue = Append(conn.queue, cmd)
  <2>1. NamesOf(a.queue) = Append(NamesOf(conn.queue), n)
    BY <1>2, <1>4, Fields, NamesOfAppend
  <2> HIDE DEF a
  <2>2. Live' = Live
    BY <1>4 DEF Live
  <2>3. Todo' = TodoOf(a)
    BY <1>4 DEF Todo, TodoOf
  <2>4. Todo' = Append(Todo, n)
    <3>1. CASE conn.running = NoCommand \/ Sent(conn.running)
      BY <1>4, <2>1, <2>3, <3>1, TodoIs, Mapping
    <3>2. CASE ~(conn.running = NoCommand \/ Sent(conn.running))
      <4>1. /\ Todo' = <<conn.running.name>> \o Append(NamesOf(conn.queue), n)
            /\ Todo = <<conn.running.name>> \o NamesOf(conn.queue)
        BY <1>4, <2>1, <2>3, <3>2, TodoIs, Mapping
      <4>2. /\ NamesOf(conn.queue) \in Seq(CmdNames) /\ n \in CmdNames
            /\ conn.running.name \in CmdNames
        BY Mapping, Fields DEF CmdNames, Cmds, Command
      <4>3. \A S : \A x, y \in S : \A p \in Seq(S) :
               <<x>> \o Append(p, y) = Append(<<x>> \o p, y)
        OBVIOUS
      <4> QED BY <4>1, <4>2, <4>3
    <3> QED BY <3>1, <3>2
  <2> QED BY <1>1, <1>3, <2>2, <2>4 DEF Order!Accept
<1>5. CASE /\ conn' = sendCommand(r) /\ conn.running = NoCommand
           /\ Ready(r) /\ r.running = cmd
           /\ conn.queue = << >> /\ r.queue = << >>
  <2>1. Todo = << >> /\ Live = "none"
    BY <1>5, Mapping, NamesOfEmpty, OwnCommands DEF Live
  <2>2. Todo' = TodoOf(conn') /\ Live' = LiveOf(conn')
    BY DEF Todo, TodoOf, Live, LiveOf
  <2> HIDE DEF r
  <2>3. \/ TodoOf(conn') = <<n>> \o << >> /\ LiveOf(conn') = "none"
        \/ TodoOf(conn') = << >> /\ LiveOf(conn') = n
    BY <1>2, <1>5, SendTodo, NamesOfEmpty
  <2>4. <<n>> \o << >> = Append(<< >>, n)
    OBVIOUS
  <2> QED BY <1>1, <1>3, <2>1, <2>2, <2>3, <2>4 DEF Order!Accept
<1> HIDE DEF a, r, cmd
<1> QED BY <1>1, <1>4, <1>5, QueCommandSteps DEF a, r, cmd

LEMMA ClearAllRefines ==
  ASSUME IInv, ClearAll
  PROVE  Order!Withdraw
<1> DEFINE d == queClear(conn)
           Q == {conn.queue[i].name : i \in DOMAIN conn.queue}
<1>1. conn' = d /\ gone' = gone \cup (Held(conn) \ Held(d))
  BY DEF ClearAll
<1>2. /\ ConnInv(d) /\ d.queue = << >>
      /\ d.running = IF Sent(conn.running) THEN conn.running ELSE NoCommand
  BY QueClearKeeps
<1> HIDE DEF d
<1>3. Todo' = << >>
  <2>1. Todo' = TodoOf(d)
    BY <1>1 DEF Todo, TodoOf
  <2> QED BY <1>2, <2>1, TodoIs, NamesOfEmpty
<1>4. Live' = Live
  BY <1>1, <1>2, OwnCommands DEF Live
<1>5. /\ Q \subseteq Names /\ conn.running.name \notin Q
      /\ ToSet(NamesOf(conn.queue)) = Q
  BY Fields, PendingNames, Mapping DEF Single
<1>6. Held(conn) = (Q \cup {conn.running.name}) \cap Names
  BY HeldNames
<1>7. Held(d) = {d.running.name} \cap Names
  BY <1>2, HeldNames
<1> HIDE DEF Q
<1>8. Held(conn) \ Held(d) = ToSet(Todo)
  <2>1. CASE Sent(conn.running)
    <3>1. ToSet(Todo) = Q
      BY <1>5, <2>1, Mapping
    <3> QED BY <1>2, <1>5, <1>6, <1>7, <2>1, <3>1
  <2>2. CASE ~Sent(conn.running)
    <3>1. Held(d) = {}
      BY <1>2, <1>7, <2>2, OwnCommands, NamesAssumption
    <3>2. CASE conn.running = NoCommand
      <4>1. ToSet(Todo) = Q
        BY <1>5, <3>2, Mapping
      <4>2. conn.running.name \notin Names
        BY <3>2, OwnCommands, NamesAssumption
      <4> QED BY <1>5, <1>6, <3>1, <4>1, <4>2
    <3>3. CASE conn.running # NoCommand
      <4>1. ToSet(Todo) = {conn.running.name} \cup Q /\ conn.running.name \in Names
        BY <1>5, <2>2, <3>3, Mapping, StartedSent
      <4> QED BY <1>5, <1>6, <3>1, <4>1
    <3> QED BY <3>2, <3>3
  <2> QED BY <2>1, <2>2
<1> QED BY <1>1, <1>3, <1>4, <1>8, SameSet DEF Order!Withdraw

LEMMA SetKeyRefines ==
  ASSUME IInv, SetKey
  PROVE  UNCHANGED Order!avars
<1>1. /\ conn'.queue = conn.queue /\ conn.running = NoCommand
      /\ conn'.running = Auth /\ gone' = gone
  BY SetKeyInv DEF SetKey
<1>2. Unsent(conn') = Unsent(conn)
  BY <1>1, OwnCommands DEF Unsent
<1>3. Live' = Live
  BY <1>1, OwnCommands, NamesAssumption DEF Live
<1> QED BY <1>1, <1>2, <1>3 DEF Order!avars, Todo

LEMMA ReadBopRefines ==
  ASSUME IInv, ReadBop
  PROVE  Order!Begin \/ UNCHANGED Order!avars
<1> DEFINE d == [conn EXCEPT !.bop = Head(input).bop]
<1>1. /\ d.running = conn.running /\ d.queue = conn.queue
      /\ \/ conn' = d
         \/ /\ conn' = sendCommand(d) /\ Ready(d)
            /\ Started(conn.running) /\ ~Sent(conn.running)
  BY ReadBopInv
<1>2. gone' = gone
  BY DEF ReadBop
<1> HIDE DEF d
<1>3. CASE conn' = d
  BY <1>1, <1>2, <1>3, Unseen
<1>4. CASE /\ conn' = sendCommand(d) /\ Ready(d)
           /\ Started(conn.running) /\ ~Sent(conn.running)
  <2> DEFINE x == conn.running.name
             p == NamesOf(conn.queue)
  <2>1. x \in Names /\ conn.running # NoCommand
    BY <1>4, StartedSent
  <2>2. Todo = <<x>> \o p /\ Live = "none" /\ p \in Seq(CmdNames)
    BY <1>4, <2>1, Mapping DEF Live
  <2>3. Todo' = TodoOf(conn') /\ Live' = LiveOf(conn')
    BY DEF Todo, TodoOf, Live, LiveOf
  <2>4. \/ Todo' = <<x>> \o p /\ Live' = "none"
        \/ Todo' = p /\ Live' = x
    BY <1>1, <1>4, <2>1, <2>3, SendTodo
  <2>5. x \in CmdNames
    BY <2>1 DEF CmdNames
  <2> HIDE DEF x, p
  <2>6. <<x>> \o p # << >> /\ Head(<<x>> \o p) = x /\ Tail(<<x>> \o p) = p
    BY <2>2, <2>5
  <2> QED BY <1>2, <2>2, <2>4, <2>6 DEF Order!Begin, Order!avars
<1> QED BY <1>1, <1>3, <1>4

LEMMA ReadReturnRefines ==
  ASSUME IInv, ReadReturn
  PROVE  Order!Begin \/ Order!Finish \/ UNCHANGED Order!avars
<1>1. /\ Sent(conn.running)
      /\ gone' = gone \cup ({conn.running.name} \cap Names)
      /\ \E ok : LET f == Returned(conn, ok)
                 IN  /\ Free(f) /\ f.queue = conn.queue
                     /\ conn' = sendNextCommand(f)
  BY ReadReturnInv
<1>2. Todo = NamesOf(conn.queue)
  BY <1>1, Mapping
<1>3. Todo' = TodoOf(conn') /\ Live' = LiveOf(conn')
  BY DEF Todo, TodoOf, Live, LiveOf
<1>4. \/ Todo' = Todo /\ Live' = "none"
      \/ Todo # << >> /\ Todo' = Tail(Todo) /\ Live' = Head(Todo)
  BY <1>1, <1>2, <1>3, SendNextTodo
<1>5. CASE conn.running.name \in Names
  <2>1. Live = conn.running.name /\ Live # "none" /\ gone' = gone \cup {Live}
    BY <1>1, <1>5, NamesAssumption DEF Live
  <2> QED BY <1>4, <2>1 DEF Order!Finish
<1>6. CASE conn.running.name \notin Names
  <2>1. Live = "none" /\ gone' = gone
    BY <1>1, <1>6 DEF Live
  <2> QED BY <1>4, <2>1 DEF Order!Begin, Order!avars
<1> QED BY <1>5, <1>6

LEMMA RemoveConnectionRefines ==
  ASSUME IInv, RemoveConnection
  PROVE  Order!Lose
<1> DEFINE c == NewConnection("connecting")
           Q == {conn.queue[i].name : i \in DOMAIN conn.queue}
<1>1. conn' = c /\ gone' = gone \cup Held(conn)
  BY DEF RemoveConnection
<1>2. ConnInv(c) /\ c.running = NoCommand /\ c.queue = << >>
  BY NewConnectionInv DEF NewConnection
<1> HIDE DEF c
<1>3. Todo' = TodoOf(c) /\ Live' = LiveOf(c)
  BY <1>1 DEF Todo, TodoOf, Live, LiveOf
<1>4. Todo' = << >> /\ Live' = "none"
  BY <1>2, <1>3, TodoIs, NamesOfEmpty, OwnCommands DEF LiveOf
<1>5. Q \subseteq Names /\ ToSet(NamesOf(conn.queue)) = Q
  BY Fields, PendingNames, Mapping
<1>6. Held(conn) = (Q \cup {conn.running.name}) \cap Names
  BY HeldNames
<1> HIDE DEF Q
<1>7. Held(conn) = ToSet(Todo) \cup ({Live} \ {"none"})
  <2>1. CASE conn.running = NoCommand
    <3>1. ToSet(Todo) = Q /\ Live = "none" /\ conn.running.name \notin Names
      BY <1>5, <2>1, Mapping, OwnCommands, NamesAssumption DEF Live
    <3> QED BY <1>5, <1>6, <3>1
  <2>2. CASE Sent(conn.running)
    <3>1. ToSet(Todo) = Q
      BY <1>5, <2>2, Mapping
    <3>2. {Live} \ {"none"} = {conn.running.name} \cap Names
      BY <2>2, NamesAssumption DEF Live
    <3> QED BY <1>5, <1>6, <3>1, <3>2
  <2>3. CASE conn.running # NoCommand /\ ~Sent(conn.running)
    <3>1. /\ ToSet(Todo) = {conn.running.name} \cup Q /\ Live = "none"
          /\ conn.running.name \in Names
      BY <1>5, <2>3, Mapping, StartedSent DEF Live
    <3> QED BY <1>5, <1>6, <3>1
  <2> QED BY <2>1, <2>2, <2>3
<1> QED BY <1>1, <1>4, <1>7, SameSet DEF Order!Lose

\* The queue with its masks, status calls, keys and broken links implements
\* CommandOrder: commands are carried out one at a time, in the order they
\* were queued, each at most once.
THEOREM QueueKeepsOrder == Spec => KeepsOrder
<1>1. Init => Order!Init
  <2> SUFFICES ASSUME Init PROVE Order!Init
    OBVIOUS
  <2>1. IInv /\ conn = NewConnection("connecting") /\ gone = {}
    BY InitIInv DEF Init
  <2>2. conn.running = NoCommand /\ conn.queue = << >>
    BY <2>1 DEF NewConnection
  <2>3. Todo = << >> /\ Live = "none"
    BY <2>1, <2>2, Mapping, NamesOfEmpty, OwnCommands DEF Live
  <2> QED BY <2>1, <2>3 DEF Order!Init
<1>2. IInv /\ [Next]_vars => [Order!Next]_(Order!avars)
  <2> SUFFICES ASSUME IInv, [Next]_vars
               PROVE  Order!Next \/ UNCHANGED Order!avars
    OBVIOUS
  <2>1. ASSUME NEW n \in Names, QueCommand(n) PROVE Order!Next
    BY <2>1, QueCommandRefines DEF Order!Next
  <2>2. ASSUME ClearAll PROVE Order!Next
    BY <2>2, ClearAllRefines DEF Order!Next
  <2>3. ASSUME Connected PROVE UNCHANGED Order!avars
    BY <2>3, ConnectedInv, Unseen DEF Connected
  <2>4. ASSUME SetKey PROVE UNCHANGED Order!avars
    BY <2>4, SetKeyRefines
  <2>5. ASSUME DeviceExecutes PROVE UNCHANGED Order!avars
    BY <2>5, DeviceExecutesInv, Unseen DEF DeviceExecutes
  <2>6. ASSUME DeviceBop PROVE UNCHANGED Order!avars
    BY <2>6, DeviceBopInv, Unseen DEF DeviceBop
  <2>7. ASSUME ReadBop PROVE Order!Next \/ UNCHANGED Order!avars
    BY <2>7, ReadBopRefines DEF Order!Next
  <2>8. ASSUME ReadReturn PROVE Order!Next \/ UNCHANGED Order!avars
    BY <2>8, ReadReturnRefines DEF Order!Next
  <2>9. ASSUME Break PROVE UNCHANGED Order!avars
    BY <2>9, BreakInv, Unseen DEF Break
  <2>10. ASSUME RemoveConnection PROVE Order!Next
    BY <2>10, RemoveConnectionRefines DEF Order!Next
  <2>11. ASSUME UNCHANGED vars PROVE UNCHANGED Order!avars
    BY <2>11, Unseen DEF vars
  <2> QED BY <2>1, <2>2, <2>3, <2>4, <2>5, <2>6, <2>7, <2>8, <2>9, <2>10, <2>11
          DEF Next
<1> QED BY <1>1, <1>2, Invariance, PTL DEF Spec, KeepsOrder, Order!Spec
=============================================================================
