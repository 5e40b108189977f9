----------------------------- MODULE Connection -----------------------------
(***************************************************************************)
(* The command side of a connection (lib/rts2/connection.cpp, class        *)
(* rts2core::Connection): the queue every program of RTS2 keeps for the    *)
(* commands it gives to the program at the other end.                      *)
(*                                                                         *)
(* At most one command, runningCommand, is dealt with at a time.  A        *)
(* command may carry a BOP mask.  Then it is preceded by a device_status   *)
(* command, whose return says that the full BOP state of the connection is *)
(* up to date, and it waits as long as that state has a bit of the mask.   *)
(* With BOP_WHILE_STATE it waits until the state has one.                  *)
(*                                                                         *)
(* A connection is a record; each operator is one method, from the         *)
(* connection before the call to the connection after it.  out is what has *)
(* been written to the socket and not yet read at the other end.           *)
(***************************************************************************)
EXTENDS Sequences

\* A command: its text, the BOP bits of its mask, BOP_WHILE_STATE and the
\* progress of the status call.
Command(Names, Bits) ==
  [name: Names, bits: SUBSET Bits, while: BOOLEAN,
   cip: {"NOT_CALLED", "WAIT", "RUN", "RETURN"}]

NewCommand(n, bits, while) ==
  [name |-> n, bits |-> bits, while |-> while, cip |-> "NOT_CALLED"]

\* runningCommand == NULL
NoCommand == NewCommand("none", {}, FALSE)

\* CommandDeviceStatus; its mask holds nothing but CIP_RETURN.
DeviceStatus ==
  [NewCommand("device_status", {}, FALSE) EXCEPT !.cip = "RETURN"]

\* "open" stands for CONN_AUTH_OK and CONN_CONNECTED, "connecting" for the
\* states in which queSend only queues.
ConnStates == {"connecting", "pending", "open", "broken", "delete"}

ConnectionRecord(Cmds, Bits, Msgs) ==
  [state: ConnStates, running: Cmds, status: {"WAITING", "SEND", "RETURNING"},
   queue: Seq(Cmds), bop: SUBSET Bits, out: Seq(Msgs)]

NewConnection(s) ==
  [state |-> s, running |-> NoCommand, status |-> "RETURNING",
   queue |-> << >>, bop |-> {}, out |-> << >>]

HasSocket(c) == c.state \in {"pending", "open"}

\* Connection::sendMsg; a closed socket swallows the message.
sendMsg(c, m) == IF HasSocket(c) THEN [c EXCEPT !.out = Append(@, m)] ELSE c

\* Mutant: the status does not tell that the command was sent.
FaultyTransmit(c, cip) ==
  [sendMsg(c, c.running.name) EXCEPT !.running.cip = cip]

\* runningCommand->send () and what every branch of sendCommand does with it
Transmit(c, cip) ==
  [sendMsg(c, c.running.name) EXCEPT !.status = "SEND", !.running.cip = cip]

Blocked(c) == c.bop \cap c.running.bits # {}

HasBopMask(cmd) == cmd.bits # {} \/ cmd.while \/ cmd.cip # "NOT_CALLED"

\* Mutant: the command loses its place to those queued after it.
FaultySendBop(c) ==
  CASE c.running.cip = "NOT_CALLED" ->
         [sendMsg(c, "device_status") EXCEPT
            !.queue = Append(@, [c.running EXCEPT !.cip = "WAIT"]),
            !.running = DeviceStatus, !.status = "SEND"]
    [] c.running.cip \in {"WAIT", "RUN"} ->
         IF Blocked(c)
         THEN [c EXCEPT !.running.cip = "RUN", !.status = "WAITING"]
         ELSE Transmit(c, "RETURN")
    [] OTHER -> c

\* The normal case of a command with a BOP mask.
SendBop(c) ==
  CASE c.running.cip = "NOT_CALLED" ->
         [sendMsg(c, "device_status") EXCEPT
            !.queue = <<[c.running EXCEPT !.cip = "WAIT"]>> \o @,
            !.running = DeviceStatus, !.status = "SEND"]
    [] c.running.cip \in {"WAIT", "RUN"} ->
         IF Blocked(c)
         THEN [c EXCEPT !.running.cip = "RUN", !.status = "WAITING"]
         ELSE Transmit(c, "RETURN")
    [] OTHER -> c

\* Mutant: the command is sent and still counts as waiting for its state.
FaultySendWhile(c) ==
  IF ~Blocked(c) THEN [c EXCEPT !.running.cip = "RUN"]
  ELSE IF c.running.cip = "WAIT" THEN [c EXCEPT !.status = "WAITING"]
  ELSE Transmit(c, "RUN")

\* BOP_WHILE_STATE
SendWhile(c) ==
  IF ~Blocked(c) THEN [c EXCEPT !.running.cip = "RUN"]
  ELSE IF c.running.cip = "WAIT" THEN [c EXCEPT !.status = "WAITING"]
  ELSE Transmit(c, "WAIT")

sendCommand(c) ==
  IF ~HasBopMask(c.running) THEN Transmit(c, "NOT_CALLED")
  ELSE IF c.running.while THEN SendWhile(c)
  ELSE SendBop(c)

sendNextCommand(c) ==
  IF c.queue = << >> THEN [c EXCEPT !.running = NoCommand]
  ELSE sendCommand([c EXCEPT !.running = Head(c.queue),
                             !.queue = Tail(c.queue)])

queCommand(c, cmd) ==
  IF c.running # NoCommand \/ c.state # "open"
  THEN [c EXCEPT !.queue = Append(@, cmd)]
  ELSE sendCommand([c EXCEPT !.running = cmd])

\* Mutant: a command that was sent makes room as well.
FaultyQueSend(c, cmd) ==
  IF c.state = "connecting" \/ (c.running # NoCommand /\ c.status = "RETURNING")
  THEN [c EXCEPT !.queue = <<cmd>> \o @]
  ELSE IF c.running # NoCommand
  THEN sendCommand([c EXCEPT !.queue = <<c.running>> \o @, !.running = cmd])
  ELSE sendCommand([c EXCEPT !.running = cmd])

\* A command that has not been sent yet makes room for an urgent one.
queSend(c, cmd) ==
  IF \/ c.state = "connecting"
     \/ c.running # NoCommand /\ c.status \in {"SEND", "RETURNING"}
  THEN [c EXCEPT !.queue = <<cmd>> \o @]
  ELSE IF c.running # NoCommand
  THEN sendCommand([c EXCEPT !.queue = <<c.running>> \o @, !.running = cmd])
  ELSE sendCommand([c EXCEPT !.running = cmd])

\* queClear (false)
queClear(c) ==
  [c EXCEPT !.running = IF c.status # "SEND" THEN NoCommand ELSE @,
            !.queue = << >>]

queEmpty(c) ==
  ~(c.status # "RETURNING" /\ c.running # NoCommand) /\ c.queue = << >>

\* Connection::connectionError of a connection that can be deleted
connectionError(c) == [c EXCEPT !.state = "delete", !.out = << >>]

setConnState(c, s) ==
  [(IF s = "open" /\ c.running = NoCommand THEN sendNextCommand(c) ELSE c)
     EXCEPT !.state = s]

\* Mutant: a command that waits is not tried again.
FaultySetBopState(c, bits) == [c EXCEPT !.bop = bits]

\* setBopState, and masterStateChanged, which changes no bit
setBopState(c, bits) ==
  LET d == [c EXCEPT !.bop = bits]
  IN  IF d.running.cip = "RUN" THEN sendCommand(d) ELSE d

\* Mutant: the next command is not taken from the queue.
FaultyCommandReturn(c) == [c EXCEPT !.status = "RETURNING"]

\* commandReturn of a command whose own commandReturnOK or Failed has been
\* applied to the connection.  RTS2_COMMAND_REQUE, which only the login of a
\* client at centrald returns, is left out.  The updateStatusWait of a
\* device_status finds that very command running and does nothing.
commandReturn(c) == sendNextCommand([c EXCEPT !.status = "RETURNING"])

\* The running command has been written to the socket, as its progress
\* tells (runningCommandStatus is another record of the same).
Sent(cmd) ==
  /\ cmd # NoCommand
  /\ \/ ~HasBopMask(cmd)
     \/ cmd.while /\ cmd.cip = "WAIT"
     \/ ~cmd.while /\ cmd.cip = "RETURN"
=============================================================================
