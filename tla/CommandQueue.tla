---------------------------- MODULE CommandQueue ----------------------------
(***************************************************************************)
(* A connection of a client (the executor, a monitor) to one device: the   *)
(* queue of module Connection, the two directions of the link, and a       *)
(* device at the other end that answers every command it reads and tells   *)
(* its full BOP state whenever that changes (class ConnClient,             *)
(* lib/rts2/client.cpp).                                                   *)
(*                                                                         *)
(* The life of a connection: it is opened, asks centrald for a key, sends  *)
(* the key (CommandSendKey, ahead of everything queued meanwhile), and is  *)
(* open once the device has accepted the key.  A broken link, or a refused *)
(* key, marks the connection for deletion; it is destroyed with its queue, *)
(* and a new one is made when centrald announces the device again.         *)
(***************************************************************************)
EXTENDS Connection, FiniteSets, SequencesExt

CONSTANTS
  Plain,        \* commands without a BOP mask
  Blocking,     \* commands that wait for their BOP bits to clear
  While,        \* commands that wait for their BOP bits to be set
  Bits,         \* BOP bits
  BitsOf,       \* the BOP mask of every command
  MaxInput      \* bound on messages of the device not yet read

Names == Plain \cup Blocking \cup While

ASSUME NamesAssumption ==
  {"none", "auth", "device_status"} \cap Names = {}
ASSUME MaskAssumption ==
  /\ Plain \cap (Blocking \cup While) = {} /\ Blocking \cap While = {}
  /\ BitsOf \in [Blocking \cup While -> (SUBSET Bits) \ {{}}]
ASSUME MaxInputAssumption == MaxInput \in Nat \ {0}

VARIABLES
  conn,       \* the connection
  input,      \* what the device has written and the client not yet read
  bop,        \* full BOP state of the device
  queued,     \* history: commands given to queCommand
  gone        \* history: commands whose object was deleted

vars == <<conn, input, bop, queued, gone>>

Cmds == Command(Names \cup {"none", "auth", "device_status"}, Bits)

\* A line from the device: a BOP state, or the return of a command.
Messages == [bop: SUBSET Bits] \cup [ok: BOOLEAN]

TypeOK ==
  /\ conn \in ConnectionRecord(Cmds, Bits, Names \cup {"auth", "device_status"})
  /\ input \in Seq(Messages)
  /\ bop \in SUBSET Bits
  /\ queued \in SUBSET Names /\ gone \in SUBSET queued

CommandFor(n) ==
  IF n \in Plain THEN NewCommand(n, {}, FALSE)
  ELSE NewCommand(n, BitsOf[n], n \in While)

\* Mutant: the commands of the connection itself are counted in.
FaultyHeld(c) == {cmd.name : cmd \in ToSet(c.queue) \cup {c.running}}

\* The commands a connection holds, sent or not.
Held(c) ==
  {cmd.name : cmd \in ToSet(c.queue) \cup {c.running}} \cap Names

Auth == NewCommand("auth", {}, FALSE)

Init ==
  /\ conn = NewConnection("connecting")
  /\ input = << >>
  /\ bop \in SUBSET Bits
  /\ queued = {} /\ gone = {}

\* A part of the client queues one more command.
QueCommand(n) ==
  /\ n \notin queued
  /\ conn' = queCommand(conn, CommandFor(n))
  /\ queued' = queued \cup {n}
  /\ UNCHANGED <<input, bop, gone>>

\* Block::clearAll, when the executor is told to do something else at once
ClearAll ==
  /\ conn' = queClear(conn)
  /\ gone' = gone \cup (Held(conn) \ Held(conn'))
  /\ UNCHANGED <<input, bop, queued>>

\* The socket is connected (Connection::writable, connConnected).
Connected ==
  /\ conn.state = "connecting"
  /\ conn' = setConnState(conn, "pending")
  /\ UNCHANGED <<input, bop, queued, gone>>

\* centrald has sent the key of the device (ConnClient::setKey); one is
\* asked for per connection.
SetKey ==
  /\ conn.state = "pending"
  /\ conn.running = NoCommand
  /\ conn' = queSend(conn, Auth)
  /\ UNCHANGED <<input, bop, queued, gone>>

\* authorizationOK and sendFullStateInfo, or any other command: executed
\* and answered, with success or not.  A device that accepts the key also
\* tells its full BOP state.
DeviceExecutes ==
  /\ conn.out # << >>
  /\ \E ok \in BOOLEAN :
       input' = input \o (IF Head(conn.out) = "auth" /\ ok
                          THEN <<[bop |-> bop], [ok |-> ok]>>
                          ELSE IF Head(conn.out) = "device_status"
                          THEN <<[bop |-> bop], [ok |-> TRUE]>>
                          ELSE <<[ok |-> ok]>>)
  /\ conn' = [conn EXCEPT !.out = Tail(@)]
  /\ UNCHANGED <<bop, queued, gone>>

\* Device::setFullBopState: the devices this one is blocked by went on.
DeviceBop ==
  /\ Len(input) < MaxInput
  /\ bop' \in (SUBSET Bits) \ {bop}
  /\ input' = IF HasSocket(conn) THEN Append(input, [bop |-> bop'])
              ELSE input
  /\ UNCHANGED <<conn, queued, gone>>

\* Connection::bopStatus
ReadBop ==
  /\ HasSocket(conn)
  /\ input # << >> /\ "bop" \in DOMAIN Head(input)
  /\ conn' = setBopState(conn, Head(input).bop)
  /\ input' = Tail(input)
  /\ UNCHANGED <<bop, queued, gone>>

\* Connection::commandReturn; the key command changes the connection state
\* before the next command is taken, a return without a command is logged.
ReadReturn ==
  /\ HasSocket(conn)
  /\ input # << >> /\ "ok" \in DOMAIN Head(input)
  /\ conn' = IF conn.running = NoCommand THEN conn
             ELSE commandReturn(IF conn.running.name # "auth" THEN conn
                                ELSE IF Head(input).ok
                                THEN setConnState(conn, "open")
                                ELSE connectionError(conn))
  /\ gone' = gone \cup ({conn.running.name} \cap Names)
  /\ input' = Tail(input)
  /\ UNCHANGED <<bop, queued>>

\* Connection::connectionError after a failed read or write
Break ==
  /\ conn.state \in {"connecting", "pending", "open"}
  /\ conn' = connectionError(conn)
  /\ UNCHANGED <<input, bop, queued, gone>>

\* Block::pollSuccess destroys the connection; the next one is a new object.
RemoveConnection ==
  /\ conn.state = "delete"
  /\ conn' = NewConnection("connecting")
  /\ input' = << >>
  /\ gone' = gone \cup Held(conn)
  /\ UNCHANGED <<bop, queued>>

Next ==
  \/ \E n \in Names : QueCommand(n)
  \/ ClearAll
  \/ Connected \/ SetKey
  \/ DeviceExecutes \/ DeviceBop
  \/ ReadBop \/ ReadReturn
  \/ Break \/ RemoveConnection

(***************************************************************************)
(* The connection as those who queue commands on it see it.                *)
(***************************************************************************)
NamesOf(q) == [i \in DOMAIN q |-> q[i].name]

\* The commands still to be sent, in order.  The key and the status call are
\* never among them: both are sent as soon as they run.
Unsent(c) ==
  (IF c.running = NoCommand \/ Sent(c.running) THEN << >> ELSE <<c.running>>)
    \o c.queue

Todo == NamesOf(Unsent(conn))

Live == IF Sent(conn.running) /\ conn.running.name \in Names
        THEN conn.running.name ELSE "none"

Order == INSTANCE CommandOrder WITH None <- "none", todo <- Todo, live <- Live

\* Commands are carried out one at a time, in the order they were queued,
\* each at most once: the queue with its masks, status calls, keys and
\* broken links implements CommandOrder.
KeepsOrder == Order!Spec

\* The lines with a return code among those not yet read.
Returns == {i \in DOMAIN input : "ok" \in DOMAIN input[i]}

\* Every line with a return code that is still to come belongs to the running
\* command, and there is one exactly when that command has been sent: no
\* return is ever credited to another command (commandReturn takes whatever
\* runs).
ReturnsMatch ==
  HasSocket(conn) =>
    Len(conn.out) + Cardinality(Returns) = IF Sent(conn.running) THEN 1 ELSE 0

\* runningCommandStatus, by which queSend and queClear decide whether the
\* running command may be pushed back or deleted, says SEND exactly for a
\* command that was sent; and queEmpty, by which scripts decide whether a
\* device is done with its commands, overlooks nothing but a command that
\* waits for a state (BOP_WHILE_STATE), whose waiting no status records.
StatusTells ==
  conn.running # NoCommand =>
    /\ conn.status = "SEND" <=> Sent(conn.running)
    /\ queEmpty(conn) => conn.running.while

Spec == Init /\ [][Next]_vars

\* The main loops of the client and of the device read what has arrived.
Fairness ==
  /\ WF_vars(Connected) /\ WF_vars(SetKey) /\ WF_vars(DeviceExecutes)
  /\ WF_vars(ReadBop) /\ WF_vars(ReadReturn) /\ WF_vars(RemoveConnection)

FairSpec == Spec /\ Fairness

\* No command is forgotten in the queue: provided the devices that block
\* others come and go, so that every mask is satisfied again and again, each
\* command queued is executed and answered, withdrawn, or lost with its
\* connection, whatever else is queued and however often the link breaks.
Served ==
  (/\ \A n \in Blocking : []<>(BitsOf[n] \cap bop = {})
   /\ \A n \in While : []<>(BitsOf[n] \cap bop # {}))
  => \A n \in Names : (n \in queued ~> n \in gone)
=============================================================================
