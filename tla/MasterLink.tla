----------------------------- MODULE MasterLink -----------------------------
(***************************************************************************)
(* The connection a device keeps to its central server (class              *)
(* DevConnectionMaster, lib/rts2/device.cpp) through losses of the link    *)
(* and restarts of centrald.                                               *)
(*                                                                         *)
(* The connection object is made once and never destroyed.  It is broken   *)
(* at first; while it is, idle tries to connect once a minute.  A fresh    *)
(* socket gives a "register" command, sent ahead of everything else, and   *)
(* its success opens the connection.  centrald refuses a name that is      *)
(* still taken by the previous connection of the same device, whose end it *)
(* has not noticed yet; the device then breaks the connection itself and   *)
(* tries again.                                                            *)
(***************************************************************************)
EXTENDS Connection, Naturals

CONSTANTS
  Queued,      \* commands given to queCommand: status_info, key, ...
  Urgent,      \* commands given to queSend: authorize
  MaxBreaks    \* bound on the losses of the link

ASSUME NamesAssumption ==
  {"none", "register", "device_status"} \cap (Queued \cup Urgent) = {}
ASSUME MaxBreaksAssumption == MaxBreaks \in Nat

VARIABLES
  conn,        \* the connection object
  input,       \* returns written by centrald and not yet read
  registered,  \* centrald has accepted the name on the present socket
  taken,       \* an earlier socket still holds the name at centrald
  given,       \* history: commands queued so far
  breaks       \* number of losses so far

vars == <<conn, input, registered, taken, given, breaks>>

Names == Queued \cup Urgent \cup {"register"}

Cmds == Command(Names \cup {"none", "device_status"}, {})

TypeOK ==
  /\ conn \in ConnectionRecord(Cmds, {}, Names) /\ conn.state # "delete"
  /\ input \in Seq(BOOLEAN)
  /\ registered \in BOOLEAN /\ taken \in BOOLEAN
  /\ given \in SUBSET (Queued \cup Urgent)
  /\ breaks \in 0 .. MaxBreaks

PlainCommand(n) == NewCommand(n, {}, FALSE)

\* Mutant: the connection is deleted, as those of clients are.
FaultyMasterError(c) ==
  [c EXCEPT !.state = "delete", !.out = << >>]

\* DevConnectionMaster::connectionError; the queue, the running command and
\* its status stay as they are.
masterError(c) == [c EXCEPT !.state = "broken", !.out = << >>]

Init ==
  /\ conn = NewConnection("broken")
  /\ input = << >>
  /\ registered = FALSE /\ taken = FALSE
  /\ given = {} /\ breaks = 0

\* DevConnectionMaster::idle a minute after the loss; init () does not wait.
Retry ==
  /\ conn.state = "broken"
  /\ conn' = setConnState(conn, "connecting")
  /\ input' = << >>
  /\ registered' = FALSE
  /\ UNCHANGED <<taken, given, breaks>>

\* Mutant: register is queued before the socket counts as connected.
FaultyConnected ==
  /\ conn.state = "connecting"
  /\ conn' = setConnState(queSend(conn, PlainCommand("register")), "pending")
  /\ UNCHANGED <<input, registered, taken, given, breaks>>

\* The socket is connected, or is not (Connection::writable).
Connected ==
  /\ conn.state = "connecting"
  /\ conn' = queSend(setConnState(conn, "pending"), PlainCommand("register"))
  /\ UNCHANGED <<input, registered, taken, given, breaks>>

ConnectFailed ==
  /\ conn.state = "connecting" /\ breaks < MaxBreaks
  /\ conn' = masterError(conn)
  /\ breaks' = breaks + 1
  /\ UNCHANGED <<input, registered, taken, given>>

\* A part of the device queues a command, in whatever state the link is.
QueCommand(n) ==
  /\ n \in Queued \ given
  /\ conn' = queCommand(conn, PlainCommand(n))
  /\ given' = given \cup {n}
  /\ UNCHANGED <<input, registered, taken, breaks>>

\* A client has given its key to the device (DevConnectionMaster::authorize).
Authorize(n) ==
  /\ n \in Urgent \ given
  /\ conn' = queSend(conn, PlainCommand(n))
  /\ given' = given \cup {n}
  /\ UNCHANGED <<input, registered, taken, breaks>>

\* centrald executes and answers one command; register fails as long as the
\* name is taken, anything else is refused on a socket without a name.
CentraldExecutes ==
  /\ conn.out # << >>
  /\ LET m == Head(conn.out)
     IN  \/ /\ m = "register"
            /\ input' = Append(input, ~taken /\ ~registered)
            /\ registered' = (registered \/ ~taken)
         \/ /\ m # "register"
            /\ \E ok \in {TRUE, FALSE} :
                 /\ ok => registered
                 /\ input' = Append(input, ok)
            /\ UNCHANGED registered
  /\ conn' = [conn EXCEPT !.out = Tail(@)]
  /\ UNCHANGED <<taken, given, breaks>>

\* centrald has noticed that the earlier socket is dead, or was restarted.
CentraldNotices ==
  /\ taken
  /\ taken' = FALSE
  /\ UNCHANGED <<conn, input, registered, given, breaks>>

\* Connection::commandReturn, with what CommandRegister does on its return.
ReadReturn ==
  /\ HasSocket(conn) /\ input # << >>
  /\ LET refused == conn.running.name = "register" /\ ~Head(input)
     IN  /\ conn' = IF conn.running = NoCommand THEN conn
                    ELSE commandReturn(
                           IF conn.running.name # "register" THEN conn
                           ELSE IF refused THEN masterError(conn)
                           ELSE setConnState(conn, "open"))
         /\ input' = IF refused THEN << >> ELSE Tail(input)
         /\ taken' = (taken \/ (refused /\ registered))
  /\ UNCHANGED <<registered, given, breaks>>

\* The link is lost, or centrald ends; what was under way is lost with it.
\* The device notices at once, centrald may keep the name for a while.
Break ==
  /\ HasSocket(conn) /\ breaks < MaxBreaks
  /\ conn' = masterError(conn)
  /\ input' = << >>
  /\ taken' \in {taken, taken \/ registered}
  /\ registered' = FALSE
  /\ breaks' = breaks + 1
  /\ UNCHANGED given

Next ==
  \/ Retry \/ Connected \/ ConnectFailed
  \/ \E n \in Queued : QueCommand(n)
  \/ \E n \in Urgent : Authorize(n)
  \/ CentraldExecutes \/ CentraldNotices
  \/ ReadReturn \/ Break

Spec == Init /\ [][Next]_vars

\* idle runs in every turn of the main loop, both main loops read what has
\* arrived, and centrald drops a connection that stays silent.
Fairness ==
  /\ WF_vars(Retry) /\ WF_vars(Connected) /\ WF_vars(ReadReturn)
  /\ WF_vars(CentraldExecutes) /\ WF_vars(CentraldNotices)

FairSpec == Spec /\ Fairness

\* A command counts as sent and no return for it can come any more.
Stranded ==
  /\ Sent(conn.running)
  /\ conn.out = << >> /\ input = << >>

\* Nothing but "register" is written to a socket before centrald has accepted
\* the name: what clients and other parts of the device queue meanwhile, and
\* what was queued while the link was down, waits for the registration.
RegistersFirst ==
  HasSocket(conn) /\ ~registered =>
    \A i \in DOMAIN conn.out : conn.out[i] = "register"

\* A command can only be stranded by the loss of the link or by the end the
\* device itself puts to it when it is refused, never on a link that works.
StrandedByBreak == [][~Stranded /\ Stranded' => conn'.state = "broken"]_vars

\* The only thing that keeps a device from registering again once links stop
\* breaking is a command that was under way when the link was lost: such a
\* command stays runningCommand with status SEND, so that queSend puts the
\* register command into the queue instead of sending it.
BackUnlessStranded == conn.state = "broken" ~> conn.state = "open" \/ Stranded

\* What connections are made broken for: the device waits for the server and
\* is connected again.
ComesBack == conn.state = "broken" ~> conn.state = "open"
=============================================================================
