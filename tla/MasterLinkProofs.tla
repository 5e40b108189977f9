-------------------------- MODULE MasterLinkProofs --------------------------
(***************************************************************************)
(* Proofs about module MasterLink for any sets of commands and any number  *)
(* of losses of the link.                                                  *)
(*                                                                         *)
(* No command a device gives to centrald has a BOP mask, so a connection   *)
(* record stays in Conns, and what sendCommand does there is simple        *)
(* (SendPlain).  The invariant IInv is needed because RegistersFirst alone *)
(* does not say why nothing else is sent: on a socket that is not yet open *)
(* a command always counts as sent, the register command or one that the   *)
(* loss of an earlier socket has stranded, and everything queues behind    *)
(* it.                                                                     *)
(***************************************************************************)
EXTENDS MasterLink, TLAPS

PlainCmds == {PlainCommand(n) : n \in Names}

Conns ==
  [state: {"connecting", "pending", "open", "broken"},
   running: PlainCmds \cup {NoCommand},
   status: {"WAITING", "SEND", "RETURNING"},
   queue: Seq(PlainCmds), bop: SUBSET {}, out: Seq(Names)]

\* A connection whose running command was sent, and whose socket, if it has
\* none, holds nothing.
Well(c) ==
  /\ c \in Conns
  /\ c.running # NoCommand => c.status = "SEND"
  /\ ~HasSocket(c) => c.out = << >>

IType ==
  /\ Well(conn)
  /\ input \in Seq(BOOLEAN)
  /\ registered \in BOOLEAN /\ taken \in BOOLEAN
  /\ given \in SUBSET (Queued \cup Urgent)
  /\ breaks \in 0 .. MaxBreaks

\* What is under way on a socket belongs to the state of the connection.
IState ==
  /\ ~HasSocket(conn) => input = << >>
  /\ conn.state = "connecting" => ~registered
  /\ conn.state = "open" => registered
  /\ conn.state = "pending" =>
       /\ conn.running # NoCommand
       /\ conn.running.name = "register" \/ (conn.out = << >> /\ input = << >>)

\* Before centrald has accepted the name it has answered nothing with success.
IRefused ==
  HasSocket(conn) /\ ~registered => \A i \in DOMAIN input : input[i] = FALSE

IInv == IType /\ IState /\ IRefused /\ RegistersFirst

-----------------------------------------------------------------------------
\* Sequences whose elements may be anything, Booleans included.
LEMMA AppendFacts ==
  ASSUME NEW S, NEW q \in Seq(S), NEW e \in S
  PROVE  /\ Append(q, e) \in Seq(S) /\ Append(q, e) # << >>
         /\ \A i \in DOMAIN Append(q, e) :
              Append(q, e)[i] = e \/ (i \in DOMAIN q /\ Append(q, e)[i] = q[i])
  OBVIOUS

\* Its first element and the rest.
LEMMA TailFacts ==
  ASSUME NEW S, NEW q \in Seq(S), q # << >>
  PROVE  /\ Head(q) \in S /\ Tail(q) \in Seq(S)
         /\ 1 \in DOMAIN q /\ Head(q) = q[1]
         /\ \A i \in DOMAIN Tail(q) :
              i + 1 \in DOMAIN q /\ Tail(q)[i] = q[i + 1]
  OBVIOUS

\* Commands without a mask.
LEMMA PlainFacts ==
  /\ NoCommand \notin PlainCmds
  /\ \A cmd \in PlainCmds : /\ cmd.name \in Names /\ cmd # NoCommand
                            /\ ~HasBopMask(cmd) /\ Sent(cmd)
                            /\ [cmd EXCEPT !.cip = "NOT_CALLED"] = cmd
  /\ \A n \in Names : PlainCommand(n) \in PlainCmds
  /\ \A n \in Names : PlainCommand(n).name = n
  /\ ~Sent(NoCommand)
<1>1. \A n \in Names : n # "none"
  BY NamesAssumption DEF Names
<1>2. \A n \in Names : PlainCommand(n) \in PlainCmds
  BY DEF PlainCmds
<1>3. ASSUME NEW n
      PROVE  /\ PlainCommand(n).name = n /\ ~HasBopMask(PlainCommand(n))
             /\ [PlainCommand(n) EXCEPT !.cip = "NOT_CALLED"] = PlainCommand(n)
  <2>1. PlainCommand(n) =
          [name |-> n, bits |-> {}, while |-> FALSE, cip |-> "NOT_CALLED"]
    BY DEF PlainCommand, NewCommand
  <2>2. ~HasBopMask(PlainCommand(n))
    BY <2>1 DEF HasBopMask
  <2>3. /\ PlainCommand(n).name = n
        /\ PlainCommand(n) \in [name: {n}, bits: {{}}, while: {FALSE},
                                cip: {"NOT_CALLED"}]
    BY <2>1
  <2>4. ASSUME NEW r \in [name: {n}, bits: {{}}, while: {FALSE},
                          cip: {"NOT_CALLED"}]
        PROVE  [r EXCEPT !.cip = "NOT_CALLED"] = r
    OBVIOUS
  <2>5. QED
    BY <2>2, <2>3, <2>4
<1>4. NoCommand.name = "none"
  BY DEF NoCommand, NewCommand
<1>5. ASSUME NEW cmd \in PlainCmds
      PROVE  /\ cmd.name \in Names /\ cmd # NoCommand
             /\ ~HasBopMask(cmd) /\ Sent(cmd)
             /\ [cmd EXCEPT !.cip = "NOT_CALLED"] = cmd
  <2>1. PICK n \in Names : cmd = PlainCommand(n)
    BY DEF PlainCmds
  <2>2. cmd.name \in Names /\ cmd # NoCommand
    BY <1>1, <1>3, <1>4, <2>1
  <2>3. QED
    BY <1>3, <2>1, <2>2 DEF Sent
<1>6. ~Sent(NoCommand)
  BY DEF Sent
<1>7. QED
  BY <1>2, <1>3, <1>5, <1>6

\* Connection::sendCommand of a command without a mask writes it to the socket,
\* if there is one, and remembers that it did.
LEMMA SendPlain ==
  ASSUME NEW c \in Conns, c.running \in PlainCmds
  PROVE  /\ sendCommand(c) \in Conns
         /\ sendCommand(c).state = c.state
         /\ sendCommand(c).running = c.running
         /\ sendCommand(c).status = "SEND"
         /\ sendCommand(c).out = IF HasSocket(c)
                                 THEN Append(c.out, c.running.name) ELSE c.out
<1>1. ~HasBopMask(c.running) /\ c.running.name \in Names
      /\ [c.running EXCEPT !.cip = "NOT_CALLED"] = c.running
  BY PlainFacts
<1>2. sendCommand(c) = Transmit(c, "NOT_CALLED")
  BY <1>1 DEF sendCommand
<1> DEFINE d == sendMsg(c, c.running.name)
<1>3. /\ d \in Conns /\ d.state = c.state /\ d.running = c.running
      /\ d.out = IF HasSocket(c) THEN Append(c.out, c.running.name) ELSE c.out
  <2>1. CASE HasSocket(c)
    <3>1. Append(c.out, c.running.name) \in Seq(Names)
      BY <1>1 DEF Conns
    <3>2. d = [c EXCEPT !.out = Append(c.out, c.running.name)]
      BY <2>1 DEF sendMsg
    <3>3. QED
      BY <2>1, <3>1, <3>2 DEF Conns
  <2>2. CASE ~HasSocket(c)
    BY <2>2 DEF sendMsg
  <2>3. QED
    BY <2>1, <2>2
<1>4. Transmit(c, "NOT_CALLED") =
        [d EXCEPT !.status = "SEND", !.running = [c.running EXCEPT !.cip = "NOT_CALLED"]]
  BY <1>3 DEF Transmit, Conns
<1> HIDE DEF d
<1>5. QED
  BY <1>1, <1>2, <1>3, <1>4 DEF Conns

\* What was written to a socket that c does not have is lost.
Written(c, n) == IF HasSocket(c) THEN Append(c.out, n) ELSE c.out

\* Connection::commandReturn: the next command, if there is one, is sent.
LEMMA ReturnPlain ==
  ASSUME NEW c, Well(c)
  PROVE  /\ Well(commandReturn(c))
         /\ commandReturn(c).state = c.state
         /\ \/ /\ commandReturn(c).running = NoCommand
               /\ commandReturn(c).out = c.out
            \/ /\ commandReturn(c).running \in PlainCmds
               /\ commandReturn(c).out =
                    Written(c, commandReturn(c).running.name)
<1> DEFINE r == [c EXCEPT !.status = "RETURNING"]
<1>1. r \in Conns /\ r.state = c.state /\ r.out = c.out /\ r.queue = c.queue
  BY DEF Well, Conns
<1>2. HasSocket(r) <=> HasSocket(c)
  BY <1>1 DEF HasSocket
<1>3. CASE c.queue = << >>
  <2>1. commandReturn(c) = [r EXCEPT !.running = NoCommand]
    BY <1>1, <1>3 DEF commandReturn, sendNextCommand
  <2>2. /\ commandReturn(c) \in Conns /\ commandReturn(c).state = c.state
        /\ commandReturn(c).out = c.out /\ commandReturn(c).running = NoCommand
    BY <1>1, <2>1 DEF Conns
  <2>3. QED
    BY <2>2 DEF Well, HasSocket
<1>4. CASE c.queue # << >>
  <2> DEFINE q == [r EXCEPT !.running = Head(r.queue), !.queue = Tail(r.queue)]
  <2>1. commandReturn(c) = sendCommand(q)
    BY <1>1, <1>4 DEF commandReturn, sendNextCommand
  <2>2. Head(r.queue) \in PlainCmds /\ Tail(r.queue) \in Seq(PlainCmds)
    BY <1>1, <1>4 DEF Conns
  <2>3. /\ q \in Conns /\ q.state = c.state /\ q.out = c.out
        /\ q.running \in PlainCmds
    BY <1>1, <2>2 DEF Conns
  <2>4. HasSocket(q) <=> HasSocket(c)
    BY <2>3 DEF HasSocket
  <2> HIDE DEF q
  <2>5. /\ sendCommand(q) \in Conns /\ sendCommand(q).state = c.state
        /\ sendCommand(q).running \in PlainCmds /\ sendCommand(q).status = "SEND"
        /\ sendCommand(q).out = Written(c, sendCommand(q).running.name)
    BY <2>3, <2>4, SendPlain DEF Written
  <2>6. QED
    BY <2>1, <2>5 DEF Well, Written, HasSocket
<1>5. QED
  BY <1>3, <1>4

\* Connection::queCommand sends only on an open connection that is idle.
LEMMA QueuePlain ==
  ASSUME NEW c, Well(c), NEW cmd \in PlainCmds
  PROVE  /\ Well(queCommand(c, cmd))
         /\ queCommand(c, cmd).state = c.state
         /\ c.running # NoCommand \/ c.state # "open" =>
              /\ queCommand(c, cmd).running = c.running
              /\ queCommand(c, cmd).out = c.out
         /\ ~(c.running # NoCommand \/ c.state # "open") =>
              /\ queCommand(c, cmd).running = cmd
              /\ queCommand(c, cmd).out = Append(c.out, cmd.name)
<1>1. CASE c.running # NoCommand \/ c.state # "open"
  <2>1. queCommand(c, cmd) = [c EXCEPT !.queue = Append(c.queue, cmd)]
    BY <1>1 DEF queCommand
  <2>2. Append(c.queue, cmd) \in Seq(PlainCmds)
    BY DEF Well, Conns
  <2>3. QED
    BY <1>1, <2>1, <2>2 DEF Well, Conns, HasSocket
<1>2. CASE ~(c.running # NoCommand \/ c.state # "open")
  <2> DEFINE q == [c EXCEPT !.running = cmd]
  <2>1. queCommand(c, cmd) = sendCommand(q)
    BY <1>2 DEF queCommand
  <2>2. /\ q \in Conns /\ q.state = c.state /\ q.out = c.out
        /\ q.running = cmd /\ HasSocket(q)
    BY <1>2 DEF Well, Conns, HasSocket
  <2> HIDE DEF q
  <2>3. QED
    BY <1>2, <2>1, <2>2, SendPlain DEF Well, HasSocket
<1>3. QED
  BY <1>1, <1>2

\* Connection::queSend sends at once unless a command counts as sent.
LEMMA HurryPlain ==
  ASSUME NEW c, Well(c), NEW cmd \in PlainCmds
  PROVE  /\ Well(queSend(c, cmd))
         /\ queSend(c, cmd).state = c.state
         /\ c.state = "connecting" \/ c.running # NoCommand =>
              /\ queSend(c, cmd).running = c.running
              /\ queSend(c, cmd).out = c.out
         /\ ~(c.state = "connecting" \/ c.running # NoCommand) =>
              /\ queSend(c, cmd).running = cmd
              /\ queSend(c, cmd).out = Written(c, cmd.name)
<1>1. CASE c.state = "connecting" \/ c.running # NoCommand
  <2>1. queSend(c, cmd) = [c EXCEPT !.queue = <<cmd>> \o c.queue]
    BY <1>1 DEF queSend, Well
  <2>2. <<cmd>> \o c.queue \in Seq(PlainCmds)
    BY DEF Well, Conns
  <2>3. QED
    BY <1>1, <2>1, <2>2 DEF Well, Conns, HasSocket
<1>2. CASE ~(c.state = "connecting" \/ c.running # NoCommand)
  <2> DEFINE q == [c EXCEPT !.running = cmd]
  <2>1. queSend(c, cmd) = sendCommand(q)
    BY <1>2 DEF queSend
  <2>2. /\ q \in Conns /\ q.state = c.state /\ q.out = c.out
        /\ q.running = cmd /\ (HasSocket(q) <=> HasSocket(c))
    BY <1>2 DEF Well, Conns, HasSocket
  <2> HIDE DEF q
  <2>3. /\ sendCommand(q) \in Conns /\ sendCommand(q).state = c.state
        /\ sendCommand(q).running = cmd /\ sendCommand(q).status = "SEND"
        /\ sendCommand(q).out = Written(c, cmd.name)
    BY <2>2, SendPlain DEF Written
  <2>4. QED
    BY <1>2, <2>1, <2>3 DEF Well, HasSocket, Written
<1>3. QED
  BY <1>1, <1>2

\* The loss of the link leaves the running command as it is.
LEMMA ErrorPlain ==
  ASSUME NEW c, Well(c)
  PROVE  /\ Well(masterError(c)) /\ masterError(c).state = "broken"
         /\ masterError(c).running = c.running /\ masterError(c).out = << >>
<1>1. masterError(c) = [c EXCEPT !.state = "broken", !.out = << >>]
  BY DEF masterError
<1>2. << >> \in Seq(Names)
  OBVIOUS
<1>3. QED
  BY <1>1, <1>2 DEF Well, Conns, HasSocket

\* Connection::setConnState sends nothing as long as a command is running or
\* the connection is not open.
LEMMA StatePlain ==
  ASSUME NEW c, Well(c), NEW s \in {"connecting", "pending", "open"},
         c.out = << >> \/ s # "connecting",
         s = "open" => c.running # NoCommand
  PROVE  /\ Well(setConnState(c, s)) /\ setConnState(c, s).state = s
         /\ setConnState(c, s).running = c.running
         /\ setConnState(c, s).out = c.out
<1>1. setConnState(c, s) = [c EXCEPT !.state = s]
  BY DEF setConnState
<1>2. QED
  BY <1>1 DEF Well, Conns, HasSocket

-----------------------------------------------------------------------------
\* A step that strands a command ends without a link.
Strands == ~Stranded /\ Stranded' => conn'.state = "broken"

\* The connection is broken when the device starts.
LEMMA InitIInv == Init => IInv
<1> SUFFICES ASSUME Init PROVE IInv
  OBVIOUS
<1>1. /\ conn.state = "broken" /\ conn.running = NoCommand
      /\ conn.out = << >> /\ conn \in Conns
  BY DEF Init, NewConnection, Conns
<1>2. Well(conn) /\ input \in Seq(BOOLEAN) /\ breaks \in 0 .. MaxBreaks
  BY <1>1, MaxBreaksAssumption DEF Init, Well
<1>3. IType
  BY <1>2, Zenon DEF Init, IType
<1>4. QED
  BY <1>1, <1>3 DEF Init, IInv, IState, IRefused, RegistersFirst, HasSocket

\* One step per action.
LEMMA NextIInv == IInv /\ [Next]_vars => IInv' /\ Strands
<1> SUFFICES ASSUME IInv, [Next]_vars PROVE IInv' /\ Strands
  OBVIOUS
<1> USE DEF IInv, IType
<1>0a. PlainCommand("register") \in PlainCmds /\ PlainCommand("register").name = "register"
  BY PlainFacts DEF Names
<1>0b. \A cmd \in PlainCmds \cup {NoCommand} : Sent(cmd) <=> cmd # NoCommand
  BY PlainFacts
<1>0c. conn.running \in PlainCmds \cup {NoCommand} /\ conn.out \in Seq(Names)
  BY DEF Well, Conns
<1>1. CASE Retry
  <2>1. conn.out = << >> /\ input = << >>
    BY <1>1 DEF Retry, Well, IState, HasSocket
  <2>2. /\ Well(conn') /\ conn'.state = "connecting"
        /\ conn'.running = conn.running /\ conn'.out = << >>
    BY <1>1, <2>1, StatePlain DEF Retry
  <2>3. IInv'
    BY <1>1, <2>2 DEF Retry, IState, IRefused, RegistersFirst, HasSocket
  <2>4. Strands
    BY <1>1, <2>1, <2>2 DEF Retry, Strands, Stranded
  <2>5. QED
    BY <2>3, <2>4
<1>2. CASE Connected
  <2> DEFINE c == setConnState(conn, "pending")
  <2>1. conn.out = << >> /\ input = << >> /\ ~registered
    BY <1>2 DEF Connected, Well, IState, HasSocket
  <2>2. /\ Well(c) /\ c.state = "pending" /\ c.running = conn.running
        /\ c.out = << >> /\ HasSocket(c)
    BY <1>2, <2>1, StatePlain DEF Connected, HasSocket
  <2>3. conn' = queSend(c, PlainCommand("register"))
    BY <1>2 DEF Connected
  <2> HIDE DEF c
  <2>4. CASE conn.running = NoCommand
    <3>1. /\ Well(conn') /\ conn'.state = "pending"
          /\ conn'.running = PlainCommand("register")
          /\ conn'.out = Append(<< >>, "register")
      BY <1>0a, <2>2, <2>3, <2>4, HurryPlain DEF Written
    <3>2. conn'.running # NoCommand /\ conn'.running.name = "register"
      BY <1>0a, <3>1, PlainFacts
    <3>3. \A i \in DOMAIN conn'.out : conn'.out[i] = "register"
      BY <3>1
    <3>4. conn'.out # << >>
      BY <3>1
    <3>5. QED
      BY <1>2, <2>1, <3>1, <3>2, <3>3, <3>4
      DEF Connected, IState, IRefused, RegistersFirst, HasSocket, Strands, Stranded
  <2>5. CASE conn.running # NoCommand
    <3>1. /\ Well(conn') /\ conn'.state = "pending"
          /\ conn'.running = conn.running /\ conn'.out = << >>
      BY <1>0a, <2>2, <2>3, <2>5, HurryPlain
    <3>2. QED
      BY <1>2, <2>1, <2>5, <3>1
      DEF Connected, IState, IRefused, RegistersFirst, HasSocket, Strands, Stranded
  <2>6. QED
    BY <2>4, <2>5
<1>3. CASE ConnectFailed
  <2>1. /\ Well(conn') /\ conn'.state = "broken" /\ conn'.out = << >>
        /\ input = << >>
    BY <1>3, ErrorPlain DEF ConnectFailed, IState, HasSocket
  <2>2. breaks' \in 0 .. MaxBreaks
    BY <1>3, MaxBreaksAssumption DEF ConnectFailed
  <2>3. QED
    BY <1>3, <2>1, <2>2
    DEF ConnectFailed, IState, IRefused, RegistersFirst, HasSocket, Strands
<1>4. ASSUME NEW n \in Queued, QueCommand(n) PROVE IInv' /\ Strands
  <2>1. PlainCommand(n) \in PlainCmds /\ PlainCommand(n).name = n
    BY PlainFacts DEF Names
  <2>2. Well(conn') /\ conn'.state = conn.state
    BY <1>4, <2>1, QueuePlain DEF QueCommand
  <2>3. given' \in SUBSET (Queued \cup Urgent)
    BY <1>4 DEF QueCommand
  <2>4. CASE conn.running # NoCommand \/ conn.state # "open"
    <3>1. conn'.running = conn.running /\ conn'.out = conn.out
      BY <1>4, <2>1, <2>4, QueuePlain DEF QueCommand
    <3>2. QED
      BY <1>4, <2>2, <2>3, <3>1
      DEF QueCommand, IState, IRefused, RegistersFirst, HasSocket, Strands, Stranded
  <2>5. CASE ~(conn.running # NoCommand \/ conn.state # "open")
    <3>1. conn'.out = Append(conn.out, n) /\ conn'.out # << >>
      BY <1>0c, <1>4, <2>1, <2>5, QueuePlain DEF QueCommand
    <3>2. QED
      BY <1>4, <2>2, <2>3, <2>5, <3>1
      DEF QueCommand, IState, IRefused, RegistersFirst, HasSocket, Strands, Stranded
  <2>6. QED
    BY <2>4, <2>5
<1>5. ASSUME NEW n \in Urgent, Authorize(n) PROVE IInv' /\ Strands
  <2>1. PlainCommand(n) \in PlainCmds /\ PlainCommand(n).name = n
    BY PlainFacts DEF Names
  <2>2. Well(conn') /\ conn'.state = conn.state
    BY <1>5, <2>1, HurryPlain DEF Authorize
  <2>3. given' \in SUBSET (Queued \cup Urgent)
    BY <1>5 DEF Authorize
  <2>4. CASE conn.state = "connecting" \/ conn.running # NoCommand
    <3>1. conn'.running = conn.running /\ conn'.out = conn.out
      BY <1>5, <2>1, <2>4, HurryPlain DEF Authorize
    <3>2. QED
      BY <1>5, <2>2, <2>3, <3>1
      DEF Authorize, IState, IRefused, RegistersFirst, HasSocket, Strands, Stranded
  <2>5. CASE ~(conn.state = "connecting" \/ conn.running # NoCommand)
    <3>1. conn.state \in {"open", "broken"}
      BY <2>5 DEF IState, Well, Conns
    <3>2. conn'.out = Written(conn, n)
      BY <1>5, <2>1, <2>5, HurryPlain DEF Authorize
    <3>3. CASE conn.state = "open"
      <4>1. conn'.out # << >>
        BY <1>0c, <3>2, <3>3 DEF Written, HasSocket
      <4>2. QED
        BY <1>5, <2>2, <2>3, <3>3, <4>1
        DEF Authorize, IState, IRefused, RegistersFirst, HasSocket, Strands, Stranded
    <3>4. CASE conn.state = "broken"
      BY <1>5, <2>2, <2>3, <3>4
      DEF Authorize, IState, IRefused, RegistersFirst, HasSocket, Strands
    <3>5. QED
      BY <3>1, <3>3, <3>4
  <2>6. QED
    BY <2>4, <2>5
<1>6. CASE CentraldExecutes
  <2>1. conn.out # << >> /\ conn' = [conn EXCEPT !.out = Tail(conn.out)]
        /\ UNCHANGED <<taken, given, breaks>>
    BY <1>6 DEF CentraldExecutes
  <2>2. HasSocket(conn)
    BY <2>1 DEF Well
  <2>3. Tail(conn.out) \in Seq(Names)
    BY <1>0c, <2>1, TailFacts
  <2>4. /\ Well(conn') /\ conn'.state = conn.state
        /\ conn'.running = conn.running /\ conn'.out = Tail(conn.out)
    BY <2>1, <2>2, <2>3 DEF Well, Conns, HasSocket
  <2>5. PICK ok \in BOOLEAN : input' = Append(input, ok) /\ (ok => registered')
    <3>1. CASE Head(conn.out) = "register"
      <4>1. /\ input' = Append(input, ~taken /\ ~registered)
            /\ registered' = (registered \/ ~taken)
        BY <1>6, <3>1 DEF CentraldExecutes
      <4>2. (~taken /\ ~registered) \in BOOLEAN
        OBVIOUS
      <4>3. QED
        BY <4>1, <4>2, Zenon
    <3>2. CASE Head(conn.out) # "register"
      <4>1. /\ \E ok \in {TRUE, FALSE} : /\ ok => registered
                                        /\ input' = Append(input, ok)
            /\ registered' = registered
        BY <1>6, <3>2 DEF CentraldExecutes
      <4>2. QED
        BY <4>1
    <3>3. QED
      BY <3>1, <3>2
  <2>6. registered' \in BOOLEAN /\ (registered => registered')
    <3>1. CASE Head(conn.out) = "register"
      BY <1>6, <3>1 DEF CentraldExecutes
    <3>2. CASE Head(conn.out) # "register"
      <4>1. registered' = registered
        BY <1>6, <3>2 DEF CentraldExecutes
      <4>2. QED
        BY <4>1
    <3>3. QED
      BY <3>1, <3>2
  <2>7. input' \in Seq(BOOLEAN) /\ input' # << >>
    BY <2>5, AppendFacts
  <2>8. IRefused'
    <3> SUFFICES ASSUME ~registered', NEW i \in DOMAIN input'
                 PROVE  input'[i] = FALSE
      BY DEF IRefused
    <3>1. ok = FALSE /\ ~registered
      BY <2>5, <2>6
    <3>2. input'[i] = ok \/ (i \in DOMAIN input /\ input'[i] = input[i])
      BY <2>5, AppendFacts
    <3>3. QED
      BY <2>2, <3>1, <3>2 DEF IRefused
  <2>9. RegistersFirst'
    BY <1>0c, <2>1, <2>2, <2>4, <2>6, TailFacts DEF RegistersFirst
  <2>10. conn.state = "pending" => conn.running.name = "register"
    BY <2>1 DEF IState
  <2>11. IType'
    BY <2>1, <2>4, <2>6, <2>7
  <2>12. IState'
    BY <2>2, <2>4, <2>6, <2>10 DEF IState, HasSocket
  <2>13. QED
    BY <2>7, <2>8, <2>9, <2>11, <2>12 DEF Strands, Stranded
<1>7. CASE CentraldNotices
  BY <1>7 DEF CentraldNotices, IState, IRefused, RegistersFirst, Strands, Stranded
<1>8. CASE ReadReturn
  <2>1. HasSocket(conn) /\ input # << >>
    BY <1>8 DEF ReadReturn
  <2>2. /\ Head(input) \in BOOLEAN /\ Tail(input) \in Seq(BOOLEAN)
        /\ 1 \in DOMAIN input /\ Head(input) = input[1]
    BY <2>1, TailFacts
  <2>3. taken' \in BOOLEAN /\ registered' = registered /\ given' = given
        /\ breaks' = breaks
    BY <1>8 DEF ReadReturn
  <2>4. CASE conn.running = NoCommand
    <3>1. conn.running.name # "register"
      BY <2>4 DEF NoCommand, NewCommand
    <3>2. conn' = conn /\ input' = Tail(input)
      BY <1>8, <2>4, <3>1 DEF ReadReturn
    <3>3. conn.state = "open" /\ registered
      BY <2>1, <2>4 DEF IState, HasSocket
    <3>4. IInv'
      BY <2>1, <2>2, <2>3, <3>2, <3>3 DEF IState, IRefused, RegistersFirst, HasSocket
    <3>5. ~Stranded'
      BY <2>4, <3>2, PlainFacts DEF Stranded
    <3>6. QED
      BY <3>4, <3>5 DEF Strands
  <2>5. CASE conn.running # NoCommand /\ conn.running.name = "register" /\ ~Head(input)
    <3> DEFINE c == masterError(conn)
    <3>1. Well(c) /\ c.state = "broken" /\ c.out = << >> /\ ~HasSocket(c)
      BY ErrorPlain DEF HasSocket
    <3>2. conn' = commandReturn(c) /\ input' = << >>
      BY <1>8, <2>5 DEF ReadReturn
    <3> HIDE DEF c
    <3>3. Well(conn') /\ conn'.state = "broken"
      BY <3>1, <3>2, ReturnPlain
    <3>4. QED
      BY <2>3, <3>2, <3>3
      DEF IState, IRefused, RegistersFirst, HasSocket, Strands
  <2>6. CASE conn.running # NoCommand /\ ~(conn.running.name = "register" /\ ~Head(input))
    <3> DEFINE c == IF conn.running.name # "register" THEN conn
                    ELSE setConnState(conn, "open")
    <3>1. registered
      BY <2>1, <2>2, <2>6 DEF IState, IRefused, HasSocket
    <3>2. conn' = commandReturn(c) /\ input' = Tail(input)
      BY <1>8, <2>6 DEF ReadReturn
    <3>3. Well(c) /\ c.state = "open" /\ c.out = conn.out /\ HasSocket(c)
      BY <2>1, <2>6, StatePlain DEF IState, HasSocket
    <3> HIDE DEF c
    <3>4. Well(conn') /\ conn'.state = "open"
      BY <3>2, <3>3, ReturnPlain
    <3>5. conn'.running = NoCommand \/ conn'.out = Append(conn.out, conn'.running.name)
      BY <3>2, <3>3, ReturnPlain DEF Written
    <3>6. ~Stranded'
      BY <1>0c, <3>5, PlainFacts DEF Stranded
    <3>7. IInv'
      BY <2>1, <2>2, <2>3, <3>1, <3>2, <3>4
      DEF IState, IRefused, RegistersFirst, HasSocket
    <3>8. QED
      BY <3>6, <3>7 DEF Strands
  <2>7. QED
    BY <2>4, <2>5, <2>6
<1>9. CASE Break
  <2>1. /\ Well(conn') /\ conn'.state = "broken" /\ conn'.out = << >>
        /\ input' = << >>
    BY <1>9, ErrorPlain DEF Break
  <2>2. breaks' \in 0 .. MaxBreaks /\ registered' = FALSE /\ given' = given
        /\ taken' \in BOOLEAN
    BY <1>9, MaxBreaksAssumption DEF Break
  <2>3. ~HasSocket(conn)'
    BY <2>1 DEF HasSocket
  <2>4. IType'
    <3>1. registered' \in BOOLEAN /\ input' \in Seq(BOOLEAN)
      <4>1. FALSE \in BOOLEAN /\ << >> \in Seq(BOOLEAN)
        OBVIOUS
      <4>2. QED
        BY <2>1, <2>2, <4>1, Zenon
    <3>2. QED
      BY <2>1, <2>2, <3>1
  <2>5. IState'
    BY <2>1, <2>3 DEF IState
  <2>6. IRefused' /\ RegistersFirst' /\ Strands
    BY <2>1, <2>3, Zenon DEF IRefused, RegistersFirst, Strands
  <2>7. QED
    BY <2>4, <2>5, <2>6
<1>10. CASE UNCHANGED vars
  BY <1>10
  DEF vars, IState, IRefused, RegistersFirst, HasSocket, Strands, Stranded
<1>11. QED
  BY <1>1, <1>2, <1>3, <1>4, <1>5, <1>6, <1>7, <1>8, <1>9, <1>10 DEF Next

-----------------------------------------------------------------------------
\* The inductive invariant: on a socket whose registration is not accepted, the
\* running command always counts as sent, and nothing else goes out.
THEOREM Invariant == Spec => []IInv
  BY InitIInv, NextIInv, PTL DEF Spec

\* Type correctness: in particular the connection of a device to centrald is
\* never marked for deletion, whatever is lost or refused.
THEOREM TypeCorrect == Spec => []TypeOK
<1>1. IInv => TypeOK
  <2>1. PlainCmds \subseteq Cmds
    <3> SUFFICES ASSUME NEW n \in Names PROVE PlainCommand(n) \in Cmds
      BY DEF PlainCmds
    <3>1. QED
      BY DEF PlainCommand, NewCommand, Cmds, Command
  <2>2. NoCommand \in Cmds
    BY DEF NoCommand, NewCommand, Cmds, Command
  <2>3. Seq(PlainCmds) \subseteq Seq(Cmds)
    BY <2>1
  <2>4. Conns \subseteq ConnectionRecord(Cmds, {}, Names)
    BY <2>1, <2>2, <2>3 DEF Conns, ConnectionRecord, ConnStates
  <2>5. \A c \in Conns : c.state # "delete"
    BY DEF Conns
  <2>6. QED
    BY <2>4, <2>5 DEF IInv, IType, Well, TypeOK
<1>2. QED
  BY <1>1, Invariant, PTL

\* Whatever clients and other parts of the device queue, and whatever was
\* under way when an earlier socket was lost, nothing but the registration is
\* written to a socket before centrald has accepted the name.
THEOREM RegistrationIsFirst == Spec => []RegistersFirst
<1>1. IInv => RegistersFirst
  BY DEF IInv
<1>2. QED
  BY <1>1, Invariant, PTL

\* A command that counts as sent and will never return comes only of a link
\* that breaks: on a link that works each return releases the next command.
THEOREM OnlyBreaksStrand == Spec => StrandedByBreak
<1>1. IInv /\ [Next]_vars => [~Stranded /\ Stranded' => conn'.state = "broken"]_vars
  BY NextIInv DEF Strands
<1>2. QED
  BY <1>1, Invariant, PTL DEF Spec, StrandedByBreak
=============================================================================
