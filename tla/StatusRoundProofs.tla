-------------------------- MODULE StatusRoundProofs -------------------------
(***************************************************************************)
(* Theorems about the rounds of status calls, for any clients, devices and *)
(* block_by lists, and however many devices crash.                         *)
(***************************************************************************)
EXTENDS StatusRound, FiniteSetTheorems, FunctionTheorems, SequenceTheorems, TLAPS

-----------------------------------------------------------------------------
(***************************************************************************)
(* Counting the lines of a socket.                                         *)
(***************************************************************************)
Places(s, M) == {i \in DOMAIN s : s[i] \in M}

Among(s, M) == Cardinality(Places(s, M))

\* The lines with the text m are those among {m}.
LEMMA CountIsAmong ==
  ASSUME NEW s, NEW m
  PROVE  Count(s, m) = Among(s, {m})
BY DEF Count, Among, Places

\* Only finitely many lines are written.
LEMMA PlacesFinite ==
  ASSUME NEW S, NEW s \in Seq(S), NEW M
  PROVE  /\ IsFiniteSet(Places(s, M)) /\ Among(s, M) \in Nat
         /\ Places(s, M) \subseteq 1 .. Len(s)
<1>1. Places(s, M) \in SUBSET (1 .. Len(s)) /\ Len(s) \in Nat
  BY DEF Places
<1>2. IsFiniteSet(1 .. Len(s))
  BY <1>1, FS_Interval
<1>3. IsFiniteSet(Places(s, M))
  BY <1>1, <1>2, FS_Subset
<1>4. QED
  BY <1>1, <1>3, FS_CardinalityType DEF Among

\* Nothing is counted in an empty line.
LEMMA AmongEmpty ==
  ASSUME NEW M
  PROVE  Among(<< >>, M) = 0
<1>1. Places(<< >>, M) = {}
  BY DEF Places
<1>2. QED
  BY <1>1, FS_EmptySet DEF Among

\* A line that is written adds to the count of its kind alone.
LEMMA AmongAppend ==
  ASSUME NEW S, NEW s \in Seq(S), NEW e \in S, NEW M
  PROVE  Among(Append(s, e), M) = Among(s, M) + (IF e \in M THEN 1 ELSE 0)
<1>1. /\ Len(s) \in Nat /\ DOMAIN s = 1 .. Len(s)
      /\ DOMAIN Append(s, e) = 1 .. Len(s) + 1
      /\ \A i \in 1 .. Len(s) : Append(s, e)[i] = s[i]
      /\ Append(s, e)[Len(s) + 1] = e
  OBVIOUS
<1>2. IsFiniteSet(Places(s, M)) /\ Among(s, M) \in Nat
      /\ Len(s) + 1 \notin Places(s, M)
  BY <1>1, PlacesFinite
<1>3. CASE e \in M
  <2>1. Places(Append(s, e), M) = Places(s, M) \cup {Len(s) + 1}
    BY <1>1, <1>3 DEF Places
  <2>2. QED
    BY <1>2, <1>3, <2>1, FS_AddElement DEF Among
<1>4. CASE e \notin M
  <2>1. Places(Append(s, e), M) = Places(s, M)
    BY <1>1, <1>4 DEF Places
  <2>2. QED
    BY <1>2, <1>4, <2>1 DEF Among
<1>5. QED
  BY <1>3, <1>4

\* A line that is read is no longer counted.
LEMMA AmongTail ==
  ASSUME NEW S, NEW s \in Seq(S), s # << >>, NEW M
  PROVE  Among(s, M) = Among(Tail(s), M) + (IF Head(s) \in M THEN 1 ELSE 0)
<1>1. /\ Len(s) \in Nat \ {0} /\ DOMAIN s = 1 .. Len(s) /\ Head(s) = s[1]
      /\ Tail(s) \in Seq(S) /\ DOMAIN Tail(s) = 1 .. Len(s) - 1
      /\ \A i \in 1 .. Len(s) - 1 : Tail(s)[i] = s[i + 1]
  OBVIOUS
<1> DEFINE P == Places(Tail(s), M)
           Q == Places(s, M)
           f == [i \in P |-> i + 1]
<1>2. /\ IsFiniteSet(P) /\ Among(Tail(s), M) \in Nat /\ P \subseteq 1 .. Len(s) - 1
      /\ IsFiniteSet(Q) /\ Among(s, M) \in Nat /\ Q \subseteq 1 .. Len(s)
  <2>1. Len(Tail(s)) = Len(s) - 1
    BY <1>1
  <2> HIDE DEF P, Q
  <2>2. /\ IsFiniteSet(P) /\ Among(Tail(s), M) \in Nat
        /\ P \subseteq 1 .. Len(Tail(s))
    BY <1>1, PlacesFinite DEF P
  <2>3. QED
    BY <2>1, <2>2, PlacesFinite DEF Q
<1>3. f \in Bijection(P, Q \ {1})
  <2>1. \A i \in P : i + 1 \in Q \ {1}
    BY <1>1, <1>2 DEF Places
  <2>2. \A j \in Q \ {1} : j - 1 \in P /\ j = (j - 1) + 1
    <3> SUFFICES ASSUME NEW j \in Q \ {1} PROVE j - 1 \in P /\ j = (j - 1) + 1
      OBVIOUS
    <3>1. j \in 2 .. Len(s) /\ s[j] \in M
      BY <1>1, <1>2 DEF Places
    <3>2. j - 1 \in 1 .. Len(s) - 1 /\ j = (j - 1) + 1
      BY <1>1, <3>1
    <3>3. Tail(s)[j - 1] = s[j]
      BY <1>1, <3>2
    <3>4. QED
      BY <1>1, <3>1, <3>2, <3>3 DEF Places
  <2>3. f \in [P -> Q \ {1}]
    BY <2>1
  <2>4. \A a, b \in P : f[a] = f[b] => a = b
    BY <1>1, <1>2
  <2>5. \A j \in Q \ {1} : \E i \in P : f[i] = j
    BY <2>2
  <2> HIDE DEF f, P, Q
  <2>6. QED
    BY <2>3, <2>4, <2>5, Fun_IsBij
<1>4. Cardinality(Q \ {1}) = Cardinality(P)
  BY <1>2, <1>3, FS_Bijection DEF ExistsBijection
<1>5. 1 \in Q <=> Head(s) \in M
  BY <1>1 DEF Places
<1> HIDE DEF P, Q
<1>6. Cardinality(Q \ {1}) = IF 1 \in Q THEN Cardinality(Q) - 1 ELSE Cardinality(Q)
  BY <1>2, FS_RemoveElement
<1>7. Cardinality(Q) = Among(s, M) /\ Cardinality(P) = Among(Tail(s), M)
  BY DEF P, Q, Among
<1>8. QED
  BY <1>2, <1>4, <1>5, <1>6, <1>7

-----------------------------------------------------------------------------
(***************************************************************************)
(* Connections whose commands have no mask: both ends of the link of a     *)
(* device and centrald.                                                    *)
(***************************************************************************)
Askers == Devices \cup {"orphan"}

Asks(N) == {AskFor(n) : n \in N}

PlainConns(N) ==
  [state: {"open"}, running: Asks(N) \cup {NoCommand},
   status: {"WAITING", "SEND", "RETURNING"},
   queue: Seq(Asks(N)), bop: SUBSET {Bit}, out: Seq(Texts)]

\* What runs was sent, and nothing waits behind nothing.
Plain(c, N) ==
  /\ c \in PlainConns(N)
  /\ c.running # NoCommand => c.status = "SEND"
  /\ c.running = NoCommand => c.queue = << >>

\* Connections with the same commands.
Alike(c, d) ==
  d.running = c.running /\ d.queue = c.queue /\ d.bop = c.bop

\* d has written the line m in addition to those of c.
Wrote(c, d, m) == d.out = Append(c.out, m)

\* In d a status call for n has been queued behind those of c,
Behind(c, d, n) ==
  /\ d.running = c.running /\ d.out = c.out
  /\ d.queue = Append(c.queue, AskFor(n))

\* or sent, as nothing ran.
AtOnce(c, d, n) ==
  d.running = AskFor(n) /\ d.queue = c.queue /\ Wrote(c, d, n)

\* The names of the text are not the name of no command.
LEMMA TextNames ==
  /\ "none" \notin Texts /\ Askers \subseteq Texts /\ "status_info" \in Texts
  /\ \A d \in Devices : d \notin {"none", "orphan", "run", "device_status",
                          "status_info", "S0", "S1", "B0", "B1", "+0"}
<1>1. \A d \in Devices : d \notin {"none", "orphan", "run", "device_status",
                          "status_info", "S0", "S1", "B0", "B1", "+0"}
  BY NamesAssumption
<1>2. QED
  BY <1>1 DEF Texts, Askers

\* A status call carries its name and no mask.
LEMMA AskFacts ==
  ASSUME NEW n
  PROVE  /\ AskFor(n).name = n /\ ~HasBopMask(AskFor(n))
         /\ [AskFor(n) EXCEPT !.cip = "NOT_CALLED"] = AskFor(n)
         /\ n # "none" => AskFor(n) # NoCommand
         /\ n \in Texts => AskFor(n) \in Cmds
         /\ NoCommand \in Cmds
<1>1. AskFor(n) = [name |-> n, bits |-> {}, while |-> FALSE, cip |-> "NOT_CALLED"]
  BY DEF AskFor, NewCommand
<1>2. NoCommand = [name |-> "none", bits |-> {}, while |-> FALSE, cip |-> "NOT_CALLED"]
  BY DEF NoCommand, NewCommand
<1>3. ~HasBopMask(AskFor(n))
  BY <1>1 DEF HasBopMask
<1>4. /\ AskFor(n).name = n
      /\ AskFor(n) \in [name: {n}, bits: {{}}, while: {FALSE}, cip: {"NOT_CALLED"}]
  BY <1>1
<1>5. ASSUME NEW r \in [name: {n}, bits: {{}}, while: {FALSE}, cip: {"NOT_CALLED"}]
      PROVE  [r EXCEPT !.cip = "NOT_CALLED"] = r
  OBVIOUS
<1>6. NoCommand.name = "none"
  BY <1>2
<1>7. n \in Texts => AskFor(n) \in Cmds
  BY <1>1 DEF Cmds, Command
<1>8. NoCommand \in Cmds
  BY <1>2 DEF Cmds, Command
<1>9. QED
  BY <1>3, <1>4, <1>5, <1>6, <1>7, <1>8

\* A status call among those for N.
LEMMA AsksFacts ==
  ASSUME NEW N, N \subseteq Texts, NEW cmd \in Asks(N)
  PROVE  /\ cmd.name \in N /\ cmd.name \in Texts /\ cmd = AskFor(cmd.name)
         /\ cmd # NoCommand /\ ~HasBopMask(cmd) /\ cmd \in Cmds
         /\ [cmd EXCEPT !.cip = "NOT_CALLED"] = cmd
<1>1. PICK n \in N : cmd = AskFor(n)
  BY DEF Asks
<1>2. n # "none" /\ n \in Texts
  BY TextNames
<1>3. QED
  BY <1>1, <1>2, AskFacts

\* A plain connection is one of the connections of the model.
LEMMA PlainTyped ==
  ASSUME NEW N, N \subseteq Texts, NEW c, Plain(c, N)
  PROVE  c \in Conns
<1>1. Asks(N) \subseteq Cmds /\ NoCommand \in Cmds
  BY AsksFacts, AskFacts
<1>2. c.queue \in Seq(Cmds)
  BY <1>1, SeqMonotonic DEF Plain, PlainConns
<1>3. QED
  BY <1>1, <1>2 DEF Plain, PlainConns, Conns, ConnectionRecord, ConnStates

\* sendMsg on an open connection.
LEMMA WritePlain ==
  ASSUME NEW N, NEW c, Plain(c, N), NEW m \in Texts
  PROVE  /\ Plain(sendMsg(c, m), N) /\ Alike(c, sendMsg(c, m))
         /\ sendMsg(c, m).out = Append(c.out, m)
<1> DEFINE d == sendMsg(c, m)
<1>1. c \in PlainConns(N) /\ HasSocket(c)
  BY DEF Plain, PlainConns, HasSocket
<1>2. d = [c EXCEPT !.out = Append(c.out, m)]
  BY <1>1 DEF sendMsg
<1>3. Append(c.out, m) \in Seq(Texts)
  BY <1>1 DEF PlainConns
<1> HIDE DEF d
<1>4. /\ d \in PlainConns(N) /\ d.out = Append(c.out, m) /\ d.running = c.running
      /\ d.queue = c.queue /\ d.bop = c.bop /\ d.status = c.status
  BY <1>1, <1>2, <1>3 DEF PlainConns
<1>5. QED
  BY <1>4 DEF Plain, Alike, d

\* What is left when a line has been read.
LEMMA RestPlain ==
  ASSUME NEW N, NEW c, Plain(c, N), c.out # << >>
  PROVE  /\ Plain(Rest(c), N) /\ Alike(c, Rest(c)) /\ Rest(c).out = Tail(c.out)
         /\ Head(c.out) \in Texts
<1>1. c \in PlainConns(N)
  BY DEF Plain
<1>2. Tail(c.out) \in Seq(Texts) /\ Head(c.out) \in Texts
  BY <1>1 DEF PlainConns
<1>3. Rest(c) = [c EXCEPT !.out = Tail(c.out)]
  BY DEF Rest
<1> DEFINE d == Rest(c)
<1> HIDE DEF d
<1>4. /\ d \in PlainConns(N) /\ d.out = Tail(c.out) /\ d.running = c.running
      /\ d.queue = c.queue /\ d.bop = c.bop /\ d.status = c.status
  BY <1>1, <1>2, <1>3 DEF PlainConns, d
<1>5. QED
  BY <1>2, <1>4 DEF Plain, Alike, d

\* sendCommand of a status call.
LEMMA SendPlain ==
  ASSUME NEW N, N \subseteq Texts, NEW c \in PlainConns(N), c.running \in Asks(N)
  PROVE  /\ Plain(sendCommand(c), N) /\ Alike(c, sendCommand(c))
         /\ sendCommand(c).out = Append(c.out, c.running.name)
<1> DEFINE d == sendCommand(c)
           m == sendMsg(c, c.running.name)
<1>1. /\ ~HasBopMask(c.running) /\ c.running.name \in Texts
      /\ [c.running EXCEPT !.cip = "NOT_CALLED"] = c.running
      /\ c.running # NoCommand
  BY AsksFacts
<1>2. d = Transmit(c, "NOT_CALLED")
  BY <1>1 DEF sendCommand
<1>3. HasSocket(c)
  BY DEF PlainConns, HasSocket
<1>4. m = [c EXCEPT !.out = Append(c.out, c.running.name)]
  BY <1>3 DEF sendMsg
<1>5. Append(c.out, c.running.name) \in Seq(Texts)
  BY <1>1 DEF PlainConns
<1>6. /\ m \in PlainConns(N) /\ m.out = Append(c.out, c.running.name)
      /\ m.running = c.running /\ m.queue = c.queue /\ m.bop = c.bop
  BY <1>4, <1>5 DEF PlainConns
<1>7. d = [m EXCEPT !.status = "SEND", !.running = [c.running EXCEPT !.cip = "NOT_CALLED"]]
  BY <1>2, <1>6 DEF Transmit, PlainConns
<1> HIDE DEF m, d
<1>8. d = [m EXCEPT !.status = "SEND", !.running = c.running]
  BY <1>1, <1>7
<1>9. /\ d \in PlainConns(N) /\ d.out = m.out /\ d.running = c.running
      /\ d.queue = m.queue /\ d.bop = m.bop /\ d.status = "SEND"
  BY <1>6, <1>8 DEF PlainConns
<1>10. QED
  BY <1>1, <1>6, <1>9 DEF Plain, Alike, d

\* queCommand of a status call: it is sent at once or waits for those before.
LEMMA QuePlain ==
  ASSUME NEW N, N \subseteq Texts, NEW c, Plain(c, N), NEW n \in N
  PROVE  LET d == queCommand(c, AskFor(n))
         IN  /\ Plain(d, N) /\ d.bop = c.bop
             /\ c.running # NoCommand => Behind(c, d, n)
             /\ c.running = NoCommand => AtOnce(c, d, n)
<1> DEFINE d == queCommand(c, AskFor(n))
<1>1. c \in PlainConns(N) /\ c.state = "open" /\ AskFor(n) \in Asks(N)
  BY DEF Plain, PlainConns, Asks
<1>2. CASE c.running # NoCommand
  <2>1. d = [c EXCEPT !.queue = Append(c.queue, AskFor(n))]
    BY <1>2 DEF queCommand
  <2>2. Append(c.queue, AskFor(n)) \in Seq(Asks(N))
    BY <1>1 DEF PlainConns
  <2> HIDE DEF d
  <2>3. /\ d \in PlainConns(N) /\ d.running = c.running /\ d.out = c.out
        /\ d.bop = c.bop /\ d.status = c.status
        /\ d.queue = Append(c.queue, AskFor(n))
    BY <1>1, <2>1, <2>2 DEF PlainConns
  <2>4. QED
    BY <1>2, <2>3 DEF Plain, Behind, d
<1>3. CASE c.running = NoCommand
  <2> DEFINE q == [c EXCEPT !.running = AskFor(n)]
  <2>1. d = sendCommand(q)
    BY <1>1, <1>3 DEF queCommand
  <2>2. /\ q \in PlainConns(N) /\ q.running = AskFor(n) /\ q.queue = c.queue
        /\ q.bop = c.bop /\ q.out = c.out
    BY <1>1 DEF PlainConns
  <2> HIDE DEF d, q
  <2>3. Plain(d, N) /\ Alike(q, d) /\ d.out = Append(q.out, q.running.name)
    BY <1>1, <2>1, <2>2, SendPlain
  <2>4. q.running.name = n /\ c.queue = << >>
    BY <1>3, <2>2, AskFacts DEF Plain
  <2>5. QED
    BY <1>3, <2>2, <2>3, <2>4 DEF Alike, AtOnce, Wrote, d
<1>4. QED
  BY <1>2, <1>3

\* commandReturn: the next status call is sent.
LEMMA ReturnPlain ==
  ASSUME NEW N, N \subseteq Texts, NEW c, Plain(c, N)
  PROVE  LET d == commandReturn(c)
         IN  /\ Plain(d, N) /\ d.bop = c.bop
             /\ c.queue = << >> =>
                  d.running = NoCommand /\ d.queue = << >> /\ d.out = c.out
             /\ c.queue # << >> =>
                  /\ d.running = Head(c.queue) /\ d.queue = Tail(c.queue)
                  /\ Head(c.queue) \in Asks(N)
                  /\ Wrote(c, d, Head(c.queue).name)
<1> DEFINE d == commandReturn(c)
           r == [c EXCEPT !.status = "RETURNING"]
<1>1. c \in PlainConns(N)
  BY DEF Plain
<1>2. /\ r \in PlainConns(N) /\ r.running = c.running /\ r.queue = c.queue
      /\ r.bop = c.bop /\ r.out = c.out
  BY <1>1 DEF PlainConns
<1>3. d = sendNextCommand(r)
  BY DEF commandReturn
<1> HIDE DEF d, r
<1>4. CASE c.queue = << >>
  <2>1. d = [r EXCEPT !.running = NoCommand]
    BY <1>2, <1>3, <1>4 DEF sendNextCommand
  <2>2. /\ d \in PlainConns(N) /\ d.running = NoCommand /\ d.queue = << >>
        /\ d.bop = c.bop /\ d.out = c.out
    BY <1>2, <1>4, <2>1 DEF PlainConns
  <2>3. QED
    BY <1>4, <2>2 DEF Plain, d
<1>5. CASE c.queue # << >>
  <2> DEFINE q == [r EXCEPT !.running = Head(r.queue), !.queue = Tail(r.queue)]
  <2>1. d = sendCommand(q)
    BY <1>2, <1>3, <1>5 DEF sendNextCommand
  <2>2. Head(r.queue) \in Asks(N) /\ Tail(r.queue) \in Seq(Asks(N))
    BY <1>2, <1>5 DEF PlainConns
  <2>3. /\ q \in PlainConns(N) /\ q.running = Head(c.queue)
        /\ q.queue = Tail(c.queue) /\ q.bop = c.bop /\ q.out = c.out
    BY <1>2, <2>2 DEF PlainConns
  <2> HIDE DEF q
  <2>4. Plain(d, N) /\ Alike(q, d) /\ d.out = Append(q.out, q.running.name)
    BY <1>2, <2>1, <2>2, <2>3, SendPlain
  <2>5. QED
    BY <1>2, <1>5, <2>2, <2>3, <2>4 DEF Alike, Wrote, d
<1>6. QED
  BY <1>4, <1>5

\* setBopState: no status call waits for the BOP state.
LEMMA BopPlain ==
  ASSUME NEW N, N \subseteq Texts, NEW c, Plain(c, N), NEW bits \in SUBSET {Bit}
  PROVE  LET d == setBopState(c, bits)
         IN  /\ Plain(d, N) /\ d.bop = bits /\ d.out = c.out
             /\ d.running = c.running /\ d.queue = c.queue
<1> DEFINE d == setBopState(c, bits)
           r == [c EXCEPT !.bop = bits]
<1>1. c \in PlainConns(N)
  BY DEF Plain
<1>2. /\ r \in PlainConns(N) /\ r.running = c.running /\ r.queue = c.queue
      /\ r.bop = bits /\ r.out = c.out /\ r.status = c.status
  BY <1>1 DEF PlainConns
<1>3. r.running.cip # "RUN"
  <2>1. CASE c.running = NoCommand
    BY <1>2, <2>1 DEF NoCommand, NewCommand
  <2>2. CASE c.running # NoCommand
    <3>1. c.running \in Asks(N)
      BY <1>1, <2>2 DEF PlainConns
    <3>2. PICK n \in N : c.running = AskFor(n)
      BY <3>1 DEF Asks
    <3>3. QED
      BY <1>2, <3>2 DEF AskFor, NewCommand
  <2>3. QED
    BY <2>1, <2>2
<1>4. d = r
  BY <1>3 DEF setBopState
<1> HIDE DEF d, r
<1>5. QED
  BY <1>2, <1>4 DEF Plain, d

\* A new connection carries nothing.
LEMMA NewPlain ==
  ASSUME NEW N
  PROVE  LET c == NewConnection("open")
         IN  /\ Plain(c, N) /\ c.running = NoCommand /\ c.queue = << >>
             /\ c.bop = {} /\ c.out = << >>
<1> DEFINE c == NewConnection("open")
<1>1. c = [state |-> "open", running |-> NoCommand, status |-> "RETURNING",
           queue |-> << >>, bop |-> {}, out |-> << >>]
  BY DEF NewConnection
<1>2. << >> \in Seq(Asks(N)) /\ << >> \in Seq(Texts) /\ {} \in SUBSET {Bit}
  OBVIOUS
<1> HIDE DEF c
<1>3. /\ c \in PlainConns(N) /\ c.running = NoCommand /\ c.queue = << >>
      /\ c.bop = {} /\ c.out = << >>
  BY <1>1, <1>2 DEF PlainConns
<1>4. QED
  BY <1>3 DEF Plain, c

-----------------------------------------------------------------------------
(***************************************************************************)
(* The connections of clients, whose commands have masks.                  *)
(***************************************************************************)
Named == Command(Texts, {Bit})

ClientConns ==
  [state: {"open"}, running: Named \cup {NoCommand},
   status: {"WAITING", "SEND", "RETURNING"},
   queue: Seq(Named), bop: SUBSET {Bit}, out: Seq(Texts)]

Progresses == {"NOT_CALLED", "WAIT", "RUN", "RETURN"}

\* Commands that have a name.
LEMMA NamedFacts ==
  /\ Named \subseteq Cmds /\ NoCommand \notin Named /\ NoCommand \in Cmds
  /\ DeviceStatus \in Named
  /\ NewCommand("run", {Bit}, FALSE) \in Named
  /\ \A cmd \in Named, p \in Progresses : [cmd EXCEPT !.cip = p] \in Named
  /\ \A cmd \in Named : cmd.name \in Texts
<1>1. Named \subseteq Cmds
  BY DEF Named, Cmds, Command
<1>2. \A cmd \in Named : cmd.name \in Texts
  BY DEF Named, Command
<1>3. NoCommand.name = "none"
  BY DEF NoCommand, NewCommand
<1>4. NoCommand \notin Named
  BY <1>2, <1>3, TextNames
<1>5. "run" \in Texts /\ "device_status" \in Texts
  BY DEF Texts
<1>6. DeviceStatus \in Named
  BY <1>5 DEF DeviceStatus, NewCommand, Named, Command
<1>7. NewCommand("run", {Bit}, FALSE) \in Named
  BY <1>5 DEF NewCommand, Named, Command
<1>8. \A cmd \in Named, p \in Progresses : [cmd EXCEPT !.cip = p] \in Named
  BY DEF Named, Command, Progresses
<1>9. QED
  BY <1>1, <1>2, <1>4, <1>6, <1>7, <1>8, AskFacts

\* The connection of a client is one of the connections of the model.
LEMMA ClientTyped ==
  ASSUME NEW c \in ClientConns
  PROVE  c \in Conns
<1>1. c.queue \in Seq(Cmds)
  BY NamedFacts, SeqMonotonic DEF ClientConns
<1>2. QED
  BY <1>1, NamedFacts DEF ClientConns, Conns, ConnectionRecord, ConnStates

\* A line is written on the connection of a client.
LEMMA WriteClient ==
  ASSUME NEW c \in ClientConns, NEW m \in Texts
  PROVE  /\ sendMsg(c, m) \in ClientConns /\ Alike(c, sendMsg(c, m))
         /\ sendMsg(c, m).out = Append(c.out, m)
<1>1. HasSocket(c)
  BY DEF ClientConns, HasSocket
<1>2. sendMsg(c, m) = [c EXCEPT !.out = Append(c.out, m)]
  BY <1>1 DEF sendMsg
<1>3. Append(c.out, m) \in Seq(Texts)
  BY DEF ClientConns
<1>4. QED
  BY <1>2, <1>3 DEF ClientConns, Alike

\* The running command is transmitted.
LEMMA TransmitClient ==
  ASSUME NEW c \in ClientConns, c.running \in Named, NEW p \in Progresses
  PROVE  Transmit(c, p) \in ClientConns /\ Transmit(c, p).bop = c.bop
<1> DEFINE m == sendMsg(c, c.running.name)
           r == [m.running EXCEPT !.cip = p]
<1>1. m \in ClientConns /\ m.running = c.running /\ m.bop = c.bop
  BY WriteClient, NamedFacts DEF Alike
<1>2. r \in Named
  BY <1>1, NamedFacts
<1>3. Transmit(c, p) = [m EXCEPT !.status = "SEND", !.running = r]
  BY DEF Transmit
<1> HIDE DEF m, r
<1>4. QED
  BY <1>1, <1>2, <1>3 DEF ClientConns

\* sendCommand, whatever the mask: the BOP state is not touched.
LEMMA SendClient ==
  ASSUME NEW c \in ClientConns, c.running \in Named
  PROVE  sendCommand(c) \in ClientConns /\ sendCommand(c).bop = c.bop
<1> DEFINE d == sendCommand(c)
<1>1. ASSUME NEW p \in Progresses, d = Transmit(c, p)
      PROVE  d \in ClientConns /\ d.bop = c.bop
  BY <1>1, TransmitClient
<1>2. ASSUME NEW r \in Named
      PROVE  /\ [c EXCEPT !.running = r] \in ClientConns
             /\ [c EXCEPT !.running = r].bop = c.bop
             /\ [c EXCEPT !.running = r, !.status = "WAITING"] \in ClientConns
             /\ [c EXCEPT !.running = r, !.status = "WAITING"].bop = c.bop
             /\ [c EXCEPT !.status = "WAITING"] \in ClientConns
             /\ [c EXCEPT !.status = "WAITING"].bop = c.bop
  BY DEF ClientConns
<1> DEFINE r == [c.running EXCEPT !.cip = "RUN"]
<1>3. r \in Named /\ [c.running EXCEPT !.cip = "WAIT"] \in Named
  BY NamedFacts DEF Progresses
<1>5. CASE ~HasBopMask(c.running)
  BY <1>1, <1>5 DEF sendCommand, Progresses
<1>6. CASE HasBopMask(c.running) /\ c.running.while
  <2>1. d = SendWhile(c)
    BY <1>6 DEF sendCommand
  <2>2. CASE ~Blocked(c)
    <3>1. d = [c EXCEPT !.running = r]
      BY <2>1, <2>2 DEF SendWhile, ClientConns
    <3> HIDE DEF d, r
    <3>2. d \in ClientConns /\ d.bop = c.bop
      BY <1>2, <1>3, <3>1
    <3>3. QED
      BY <3>2 DEF d
  <2>3. CASE Blocked(c) /\ c.running.cip = "WAIT"
    <3>1. d = [c EXCEPT !.status = "WAITING"]
      BY <2>1, <2>3 DEF SendWhile
    <3> HIDE DEF d, r
    <3>2. d \in ClientConns /\ d.bop = c.bop
      BY <1>2, <1>3, <3>1
    <3>3. QED
      BY <3>2 DEF d
  <2>4. CASE Blocked(c) /\ c.running.cip # "WAIT"
    BY <1>1, <2>1, <2>4 DEF SendWhile, Progresses
  <2>5. QED
    BY <2>2, <2>3, <2>4
<1>7. CASE HasBopMask(c.running) /\ ~c.running.while
  <2>1. d = SendBop(c)
    BY <1>7 DEF sendCommand
  <2>2. CASE c.running.cip = "NOT_CALLED"
    <3> DEFINE m == sendMsg(c, "device_status")
               w == [c.running EXCEPT !.cip = "WAIT"]
               q == <<w>> \o m.queue
    <3>1. d = [m EXCEPT !.queue = q, !.running = DeviceStatus, !.status = "SEND"]
      BY <2>1, <2>2 DEF SendBop
    <3>2. m \in ClientConns /\ m.bop = c.bop
      BY WriteClient DEF Alike, Texts
    <3> HIDE DEF m, w
    <3>3. q \in Seq(Named)
      BY <1>3, <3>2 DEF w, ClientConns
    <3> HIDE DEF q, d
    <3>4. d \in ClientConns /\ d.bop = m.bop
      BY <3>1, <3>2, <3>3, NamedFacts DEF ClientConns
    <3>5. QED
      BY <3>2, <3>4 DEF d
  <2>3. CASE c.running.cip \in {"WAIT", "RUN"} /\ Blocked(c)
    <3>1. d = [c EXCEPT !.running = r, !.status = "WAITING"]
      BY <2>1, <2>3 DEF SendBop, ClientConns
    <3> HIDE DEF d, r
    <3>2. d \in ClientConns /\ d.bop = c.bop
      BY <1>2, <1>3, <3>1
    <3>3. QED
      BY <3>2 DEF d
  <2>4. CASE c.running.cip \in {"WAIT", "RUN"} /\ ~Blocked(c)
    BY <1>1, <2>1, <2>4 DEF SendBop, Progresses
  <2>5. CASE c.running.cip \notin {"NOT_CALLED", "WAIT", "RUN"}
    BY <2>1, <2>5 DEF SendBop
  <2>6. QED
    BY <2>2, <2>3, <2>4, <2>5
<1>8. QED
  BY <1>5, <1>6, <1>7

\* commandReturn of a client.
LEMMA ReturnClient ==
  ASSUME NEW c \in ClientConns
  PROVE  commandReturn(c) \in ClientConns /\ commandReturn(c).bop = c.bop
<1> DEFINE d == commandReturn(c)
           r == [c EXCEPT !.status = "RETURNING"]
<1>1. /\ r \in ClientConns /\ r.queue = c.queue /\ r.bop = c.bop
  BY DEF ClientConns
<1>2. d = sendNextCommand(r)
  BY DEF commandReturn
<1> HIDE DEF d, r
<1>3. CASE r.queue = << >>
  <2>1. d = [r EXCEPT !.running = NoCommand]
    BY <1>2, <1>3 DEF sendNextCommand
  <2>2. d \in ClientConns /\ d.bop = r.bop
    BY <1>1, <2>1 DEF ClientConns
  <2>3. QED
    BY <1>1, <2>2 DEF d
<1>4. CASE r.queue # << >>
  <2> DEFINE q == [r EXCEPT !.running = Head(r.queue), !.queue = Tail(r.queue)]
  <2>1. d = sendCommand(q)
    BY <1>2, <1>4 DEF sendNextCommand
  <2>2. Head(r.queue) \in Named /\ Tail(r.queue) \in Seq(Named)
    BY <1>1, <1>4 DEF ClientConns
  <2>3. q \in ClientConns /\ q.running \in Named /\ q.bop = r.bop
    BY <1>1, <2>2 DEF ClientConns
  <2> HIDE DEF q
  <2>4. QED
    BY <1>1, <2>1, <2>3, SendClient DEF d
<1>5. QED
  BY <1>3, <1>4

\* queCommand of a client.
LEMMA QueClient ==
  ASSUME NEW c \in ClientConns, NEW cmd \in Named
  PROVE  queCommand(c, cmd) \in ClientConns /\ queCommand(c, cmd).bop = c.bop
<1>1. c.state = "open"
  BY DEF ClientConns
<1>2. CASE c.running # NoCommand
  <2>1. queCommand(c, cmd) = [c EXCEPT !.queue = Append(c.queue, cmd)]
    BY <1>2 DEF queCommand
  <2>2. Append(c.queue, cmd) \in Seq(Named)
    BY DEF ClientConns
  <2>3. QED
    BY <2>1, <2>2 DEF ClientConns
<1>3. CASE c.running = NoCommand
  <2> DEFINE q == [c EXCEPT !.running = cmd]
  <2>1. queCommand(c, cmd) = sendCommand(q)
    BY <1>1, <1>3 DEF queCommand
  <2>2. q \in ClientConns /\ q.running \in Named /\ q.bop = c.bop
    BY DEF ClientConns
  <2> HIDE DEF q
  <2>3. QED
    BY <2>1, <2>2, SendClient
<1>4. QED
  BY <1>2, <1>3

\* setBopState of a client: a command that waits is tried again.
LEMMA BopClient ==
  ASSUME NEW c \in ClientConns, NEW bits \in SUBSET {Bit}
  PROVE  setBopState(c, bits) \in ClientConns /\ setBopState(c, bits).bop = bits
<1> DEFINE r == [c EXCEPT !.bop = bits]
<1>1. r \in ClientConns /\ r.bop = bits /\ r.running = c.running
  BY DEF ClientConns
<1> HIDE DEF r
<1>2. CASE r.running.cip = "RUN"
  <2>1. r.running # NoCommand
    BY <1>2 DEF NoCommand, NewCommand
  <2>2. r.running \in Named
    BY <1>1, <2>1 DEF ClientConns
  <2>3. setBopState(c, bits) = sendCommand(r)
    BY <1>2 DEF setBopState, r
  <2>4. QED
    BY <1>1, <2>2, <2>3, SendClient
<1>3. CASE r.running.cip # "RUN"
  <2>1. setBopState(c, bits) = r
    BY <1>3 DEF setBopState, r
  <2>2. QED
    BY <1>1, <2>1
<1>4. QED
  BY <1>2, <1>3

\* What is left of a client's lines when one has been read.
LEMMA RestClient ==
  ASSUME NEW c \in ClientConns, c.out # << >>
  PROVE  Rest(c) \in ClientConns /\ Rest(c).bop = c.bop
<1>1. Tail(c.out) \in Seq(Texts)
  BY DEF ClientConns
<1>2. Rest(c) = [c EXCEPT !.out = Tail(c.out)]
  BY DEF Rest
<1>3. QED
  BY <1>1, <1>2 DEF ClientConns

\* A new connection.
LEMMA NewClient ==
  NewConnection("open") \in ClientConns /\ NewConnection("open").bop = {}
<1>1. << >> \in Seq(Named) /\ << >> \in Seq(Texts) /\ {} \in SUBSET {Bit}
  OBVIOUS
<1>2. QED
  BY <1>1 DEF NewConnection, ClientConns

-----------------------------------------------------------------------------
(***************************************************************************)
(* What a connection of centrald holds on behalf of device a.              *)
(***************************************************************************)
Queues(c, a) == \E i \in DOMAIN c.queue : c.queue[i] = AskFor(a)

Holds(c, a) == c.running = AskFor(a) \/ Queues(c, a)

\* No device is asked twice for the same round.
Once(c, a) ==
  /\ \A i, j \in DOMAIN c.queue :
       c.queue[i] = AskFor(a) /\ c.queue[j] = AskFor(a) => i = j
  /\ ~(c.running = AskFor(a) /\ Queues(c, a))

\* Status calls differ by their names.
LEMMA AskInjective ==
  ASSUME NEW a, NEW b, AskFor(a) = AskFor(b)
  PROVE  a = b
BY AskFacts

\* A connection with the same commands holds the same.
LEMMA AlikeHolds ==
  ASSUME NEW c, NEW d, Alike(c, d), NEW a
  PROVE  /\ Holds(d, a) <=> Holds(c, a)
         /\ Queues(d, a) <=> Queues(c, a)
         /\ Once(c, a) => Once(d, a)
BY DEF Alike, Holds, Queues, Once

\* queEmptyForOriginator tells what the connection holds.
LEMMA PendingIsHolds ==
  ASSUME NEW N, NEW c, Plain(c, N), NEW a \in Devices
  PROVE  PendingOn(c, a) <=> Holds(c, a)
<1>1. AskFor(a) # NoCommand
  BY TextNames, AskFacts
<1>2. c.running = AskFor(a) => c.status = "SEND"
  BY <1>1 DEF Plain
<1>3. QED
  BY <1>2 DEF PendingOn, Holds, Queues

\* Asked once more, the connection holds one more.
LEMMA QueHolds ==
  ASSUME NEW N, N \subseteq Texts, NEW c, Plain(c, N), NEW n \in N,
         NEW a \in Devices
  PROVE  LET d == queCommand(c, AskFor(n))
         IN  /\ Holds(d, a) <=> Holds(c, a) \/ a = n
             /\ Queues(c, a) => Queues(d, a)
             /\ Once(c, a) /\ (a = n => ~Holds(c, a)) => Once(d, a)
<1> DEFINE d == queCommand(c, AskFor(n))
           q == Append(c.queue, AskFor(n))
<1>1. c.queue \in Seq(Asks(N)) /\ AskFor(n) \in Asks(N) /\ AskFor(n) # NoCommand
  BY TextNames, AskFacts DEF Plain, PlainConns, Asks
<1>2. a = n <=> AskFor(a) = AskFor(n)
  BY AskInjective
<1>3. CASE c.running # NoCommand
  <2>1. d.running = c.running /\ d.queue = q
    BY <1>3, QuePlain DEF Behind
  <2>2. /\ DOMAIN q = 1 .. Len(c.queue) + 1 /\ DOMAIN c.queue = 1 .. Len(c.queue)
        /\ Len(c.queue) \in Nat
        /\ \A i \in 1 .. Len(c.queue) : q[i] = c.queue[i]
        /\ q[Len(c.queue) + 1] = AskFor(n)
    BY <1>1
  <2> HIDE DEF q, d
  <2>3. Queues(d, a) <=> Queues(c, a) \/ a = n
    BY <1>2, <2>1, <2>2 DEF Queues
  <2>4. ASSUME Once(c, a), a = n => ~Holds(c, a) PROVE Once(d, a)
    <3>1. ASSUME a = n PROVE Once(d, a)
      <4>1. \A i \in DOMAIN c.queue : c.queue[i] # AskFor(a)
        BY <2>4, <3>1 DEF Holds, Queues
      <4>2. c.running # AskFor(a)
        BY <2>4, <3>1 DEF Holds
      <4>3. QED
        BY <2>1, <2>2, <4>1, <4>2 DEF Once
    <3>2. ASSUME a # n PROVE Once(d, a)
      <4>1. \A i \in DOMAIN q : q[i] = AskFor(a) =>
              i \in DOMAIN c.queue /\ c.queue[i] = AskFor(a)
        BY <1>2, <2>2, <3>2
      <4>2. QED
        BY <2>1, <2>3, <2>4, <3>2, <4>1 DEF Once
    <3>3. QED
      BY <3>1, <3>2
  <2>5. QED
    BY <2>1, <2>3, <2>4 DEF Holds, d
<1>4. CASE c.running = NoCommand
  <2>1. d.running = AskFor(n) /\ d.queue = << >> /\ c.queue = << >>
    BY <1>4, QuePlain DEF AtOnce, Plain
  <2> HIDE DEF d
  <2>2. ~Queues(d, a) /\ ~Queues(c, a)
    BY <2>1 DEF Queues
  <2>3. c.running # AskFor(a)
    BY <1>4, TextNames, AskFacts
  <2>4. Once(d, a)
    BY <2>1, <2>2 DEF Once
  <2>5. QED
    BY <1>2, <2>1, <2>2, <2>3, <2>4 DEF Holds, d
<1>5. QED
  BY <1>3, <1>4

\* A return is for the running command, which is held no more.
LEMMA ReturnHolds ==
  ASSUME NEW N, N \subseteq Texts, NEW c, Plain(c, N), NEW a \in Devices
  PROVE  LET d == commandReturn(c)
         IN  /\ Holds(d, a) <=> Queues(c, a)
             /\ Once(c, a) => Once(d, a)
             /\ Once(c, a) /\ c.running = AskFor(a) => ~Queues(c, a)
             /\ d.running # AskFor(a) => (Queues(d, a) <=> Queues(c, a))
<1> DEFINE d == commandReturn(c)
<1>1. c.queue \in Seq(Asks(N)) /\ AskFor(a) # NoCommand
  BY TextNames, AskFacts DEF Plain, PlainConns
<1>2. Once(c, a) /\ c.running = AskFor(a) => ~Queues(c, a)
  BY DEF Once
<1>3. CASE c.queue = << >>
  <2>1. d.running = NoCommand /\ d.queue = << >>
    BY <1>3, ReturnPlain
  <2> HIDE DEF d
  <2>2. ~Queues(d, a) /\ ~Queues(c, a)
    BY <1>3, <2>1 DEF Queues
  <2>3. Once(d, a)
    BY <2>1, <2>2 DEF Once
  <2>4. QED
    BY <1>1, <1>2, <2>1, <2>2, <2>3 DEF Holds, d
<1>4. CASE c.queue # << >>
  <2> DEFINE q == c.queue
             t == Tail(c.queue)
  <2>1. d.running = q[1] /\ d.queue = t
    BY <1>1, <1>4, ReturnPlain
  <2>2. /\ Len(q) \in Nat \ {0} /\ DOMAIN q = 1 .. Len(q)
        /\ DOMAIN t = 1 .. Len(q) - 1
        /\ \A i \in 1 .. Len(q) - 1 : t[i] = q[i + 1]
    BY <1>1, <1>4
  <2> HIDE DEF d, t
  <2>3. Queues(d, a) => \E i \in DOMAIN q : q[i] = AskFor(a) /\ i # 1
    <3> SUFFICES ASSUME NEW i \in DOMAIN t, t[i] = AskFor(a)
                 PROVE  \E j \in DOMAIN q : q[j] = AskFor(a) /\ j # 1
      BY <2>1 DEF Queues
    <3>1. i + 1 \in DOMAIN q /\ q[i + 1] = AskFor(a) /\ i + 1 # 1
      BY <2>2
    <3>2. QED
      BY <3>1
  <2>4. Queues(c, a) => q[1] = AskFor(a) \/ Queues(d, a)
    <3> SUFFICES ASSUME NEW i \in DOMAIN q, q[i] = AskFor(a), q[1] # AskFor(a)
                 PROVE  \E j \in DOMAIN t : t[j] = AskFor(a)
      BY <2>1 DEF Queues
    <3>1. i - 1 \in DOMAIN t /\ t[i - 1] = AskFor(a)
      BY <2>2
    <3>2. QED
      BY <3>1
  <2>5. Holds(d, a) <=> Queues(c, a)
    BY <2>1, <2>2, <2>3, <2>4 DEF Holds, Queues
  <2>6. ASSUME Once(c, a) PROVE Once(d, a)
    <3>1. ASSUME NEW i \in DOMAIN t, NEW j \in DOMAIN t,
                 t[i] = AskFor(a), t[j] = AskFor(a)
          PROVE  i = j
      <4>1. /\ i + 1 \in DOMAIN q /\ j + 1 \in DOMAIN q
            /\ q[i + 1] = AskFor(a) /\ q[j + 1] = AskFor(a)
        BY <2>2, <3>1
      <4>2. i + 1 = j + 1
        BY <2>6, <4>1 DEF Once
      <4>3. QED
        BY <2>2, <4>2
    <3>2. ~(d.running = AskFor(a) /\ Queues(d, a))
      BY <2>1, <2>2, <2>3, <2>6 DEF Once
    <3>3. QED
      BY <2>1, <3>1, <3>2 DEF Once
  <2>7. d.running # AskFor(a) => (Queues(d, a) <=> Queues(c, a))
    BY <2>1, <2>3, <2>4 DEF Queues
  <2>8. QED
    BY <1>2, <2>5, <2>6, <2>7 DEF d
<1>5. QED
  BY <1>3, <1>4

\* A new connection holds nothing.
LEMMA NewHolds ==
  ASSUME NEW s, NEW a \in Devices
  PROVE  /\ ~Holds(NewConnection(s), a) /\ Once(NewConnection(s), a)
         /\ ~Queues(NewConnection(s), a)
<1>1. AskFor(a) # NoCommand
  BY TextNames, AskFacts
<1>2. NewConnection(s).running = NoCommand /\ NewConnection(s).queue = << >>
  BY DEF NewConnection
<1>3. QED
  BY <1>1, <1>2 DEF Holds, Queues, Once

\* Block::deleteConnection: what was asked for the lost device b is asked for
\* nobody, and all else stays as it was.
LEMMA OrphanHolds ==
  ASSUME NEW N, N \subseteq Askers, "orphan" \in N, NEW c, Plain(c, N),
         NEW b \in Devices
  PROVE  LET d == Orphan(c, b)
         IN  /\ Plain(d, N) /\ d.bop = c.bop /\ d.out = c.out
             /\ d.running = NoCommand <=> c.running = NoCommand
             /\ \A a \in Devices :
                  /\ d.running = AskFor(a) <=> c.running = AskFor(a) /\ a # b
                  /\ Holds(d, a) <=> Holds(c, a) /\ a # b
                  /\ Queues(d, a) <=> Queues(c, a) /\ a # b
                  /\ Once(c, a) => Once(d, a)
<1> DEFINE o(cmd) == IF cmd = AskFor(b) THEN AskFor("orphan") ELSE cmd
           q == [i \in DOMAIN c.queue |-> o(c.queue[i])]
           d == Orphan(c, b)
<1>1. /\ c \in PlainConns(N) /\ c.queue \in Seq(Asks(N))
      /\ AskFor("orphan") \in Asks(N) /\ AskFor("orphan") # NoCommand
      /\ AskFor(b) # NoCommand /\ N \subseteq Texts
  BY TextNames, AskFacts DEF Plain, PlainConns, Asks
<1>2. d = [c EXCEPT !.running = o(c.running), !.queue = q]
  BY <1>1 DEF Orphan, PlainConns
<1>3. /\ DOMAIN c.queue = 1 .. Len(c.queue) /\ Len(c.queue) \in Nat
      /\ \A i \in DOMAIN c.queue : c.queue[i] \in Asks(N)
  BY <1>1
<1>4. q \in Seq(Asks(N))
  BY <1>1, <1>3
<1>5. o(c.running) \in Asks(N) \cup {NoCommand}
      /\ (o(c.running) = NoCommand <=> c.running = NoCommand)
  BY <1>1 DEF PlainConns
<1>6. \A a \in Devices : \A cmd : o(cmd) = AskFor(a) <=> cmd = AskFor(a) /\ a # b
  BY AskInjective, TextNames
<1>7. DOMAIN q = DOMAIN c.queue /\ \A i \in DOMAIN c.queue : q[i] = o(c.queue[i])
  OBVIOUS
<1>8. c.queue = << >> => q = << >>
  BY <1>3
<1> HIDE DEF q, d, o
<1>9. /\ d \in PlainConns(N) /\ d.running = o(c.running) /\ d.queue = q
      /\ d.bop = c.bop /\ d.out = c.out /\ d.status = c.status
  BY <1>1, <1>2, <1>4, <1>5 DEF PlainConns
<1>10. Plain(d, N)
  BY <1>5, <1>8, <1>9 DEF Plain
<1>11. ASSUME NEW a \in Devices
       PROVE  /\ d.running = AskFor(a) <=> c.running = AskFor(a) /\ a # b
              /\ Holds(d, a) <=> Holds(c, a) /\ a # b
              /\ Queues(d, a) <=> Queues(c, a) /\ a # b
              /\ Once(c, a) => Once(d, a)
  <2>1. d.running = AskFor(a) <=> c.running = AskFor(a) /\ a # b
    BY <1>6, <1>9
  <2>2. \A i \in DOMAIN c.queue : q[i] = AskFor(a) <=> c.queue[i] = AskFor(a) /\ a # b
    BY <1>6, <1>7
  <2>3. Queues(d, a) <=> Queues(c, a) /\ a # b
    BY <1>7, <1>9, <2>2 DEF Queues
  <2>4. Once(c, a) => Once(d, a)
    BY <1>7, <1>9, <2>1, <2>2, <2>3 DEF Once
  <2>5. QED
    BY <2>1, <2>3, <2>4 DEF Holds
<1>12. QED
  BY <1>5, <1>9, <1>10, <1>11 DEF d

-----------------------------------------------------------------------------
(***************************************************************************)
(* The inductive invariant of the rounds.                                  *)
(***************************************************************************)
ITypes ==
  /\ TypeOK
  /\ conn \in [Clients -> ClientConns] /\ runs \in [Clients -> Nat]

\* Both connections of a listed device are open and have no masks; centrald
\* never asks a device on its own behalf.
Linked ==
  \A d \in listed : /\ Plain(master[d], {"status_info"})
                    /\ Plain(peer[d], Askers \ {d})

\* What centrald asks on behalf of a device is for a round that it counts.
Asked ==
  \A e \in listed, a \in Devices :
    /\ Once(peer[e], a)
    /\ Holds(peer[e], a) => a \in listed /\ waits[a] > 0

\* A round that is counted is owed by somebody.
Owed ==
  \A a \in listed : waits[a] > 0 => \E e \in listed : Holds(peer[e], a)

\* Rounds on their way to centrald, counted there, and on their way back.
Balance(d) ==
  Count(master[d].out, "status_info") + waits[d] + Count(peer[d].out, "+0")

Balanced ==
  \A d \in listed :
    /\ Balance(d) <= 1
    /\ d \in alive => Balance(d) = IF master[d].running = NoCommand THEN 0 ELSE 1

IInv == ITypes /\ Linked /\ Asked /\ Owed /\ Balanced

\* The texts of the two sides of a link.
LEMMA SideTexts ==
  /\ {"status_info"} \subseteq Texts
  /\ \A d : Askers \ {d} \subseteq Texts
BY TextNames

\* Counting one text while lines are written and read.
LEMMA CountFacts ==
  ASSUME NEW m
  PROVE  /\ Count(<< >>, m) = 0
         /\ \A s \in Seq(Texts) :
              /\ Count(s, m) \in Nat
              /\ \A e \in Texts : Count(Append(s, e), m)
                                   = Count(s, m) + (IF e = m THEN 1 ELSE 0)
              /\ s # << >> => Count(s, m) = Count(Tail(s), m)
                                            + (IF Head(s) = m THEN 1 ELSE 0)
<1>1. \A e : e \in {m} <=> e = m
  OBVIOUS
<1>2. Count(<< >>, m) = 0
  BY CountIsAmong, AmongEmpty
<1>3. ASSUME NEW s \in Seq(Texts)
      PROVE  /\ Count(s, m) \in Nat
             /\ \A e \in Texts : Count(Append(s, e), m)
                                  = Count(s, m) + (IF e = m THEN 1 ELSE 0)
             /\ s # << >> => Count(s, m) = Count(Tail(s), m)
                                           + (IF Head(s) = m THEN 1 ELSE 0)
  <2>1. \A t : Count(t, m) = Among(t, {m})
    BY CountIsAmong
  <2>2. Count(s, m) \in Nat
    BY <2>1, PlacesFinite
  <2>3. \A e \in Texts : Count(Append(s, e), m)
                         = Count(s, m) + (IF e = m THEN 1 ELSE 0)
    BY <1>1, <2>1, AmongAppend
  <2>4. s # << >> => Count(s, m) = Count(Tail(s), m)
                                  + (IF Head(s) = m THEN 1 ELSE 0)
    BY <1>1, <2>1, AmongTail
  <2>5. QED
    BY <2>2, <2>3, <2>4
<1>4. QED
  BY <1>2, <1>3

\* Other lines do not matter.
LEMMA CountOther ==
  ASSUME NEW s \in Seq(Texts), NEW e \in Texts, NEW m, e # m
  PROVE  Append(s, e) \in Seq(Texts) /\ Count(Append(s, e), m) = Count(s, m)
<1>1. Append(s, e) \in Seq(Texts)
  OBVIOUS
<1>2. Count(s, m) \in Nat
  BY CountFacts
<1>3. Count(Append(s, e), m) = Count(s, m) + (IF e = m THEN 1 ELSE 0)
  BY CountFacts
<1>4. QED
  BY <1>1, <1>2, <1>3

\* A line that does is counted.
LEMMA CountOne ==
  ASSUME NEW s \in Seq(Texts), NEW m \in Texts
  PROVE  Append(s, m) \in Seq(Texts) /\ Count(Append(s, m), m) = Count(s, m) + 1
<1>1. Append(s, m) \in Seq(Texts)
  OBVIOUS
<1>2. Count(Append(s, m), m) = Count(s, m) + (IF m = m THEN 1 ELSE 0)
  BY CountFacts
<1>3. QED
  BY <1>1, <1>2

\* The types of what only cameras have.
CameraTyped ==
  reading \subseteq Cameras /\ held \subseteq Cameras /\ overwritten \subseteq Cameras

LEMMA CameraKept ==
  ASSUME CameraTyped, UNCHANGED camera
  PROVE  CameraTyped'
BY DEF CameraTyped, camera

\* What the invariant says of the types, in the form the steps need.
LEMMA Types ==
  ASSUME IInv
  PROVE  /\ conn \in [Clients -> ClientConns]
         /\ toClient \in [Clients -> Seq(Texts)]
         /\ master \in [Devices -> Conns] /\ peer \in [Devices -> Conns]
         /\ listed \subseteq Devices /\ alive \subseteq listed
         /\ word \in [Devices -> BOOLEAN] /\ busy \in [Devices -> BOOLEAN]
         /\ waits \in [Devices -> Nat]
         /\ owner \in [Devices -> Clients \cup {NoClient}]
         /\ since \in [Devices -> SUBSET Devices]
         /\ CameraTyped
         /\ runs \in [Clients -> Nat]
         /\ \A x \in Clients : runs[x] \in 0 .. MaxRuns[x]
         /\ \A d \in Devices : /\ master[d].out \in Seq(Texts)
                                /\ peer[d].out \in Seq(Texts)
<1>1. \A c \in Conns : c.out \in Seq(Texts)
  BY DEF Conns, ConnectionRecord
<1>2. QED
  BY <1>1 DEF IInv, ITypes, TypeOK, CameraTyped

\* Initially nothing is under way.
LEMMA InitIInv == Init => IInv
<1> SUFFICES ASSUME Init PROVE IInv
  OBVIOUS
<1> DEFINE new == NewConnection("open")
<1>1. \A d \in Devices : Plain(new, {"status_info"}) /\ Plain(new, Askers \ {d})
  BY NewPlain
<1>2. new \in Conns /\ new.out = << >> /\ new.running = NoCommand
  <2>1. Plain(new, {"status_info"}) /\ new.out = << >> /\ new.running = NoCommand
    BY NewPlain
  <2>2. QED
    BY <2>1, SideTexts, PlainTyped
<1>3. new \in ClientConns
  BY NewClient
<1>4. \A a \in Devices : ~Holds(new, a) /\ Once(new, a)
  BY NewHolds
<1> HIDE DEF new
<1>5. /\ conn = [x \in Clients |-> new] /\ master = [d \in Devices |-> new]
      /\ peer = [d \in Devices |-> new]
      /\ toClient = [x \in Clients |-> << >>]
      /\ busy = [d \in Devices |-> FALSE] /\ word = [d \in Devices |-> FALSE]
      /\ listed = Devices /\ alive = Devices
      /\ waits = [d \in Devices |-> 0]
      /\ owner = [d \in Devices |-> NoClient]
      /\ since = [d \in Devices |-> {}]
      /\ runs = [x \in Clients |-> 0]
      /\ reading = {} /\ held = {} /\ overwritten = {}
  BY DEF Init, new
<1>6. ITypes
  <2>1. new \in Conns /\ conn \in [Clients -> Conns]
    BY <1>2, <1>5
  <2>2. << >> \in Seq(Texts)
    OBVIOUS
  <2>3. \A x \in Clients : runs[x] \in 0 .. MaxRuns[x]
    BY <1>5, MaxRunsAssumption
  <2>4. QED
    BY <1>3, <1>5, <2>1, <2>2, <2>3 DEF ITypes, TypeOK
<1>7. Linked
  BY <1>1, <1>5 DEF Linked
<1>8. Asked
  BY <1>4, <1>5 DEF Asked
<1>9. Owed
  BY <1>5 DEF Owed
<1>10. Balanced
  BY <1>2, <1>5, CountFacts DEF Balanced, Balance
<1>11. QED
  BY <1>6, <1>7, <1>8, <1>9, <1>10 DEF IInv

-----------------------------------------------------------------------------
(***************************************************************************)
(* Steps of clients and devices.                                           *)
(***************************************************************************)
\* A step of the living device d that changes at most its own connections,
\* and leaves to centrald's what it holds.
LEMMA DeviceStep ==
  ASSUME IInv, NEW d \in alive, NEW m, NEW p,
         master' = [master EXCEPT ![d] = m], peer' = [peer EXCEPT ![d] = p],
         Plain(m, {"status_info"}), Plain(p, Askers \ {d}), Alike(peer[d], p),
         UNCHANGED <<listed, alive, waits>>,
         Count(m.out, "status_info") + waits[d] + Count(p.out, "+0")
           = IF m.running = NoCommand THEN 0 ELSE 1
  PROVE  /\ Linked' /\ Asked' /\ Owed' /\ Balanced'
         /\ master' \in [Devices -> Conns] /\ peer' \in [Devices -> Conns]
<1>1. d \in listed /\ d \in Devices /\ listed \subseteq Devices
  BY Types
<1>2. /\ \A e \in Devices : master'[e] = IF e = d THEN m ELSE master[e]
      /\ \A e \in Devices : peer'[e] = IF e = d THEN p ELSE peer[e]
  BY Types
<1>3. m \in Conns /\ p \in Conns
  BY SideTexts, PlainTyped
<1>4. master' \in [Devices -> Conns] /\ peer' \in [Devices -> Conns]
  BY <1>3, Types
<1>5. Linked'
  BY <1>1, <1>2 DEF IInv, Linked
<1>6. \A e \in listed, a \in Devices :
        /\ Holds(peer'[e], a) <=> Holds(peer[e], a)
        /\ Once(peer[e], a) => Once(peer'[e], a)
  BY <1>1, <1>2, AlikeHolds
<1>7. Asked'
  BY <1>6 DEF IInv, Asked
<1>8. Owed'
  BY <1>1, <1>6 DEF IInv, Owed
<1>9. Balanced'
  BY <1>1, <1>2 DEF IInv, Balanced, Balance
<1>10. QED
  BY <1>4, <1>5, <1>7, <1>8, <1>9

\* The types of the next state, part by part.
LEMMA NextTypes ==
  ASSUME conn' \in [Clients -> ClientConns],
         toClient' \in [Clients -> Seq(Texts)],
         master' \in [Devices -> Conns], peer' \in [Devices -> Conns],
         listed' \subseteq Devices, alive' \subseteq listed',
         word' \in [Devices -> BOOLEAN], busy' \in [Devices -> BOOLEAN],
         waits' \in [Devices -> Nat],
         owner' \in [Devices -> Clients \cup {NoClient}],
         since' \in [Devices -> SUBSET Devices], CameraTyped',
         runs' \in [Clients -> Nat], \A x \in Clients : runs'[x] \in 0 .. MaxRuns[x]
  PROVE  ITypes'
<1>1. conn' \in [Clients -> Conns]
  BY ClientTyped
<1>2. QED
  BY <1>1 DEF ITypes, TypeOK, CameraTyped

\* When the two sides of every link stay as they are, so does the round.
LEMMA RoundUnchanged ==
  ASSUME IInv, UNCHANGED <<master, peer, listed, alive, waits>>
  PROVE  Linked' /\ Asked' /\ Owed' /\ Balanced'
BY DEF IInv, Linked, Asked, Owed, Balanced, Balance

\* A client queues a command.
LEMMA ClientQueuesInv ==
  ASSUME IInv, NEW x \in Clients, ClientQueues(x)
  PROVE  IInv'
<1> DEFINE cmd == NewCommand("run", {Bit}, FALSE)
<1>1. queCommand(conn[x], cmd) \in ClientConns
  BY Types, NamedFacts, QueClient
<1>2. conn' = [conn EXCEPT ![x] = queCommand(conn[x], cmd)]
  BY DEF ClientQueues
<1> HIDE DEF cmd
<1>3. conn' \in [Clients -> ClientConns]
  BY <1>1, <1>2, Types
<1>4. /\ runs' \in [Clients -> Nat]
      /\ \A y \in Clients : runs'[y] \in 0 .. MaxRuns[y]
  <2>1. /\ runs' = [runs EXCEPT ![x] = runs[x] + 1] /\ runs[x] < MaxRuns[x]
        /\ runs[x] \in Nat /\ MaxRuns[x] \in Nat
    BY Types, MaxRunsAssumption DEF ClientQueues
  <2>2. \A y \in Clients : runs'[y] = IF y = x THEN runs[x] + 1 ELSE runs[y]
    BY <2>1, Types
  <2>3. QED
    BY <2>1, <2>2, Types
<1>5. UNCHANGED <<toClient, master, peer, listed, word, waits, owner, busy,
                  camera, alive, since>>
  BY DEF ClientQueues
<1>6. ITypes'
  BY <1>3, <1>4, <1>5, Types, CameraKept, NextTypes
<1>7. QED
  BY <1>5, <1>6, RoundUnchanged DEF IInv

\* A client reads a BOP state or a return.
LEMMA ClientReadsInv ==
  ASSUME IInv, NEW x \in Clients, ClientReads(x)
  PROVE  IInv'
<1> DEFINE c == conn[x]
           m == Head(toClient[x])
           d == IF m # "+0" THEN setBopState(c, BitsIn(m))
                ELSE IF c.running = NoCommand THEN c ELSE commandReturn(c)
<1>1. c \in ClientConns
  BY Types
<1>2. d \in ClientConns
  <2>1. CASE m # "+0"
    <3>1. BitsIn(m) \in SUBSET {Bit}
      BY DEF BitsIn
    <3>2. setBopState(c, BitsIn(m)) \in ClientConns
      BY <1>1, <3>1, BopClient
    <3>3. QED
      BY <2>1, <3>2
  <2>2. CASE m = "+0" /\ c.running = NoCommand
    BY <1>1, <2>2
  <2>3. CASE m = "+0" /\ c.running # NoCommand
    <3>1. commandReturn(c) \in ClientConns
      BY <1>1, ReturnClient
    <3>2. QED
      BY <2>3, <3>1
  <2>4. QED
    BY <2>1, <2>2, <2>3
<1>3. conn' = [conn EXCEPT ![x] = d]
  BY DEF ClientReads
<1>4. /\ toClient' = [toClient EXCEPT ![x] = Tail(toClient[x])]
      /\ toClient[x] # << >>
      /\ UNCHANGED <<master, peer, listed, word, waits, owner, busy, camera,
                     alive, since, runs>>
  BY DEF ClientReads
<1> HIDE DEF d
<1>5. conn' \in [Clients -> ClientConns]
  BY <1>2, <1>3, Types
<1>6. toClient' \in [Clients -> Seq(Texts)]
  <2>1. Tail(toClient[x]) \in Seq(Texts)
    BY <1>4, Types
  <2>2. QED
    BY <1>4, <2>1, Types
<1>7. ITypes'
  BY <1>4, <1>5, <1>6, Types, CameraKept, NextTypes
<1>8. QED
  BY <1>4, <1>7, RoundUnchanged DEF IInv

\* A device asks centrald for its status, or queues behind an earlier round.
LEMMA QueStatus ==
  ASSUME NEW c, Plain(c, {"status_info"})
  PROVE  LET m == queCommand(c, AskFor("status_info"))
         IN  /\ Plain(m, {"status_info"}) /\ m.running # NoCommand
             /\ m.bop = c.bop
             /\ m.out = IF c.running = NoCommand
                        THEN Append(c.out, "status_info") ELSE c.out
<1> DEFINE N == {"status_info"}
           si == "status_info"
           m == queCommand(c, AskFor(si))
<1>1. si \in N /\ N \subseteq Texts /\ Plain(c, N) /\ AskFor(si) # NoCommand
  BY SideTexts, AskFacts
<1> HIDE DEF N, si
<1>2. Plain(m, N) /\ m.bop = c.bop
  BY <1>1, QuePlain
<1>3. c.running # NoCommand => Behind(c, m, si)
  BY <1>1, QuePlain
<1>4. c.running = NoCommand => AtOnce(c, m, si)
  BY <1>1, QuePlain
<1> HIDE DEF m
<1>5. /\ m.running # NoCommand
      /\ m.out = IF c.running = NoCommand THEN Append(c.out, si) ELSE c.out
  BY <1>1, <1>3, <1>4 DEF Behind, AtOnce, Wrote
<1>6. QED
  BY <1>2, <1>5 DEF m, N, si

\* Device::queDeviceStatusCommand begins a round or queues behind one.
LEMMA AsksStatusEffect ==
  ASSUME IInv, NEW x \in Clients, TargetOf[x] \in alive, AsksStatus(x)
  PROVE  LET d == TargetOf[x]
         IN  \E m : /\ master' = [master EXCEPT ![d] = m]
                    /\ Plain(m, {"status_info"}) /\ m.running # NoCommand
                    /\ m.bop = master[d].bop
                    /\ m.out = IF master[d].running = NoCommand
                               THEN Append(master[d].out, "status_info")
                               ELSE master[d].out
<1> DEFINE d == TargetOf[x]
           m == queCommand(master[d], AskFor("status_info"))
<1>1. master' = [master EXCEPT ![d] = m]
  BY DEF AsksStatus, AskFor
<1>2. Plain(master[d], {"status_info"})
  BY Types DEF IInv, Linked
<1>3. /\ Plain(m, {"status_info"}) /\ m.running # NoCommand
      /\ m.bop = master[d].bop
      /\ m.out = IF master[d].running = NoCommand
                 THEN Append(master[d].out, "status_info") ELSE master[d].out
  BY <1>2, QueStatus
<1> HIDE DEF m
<1>4. QED
  BY <1>1, <1>3

\* A device reads a line of a client.
LEMMA DeviceReadsClientInv ==
  ASSUME IInv, NEW x \in Clients, DeviceReadsClient(x)
  PROVE  IInv'
<1> DEFINE d == TargetOf[x]
<1>1. /\ d \in alive /\ d \in listed /\ d \in Devices /\ conn[x].out # << >>
      /\ AsksStatus(x) \/ Runs(x)
      /\ conn' = [conn EXCEPT ![x] = Rest(conn[x])]
      /\ UNCHANGED <<peer, listed, word, waits, camera, alive, runs>>
  BY Types DEF DeviceReadsClient
<1>2. conn' \in [Clients -> ClientConns]
  <2>1. Rest(conn[x]) \in ClientConns
    BY <1>1, Types, RestClient
  <2>2. QED
    BY <1>1, <2>1, Types
<1>3. /\ Plain(master[d], {"status_info"}) /\ Plain(peer[d], Askers \ {d})
      /\ Balance(d) = IF master[d].running = NoCommand THEN 0 ELSE 1
  BY <1>1 DEF IInv, Linked, Balanced
<1>4. /\ peer' = [peer EXCEPT ![d] = peer[d]] /\ Alike(peer[d], peer[d])
  BY <1>1, Types DEF Alike
<1> DEFINE n == Count(master[d].out, "status_info")
           k == Count(peer[d].out, "+0")
<1>5. /\ master[d].out \in Seq(Texts) /\ n \in Nat /\ k \in Nat /\ waits[d] \in Nat
      /\ n + waits[d] + k = IF master[d].running = NoCommand THEN 0 ELSE 1
  <2>1. master[d].out \in Seq(Texts) /\ peer[d].out \in Seq(Texts)
    BY <1>1, Types
  <2>2. QED
    BY <1>1, <1>3, <2>1, Types, CountFacts DEF Balance
<1>6. CASE AsksStatus(x)
  <2>1. PICK m : /\ master' = [master EXCEPT ![d] = m]
                 /\ Plain(m, {"status_info"}) /\ m.running # NoCommand
                 /\ m.out = IF master[d].running = NoCommand
                            THEN Append(master[d].out, "status_info")
                            ELSE master[d].out
    BY <1>1, <1>6, AsksStatusEffect
  <2>2. Count(m.out, "status_info") = n + (IF master[d].running = NoCommand
                                           THEN 1 ELSE 0)
    <3>1. Count(Append(master[d].out, "status_info"), "status_info") = n + 1
      BY <1>5, TextNames, CountFacts
    <3>2. QED
      BY <1>5, <2>1, <3>1
  <2>3. Count(m.out, "status_info") + waits[d] + k
          = IF m.running = NoCommand THEN 0 ELSE 1
    BY <1>5, <2>1, <2>2
  <2> HIDE DEF n
  <2>4. /\ Linked' /\ Asked' /\ Owed' /\ Balanced'
        /\ master' \in [Devices -> Conns] /\ peer' \in [Devices -> Conns]
    BY <1>1, <1>3, <1>4, <2>1, <2>3, DeviceStep
  <2>5. /\ UNCHANGED <<toClient, busy>>
        /\ owner' = [owner EXCEPT ![d] = x]
        /\ since' = [since EXCEPT ![d] = IF master[d].running = NoCommand
                                        THEN AtWork ELSE since[d]]
    BY <1>6 DEF AsksStatus
  <2>6. since' \in [Devices -> SUBSET Devices]
        /\ owner' \in [Devices -> Clients \cup {NoClient}]
    <3>1. AtWork \subseteq Devices
      BY Types DEF AtWork
    <3>2. QED
      BY <1>1, <2>5, <3>1, Types
  <2>7. ITypes'
    BY <1>1, <1>2, <2>4, <2>5, <2>6, Types, CameraKept, NextTypes
  <2>8. QED
    BY <2>4, <2>7 DEF IInv
<1>7. CASE Runs(x)
  <2> DEFINE m == IF busy[d] THEN master[d] ELSE sendMsg(master[d], "S1")
  <2>1. "S1" \in Texts /\ "+0" \in Texts /\ "S1" # "status_info"
    BY DEF Texts
  <2>2. /\ Plain(m, {"status_info"}) /\ m.running = master[d].running
        /\ m.out = IF busy[d] THEN master[d].out ELSE Append(master[d].out, "S1")
    BY <1>3, <2>1, WritePlain DEF Alike
  <2>3. master' = [master EXCEPT ![d] = m]
    <3>1. [master EXCEPT ![d] = master[d]] = master
      BY Types
    <3>2. QED
      BY <1>7, <3>1 DEF Runs
  <2> HIDE DEF m
  <2>4. Count(m.out, "status_info") = n
    <3>1. Count(Append(master[d].out, "S1"), "status_info") = n
      BY <1>5, <2>1, CountFacts
    <3>2. QED
      BY <2>2, <3>1
  <2>5. Count(m.out, "status_info") + waits[d] + k
          = IF m.running = NoCommand THEN 0 ELSE 1
    BY <1>5, <2>2, <2>4
  <2>6. /\ Linked' /\ Asked' /\ Owed' /\ Balanced'
        /\ master' \in [Devices -> Conns] /\ peer' \in [Devices -> Conns]
    BY <1>1, <1>3, <1>4, <2>2, <2>3, <2>5, DeviceStep
  <2>7. /\ UNCHANGED <<owner, since>> /\ busy' = [busy EXCEPT ![d] = TRUE]
        /\ toClient' = [toClient EXCEPT ![x] = Append(toClient[x], "+0")]
    BY <1>7 DEF Runs
  <2>8. toClient' \in [Clients -> Seq(Texts)]
    <3>1. Append(toClient[x], "+0") \in Seq(Texts)
      BY <2>1, Types
    <3>2. QED
      BY <2>7, <3>1, Types
  <2>9. busy' \in [Devices -> BOOLEAN]
    BY <2>7, Types
  <2>10. ITypes'
    BY <1>1, <1>2, <2>6, <2>7, <2>8, <2>9, Types, CameraKept, NextTypes
  <2>11. QED
    BY <2>6, <2>10 DEF IInv
<1>8. QED
  BY <1>1, <1>6, <1>7

\* The return of a status_info: the next round begins, if one is queued.
LEMMA ReturnStatus ==
  ASSUME NEW c, Plain(c, {"status_info"})
  PROVE  LET m == commandReturn(c)
         IN  /\ Plain(m, {"status_info"}) /\ m.bop = c.bop
             /\ m.running = NoCommand <=> c.queue = << >>
             /\ m.out = IF c.queue = << >> THEN c.out
                        ELSE Append(c.out, "status_info")
<1> DEFINE N == {"status_info"}
           m == commandReturn(c)
           h == Head(c.queue)
<1>1. N \subseteq Texts /\ Plain(c, N)
  BY SideTexts
<1>2. \A cmd \in Asks(N) : cmd.name = "status_info" /\ cmd # NoCommand
  BY <1>1, AsksFacts
<1> HIDE DEF N
<1>3. Plain(m, N) /\ m.bop = c.bop
  BY <1>1, ReturnPlain
<1>4. c.queue = << >> => m.running = NoCommand /\ m.out = c.out
  BY <1>1, ReturnPlain
<1>5. c.queue # << >> => m.running = h /\ h \in Asks(N) /\ Wrote(c, m, h.name)
  BY <1>1, ReturnPlain
<1> HIDE DEF m, h
<1>6. m.running = NoCommand <=> c.queue = << >>
  BY <1>2, <1>4, <1>5
<1>7. m.out = IF c.queue = << >> THEN c.out ELSE Append(c.out, "status_info")
  BY <1>2, <1>4, <1>5 DEF Wrote
<1>8. QED
  BY <1>3, <1>6, <1>7 DEF m, N

\* Device::endDeviceStatusCommand keeps the types.
LEMMA EndsTyped ==
  ASSUME IInv, NEW d \in Devices, NEW ms \in Seq(Texts), EndsStatus(d, ms)
  PROVE  /\ toClient' \in [Clients -> Seq(Texts)]
         /\ owner' \in [Devices -> Clients \cup {NoClient}]
<1>1. ASSUME NEW x \in Clients
      PROVE  (IF TargetOf[x] # d THEN toClient[x]
              ELSE toClient[x] \o ms \o (IF owner[d] = x THEN <<"+0">> ELSE << >>))
               \in Seq(Texts)
  <2> DEFINE r == IF owner[d] = x THEN <<"+0">> ELSE << >>
  <2>1. toClient[x] \in Seq(Texts)
    BY Types
  <2>2. <<"+0">> \in Seq(Texts) /\ << >> \in Seq(Texts)
    BY DEF Texts
  <2>3. r \in Seq(Texts)
    BY <2>2
  <2> HIDE DEF r
  <2>4. toClient[x] \o ms \in Seq(Texts)
    BY <2>1
  <2>5. toClient[x] \o ms \o r \in Seq(Texts)
    BY <2>3, <2>4
  <2>6. QED
    BY <2>1, <2>5 DEF r
<1>2. toClient' \in [Clients -> Seq(Texts)]
  BY <1>1 DEF EndsStatus
<1>3. owner' \in [Devices -> Clients \cup {NoClient}]
  BY Types DEF EndsStatus
<1>4. QED
  BY <1>2, <1>3

\* A camera queues a value change.
LEMMA QueuesValueInv ==
  ASSUME IInv, NEW d \in Devices, QueuesValue(d)
  PROVE  IInv'
<1>1. /\ d \in Cameras /\ held' = held \cup {d}
      /\ UNCHANGED <<conn, toClient, master, peer, listed, word, waits, owner,
                     busy, reading, overwritten, alive, since, runs>>
  BY DEF QueuesValue
<1>2. CameraTyped'
  BY <1>1, Types DEF CameraTyped
<1>3. ITypes'
  BY <1>1, <1>2, Types, NextTypes
<1>4. QED
  BY <1>1, <1>3, RoundUnchanged DEF IInv

\* checkQueChanges keeps the types.
LEMMA ChangesTyped ==
  ASSUME IInv, NEW d \in Devices, reading' \subseteq Cameras,
         MakesNone \/ \E left \in BOOLEAN : MakesChanges(d, left)
  PROVE  /\ toClient' \in [Clients -> Seq(Texts)]
         /\ owner' \in [Devices -> Clients \cup {NoClient}]
         /\ CameraTyped'
<1>1. CASE MakesNone
  BY <1>1, Types DEF MakesNone, CameraTyped
<1>2. ASSUME NEW left \in BOOLEAN, MakesChanges(d, left)
      PROVE  /\ toClient' \in [Clients -> Seq(Texts)]
             /\ owner' \in [Devices -> Clients \cup {NoClient}]
             /\ CameraTyped'
  <2>1. /\ d \in held /\ EndsStatus(d, <<BopState(left)>>)
        /\ held' \subseteq held /\ overwritten' = overwritten \cup {d}
    BY <1>2 DEF MakesChanges
  <2>2. <<BopState(left)>> \in Seq(Texts)
    BY DEF BopState, Texts
  <2>3. QED
    BY <2>1, <2>2, Types, EndsTyped DEF CameraTyped
<1>3. QED
  BY <1>1, <1>2

\* A device sends its status word, whatever changes beside the links.
LEMMA SendsWordInv ==
  ASSUME IInv, NEW d \in alive, NEW w \in {"S0", "S1"},
         master' = [master EXCEPT ![d] = sendMsg(@, w)],
         UNCHANGED <<conn, peer, listed, word, waits, alive, runs>>,
         toClient' \in [Clients -> Seq(Texts)],
         owner' \in [Devices -> Clients \cup {NoClient}], CameraTyped',
         busy' \in [Devices -> BOOLEAN], since' \in [Devices -> SUBSET Devices]
  PROVE  IInv'
<1> DEFINE m == sendMsg(master[d], w)
<1>1. /\ d \in listed /\ d \in Devices
      /\ master' = [master EXCEPT ![d] = m]
  BY Types
<1>2. /\ Plain(master[d], {"status_info"}) /\ Plain(peer[d], Askers \ {d})
      /\ Balance(d) = IF master[d].running = NoCommand THEN 0 ELSE 1
  BY <1>1 DEF IInv, Linked, Balanced
<1>3. w \in Texts /\ w # "status_info"
  BY DEF Texts
<1>4. /\ Plain(m, {"status_info"}) /\ m.running = master[d].running
      /\ m.out = Append(master[d].out, w)
  BY <1>2, <1>3, WritePlain DEF Alike
<1>5. Count(m.out, "status_info") = Count(master[d].out, "status_info")
  <2>1. master[d].out \in Seq(Texts)
    BY <1>1, Types
  <2>2. QED
    BY <1>3, <1>4, <2>1, CountOther
<1>6. Count(m.out, "status_info") + waits[d] + Count(peer[d].out, "+0")
        = IF m.running = NoCommand THEN 0 ELSE 1
  BY <1>2, <1>4, <1>5 DEF Balance
<1> HIDE DEF m
<1>7. peer' = [peer EXCEPT ![d] = peer[d]] /\ Alike(peer[d], peer[d])
  BY <1>1, Types DEF Alike
<1>8. /\ Linked' /\ Asked' /\ Owed' /\ Balanced'
      /\ master' \in [Devices -> Conns] /\ peer' \in [Devices -> Conns]
  BY <1>1, <1>2, <1>4, <1>6, <1>7, DeviceStep
<1>9. ITypes'
  BY <1>1, <1>8, Types, NextTypes
<1>10. QED
  BY <1>8, <1>9 DEF IInv

\* The work of a device ends, and a camera reads its chip or has nothing to read.
LEMMA DeviceFinishesInv ==
  ASSUME IInv, NEW d \in Devices, DeviceFinishes(d)
  PROVE  IInv'
<1>1. /\ d \in alive
      /\ master' = [master EXCEPT ![d] = sendMsg(@, "S0")]
      /\ busy' = [busy EXCEPT ![d] = FALSE]
      /\ since' = [e \in Devices |-> since[e] \ {d}]
      /\ UNCHANGED <<conn, peer, listed, word, waits, alive, runs>>
  BY DEF DeviceFinishes
<1>2. reading' \subseteq Cameras
  BY Types DEF DeviceFinishes, Idles, BeginsReading, CameraTyped
<1>3. MakesNone \/ \E left \in BOOLEAN : MakesChanges(d, left)
  BY DEF DeviceFinishes, Idles, MakesAll, BeginsReading
<1>4. /\ busy' \in [Devices -> BOOLEAN]
      /\ since' \in [Devices -> SUBSET Devices]
  BY <1>1, Types
<1>5. QED
  BY <1>1, <1>2, <1>3, <1>4, ChangesTyped, SendsWordInv

\* The chip has been read.
LEMMA ReadingEndsInv ==
  ASSUME IInv, NEW d \in Devices, ReadingEnds(d)
  PROVE  IInv'
<1>1. /\ d \in alive
      /\ master' = [master EXCEPT ![d] = sendMsg(@, StatusWord(busy[d]))]
      /\ reading' = reading \ {d}
      /\ UNCHANGED <<conn, peer, listed, word, waits, busy, alive, since, runs>>
  BY DEF ReadingEnds
<1>2. reading' \subseteq Cameras
  BY <1>1, Types DEF CameraTyped
<1>3. MakesNone \/ \E left \in BOOLEAN : MakesChanges(d, left)
  BY DEF ReadingEnds, MakesAll
<1>4. StatusWord(busy[d]) \in {"S0", "S1"}
  BY DEF StatusWord
<1>5. QED
  BY <1>1, <1>2, <1>3, <1>4, Types, ChangesTyped, SendsWordInv

\* Device::statusInfo writes the state of the device and the return.
LEMMA AnswersEffect ==
  ASSUME IInv, NEW d \in alive, AnswersStatusInfo(d)
  PROVE  \E m : /\ master' = [master EXCEPT ![d] = m]
                /\ Plain(m, {"status_info"}) /\ Alike(master[d], m)
                /\ m.out = Append(Append(master[d].out, StatusWord(busy[d])), "+0")
<1> DEFINE w == StatusWord(busy[d])
           c == sendMsg(master[d], w)
           m == sendMsg(c, "+0")
<1>1. w \in Texts /\ "+0" \in Texts
  BY DEF Texts, StatusWord
<1>2. Plain(master[d], {"status_info"})
  BY Types DEF IInv, Linked
<1>3. master' = [master EXCEPT ![d] = m]
  BY DEF AnswersStatusInfo
<1> HIDE DEF w
<1>4. /\ Plain(c, {"status_info"}) /\ Alike(master[d], c)
      /\ c.out = Append(master[d].out, w)
  BY <1>1, <1>2, WritePlain
<1> HIDE DEF c
<1>5. /\ Plain(m, {"status_info"}) /\ Alike(c, m) /\ m.out = Append(c.out, "+0")
  BY <1>1, <1>4, WritePlain
<1> HIDE DEF m
<1>6. QED
  BY <1>3, <1>4, <1>5 DEF Alike, w

\* What a living device may find on its connection to centrald.
LEMMA ReadsEffect ==
  ASSUME IInv, NEW d \in alive, peer[d].out # << >>
  PROVE  /\ Plain(Rest(peer[d]), Askers \ {d}) /\ Alike(peer[d], Rest(peer[d]))
         /\ Rest(peer[d]).out = Tail(peer[d].out)
         /\ Count(peer[d].out, "+0") = Count(Tail(peer[d].out), "+0")
              + (IF Head(peer[d].out) = "+0" THEN 1 ELSE 0)
         /\ Count(Tail(peer[d].out), "+0") \in Nat
         /\ Count(master[d].out, "status_info") \in Nat /\ waits[d] \in Nat
         /\ master[d].out \in Seq(Texts)
         /\ Count(master[d].out, "status_info") + waits[d] + Count(peer[d].out, "+0")
              = IF master[d].running = NoCommand THEN 0 ELSE 1
         /\ Plain(master[d], {"status_info"})
<1>1. d \in listed /\ d \in Devices
  BY Types
<1>2. /\ Plain(master[d], {"status_info"}) /\ Plain(peer[d], Askers \ {d})
      /\ Balance(d) = IF master[d].running = NoCommand THEN 0 ELSE 1
  BY <1>1 DEF IInv, Linked, Balanced
<1>3. /\ Plain(Rest(peer[d]), Askers \ {d}) /\ Alike(peer[d], Rest(peer[d]))
      /\ Rest(peer[d]).out = Tail(peer[d].out)
  BY <1>2, RestPlain
<1>4. /\ peer[d].out \in Seq(Texts) /\ master[d].out \in Seq(Texts)
      /\ Tail(peer[d].out) \in Seq(Texts)
  BY <1>1, Types
<1>5. QED
  BY <1>1, <1>2, <1>3, <1>4, Types, CountFacts DEF Balance

\* A device reads a line of centrald: a status call, a BOP state, a return.
LEMMA DeviceReadsMasterInv ==
  ASSUME IInv, NEW d \in Devices, DeviceReadsMaster(d)
  PROVE  IInv'
<1> DEFINE p == Rest(peer[d])
           h == Head(peer[d].out)
           n == Count(master[d].out, "status_info")
           k == Count(Tail(peer[d].out), "+0")
<1>1. /\ d \in alive /\ d \in listed /\ peer[d].out # << >>
      /\ AnswersStatusInfo(d) \/ ReadsBop(d) \/ ReadsReturn(d)
      /\ peer' = [peer EXCEPT ![d] = p]
      /\ UNCHANGED <<conn, listed, word, waits, busy, reading, held, alive, runs>>
  BY Types DEF DeviceReadsMaster
<1>2. /\ Plain(p, Askers \ {d}) /\ Alike(peer[d], p) /\ Count(p.out, "+0") = k
      /\ n \in Nat /\ k \in Nat /\ waits[d] \in Nat
      /\ n + waits[d] + (k + (IF h = "+0" THEN 1 ELSE 0))
           = IF master[d].running = NoCommand THEN 0 ELSE 1
      /\ Plain(master[d], {"status_info"}) /\ master[d].out \in Seq(Texts)
  BY <1>1, ReadsEffect
<1> HIDE DEF p, n, k
<1>3. ASSUME NEW m, master' = [master EXCEPT ![d] = m], Plain(m, {"status_info"}),
             Count(m.out, "status_info") + waits[d] + k
               = IF m.running = NoCommand THEN 0 ELSE 1,
             toClient' \in [Clients -> Seq(Texts)],
             owner' \in [Devices -> Clients \cup {NoClient}],
             since' \in [Devices -> SUBSET Devices], overwritten' \subseteq overwritten
      PROVE  IInv'
  <2>1. /\ Linked' /\ Asked' /\ Owed' /\ Balanced'
        /\ master' \in [Devices -> Conns] /\ peer' \in [Devices -> Conns]
    BY <1>1, <1>2, <1>3, DeviceStep
  <2>2. CameraTyped'
    BY <1>1, <1>3, Types DEF CameraTyped
  <2>4. ITypes'
    BY <1>1, <1>3, <2>1, <2>2, Types, NextTypes
  <2>3. QED
    BY <2>1, <2>4 DEF IInv
<1>4. CASE AnswersStatusInfo(d)
  <2>1. PICK m : /\ master' = [master EXCEPT ![d] = m]
                 /\ Plain(m, {"status_info"}) /\ Alike(master[d], m)
                 /\ m.out = Append(Append(master[d].out, StatusWord(busy[d])), "+0")
    BY <1>1, <1>4, AnswersEffect
  <2>2. h # "+0" /\ UNCHANGED <<toClient, owner, overwritten, since>>
    BY <1>4, TextNames DEF AnswersStatusInfo
  <2>3. Count(m.out, "status_info") = n
    <3> DEFINE w == StatusWord(busy[d])
               q == Append(master[d].out, w)
    <3>1. /\ w \in Texts /\ "+0" \in Texts /\ w # "status_info"
          /\ "+0" # "status_info"
      BY DEF Texts, StatusWord
    <3> HIDE DEF w
    <3>2. q \in Seq(Texts) /\ Count(q, "status_info") = n
      BY <1>2, <3>1, CountOther DEF n
    <3> HIDE DEF q
    <3>3. Count(Append(q, "+0"), "status_info") = n
      BY <3>1, <3>2, CountOther
    <3>4. QED
      BY <2>1, <3>3 DEF q, w
  <2>4. Count(m.out, "status_info") + waits[d] + k
          = IF m.running = NoCommand THEN 0 ELSE 1
    BY <1>2, <2>1, <2>2, <2>3 DEF Alike
  <2>5. QED
    BY <1>3, <2>1, <2>2, <2>4, Types
<1>5. CASE ReadsBop(d)
  <2> DEFINE m == setBopState(master[d], BitsIn(h))
  <2> DEFINE g == IF d \in held THEN "B1" ELSE h
  <2>1. h \in {"B0", "B1"} /\ h # "+0" /\ EndsStatus(d, <<g>>)
    BY <1>5 DEF ReadsBop
  <2>2. BitsIn(h) \in SUBSET {Bit} /\ g \in Texts
    BY <2>1 DEF BitsIn, Texts
  <2>3. /\ Plain(m, {"status_info"}) /\ m.out = master[d].out
        /\ m.running = master[d].running
    BY <1>2, <2>2, SideTexts, BopPlain
  <2>4. /\ master' = [master EXCEPT ![d] = m] /\ UNCHANGED since
        /\ overwritten' \subseteq overwritten
    BY <1>5 DEF ReadsBop
  <2> HIDE DEF m, h, g
  <2>5. <<g>> \in Seq(Texts)
    BY <2>2
  <2>6. /\ toClient' \in [Clients -> Seq(Texts)]
        /\ owner' \in [Devices -> Clients \cup {NoClient}]
    BY <2>1, <2>5, EndsTyped
  <2>7. Count(m.out, "status_info") + waits[d] + k
          = IF m.running = NoCommand THEN 0 ELSE 1
    BY <1>2, <2>1, <2>3 DEF n
  <2>8. QED
    BY <1>3, <2>3, <2>4, <2>6, <2>7, Types
<1>6. CASE ReadsReturn(d)
  <2> DEFINE m == commandReturn(master[d])
  <2>1. h = "+0" /\ EndsStatus(d, << >>)
    BY <1>6 DEF ReadsReturn
  <2>2. master[d].running # NoCommand /\ n = 0 /\ waits[d] = 0 /\ k = 0
    BY <1>2, <2>1
  <2>3. /\ Plain(m, {"status_info"})
        /\ m.running = NoCommand <=> master[d].queue = << >>
        /\ m.out = IF master[d].queue = << >> THEN master[d].out
                   ELSE Append(master[d].out, "status_info")
    BY <1>2, ReturnStatus
  <2>4. master' = [master EXCEPT ![d] = m] /\ UNCHANGED overwritten
    BY <1>6, <2>2 DEF ReadsReturn
  <2>5. since' = [since EXCEPT ![d] = IF master[d].queue = << >> THEN {} ELSE AtWork]
    BY <1>6 DEF ReadsReturn
  <2> HIDE DEF m
  <2>6. since' \in [Devices -> SUBSET Devices]
    <3>1. AtWork \subseteq Devices
      BY Types DEF AtWork
    <3>2. QED
      BY <2>5, <3>1, Types
  <2>7. /\ toClient' \in [Clients -> Seq(Texts)]
        /\ owner' \in [Devices -> Clients \cup {NoClient}]
    <3>1. << >> \in Seq(Texts)
      OBVIOUS
    <3>2. QED
      BY <2>1, <3>1, EndsTyped
  <2>8. Count(m.out, "status_info") = IF master[d].queue = << >> THEN 0 ELSE 1
    <3>1. Count(Append(master[d].out, "status_info"), "status_info") = n + 1
      BY <1>2, TextNames, CountFacts DEF n
    <3>2. QED
      BY <2>2, <2>3, <3>1 DEF n
  <2>9. Count(m.out, "status_info") + waits[d] + k
          = IF m.running = NoCommand THEN 0 ELSE 1
    BY <2>2, <2>3, <2>8
  <2>10. QED
    BY <1>3, <2>3, <2>4, <2>6, <2>7, <2>9
<1>7. QED
  BY <1>1, <1>4, <1>5, <1>6

\* Connections that hold the same commands for the same rounds.
LEMMA AlikePeers ==
  ASSUME IInv, UNCHANGED <<listed, waits>>,
         \A e \in listed : Alike(peer[e], peer'[e])
  PROVE  Asked' /\ Owed'
<1>1. \A e \in listed, a \in Devices :
        /\ Holds(peer'[e], a) <=> Holds(peer[e], a)
        /\ Once(peer[e], a) => Once(peer'[e], a)
  BY AlikeHolds
<1>2. listed \subseteq Devices
  BY Types
<1>3. QED
  BY <1>1, <1>2 DEF IInv, Asked, Owed

\* Rounds are neither lost nor made.
LEMMA BalanceKept ==
  ASSUME IInv, listed' \subseteq listed, alive' \subseteq alive,
         \A e \in listed' : /\ Balance(e)' = Balance(e)
                            /\ e \in alive => master'[e].running = master[e].running
  PROVE  Balanced'
BY DEF IInv, Balanced

\* A device crashes; what is written to it is lost.
LEMMA CrashInv ==
  ASSUME IInv, NEW d \in Devices, Crash(d)
  PROVE  IInv'
<1> DEFINE new == NewConnection("open")
           m == [new EXCEPT !.out = master[d].out]
           p == [peer[d] EXCEPT !.out = << >>]
<1>1. /\ d \in alive /\ d \in listed /\ alive' = alive \ {d}
      /\ busy' = [busy EXCEPT ![d] = FALSE]
      /\ master' = [master EXCEPT ![d] = m] /\ peer' = [peer EXCEPT ![d] = p]
      /\ owner' = [owner EXCEPT ![d] = NoClient]
      /\ since' = [e \in Devices |-> IF e = d THEN {} ELSE since[e] \ {d}]
      /\ reading' = reading \ {d} /\ held' = held \ {d}
      /\ overwritten' = overwritten \ {d}
      /\ UNCHANGED <<conn, toClient, listed, word, waits, runs>>
  BY Types DEF Crash
<1>2. /\ Plain(master[d], {"status_info"}) /\ Plain(peer[d], Askers \ {d})
      /\ Balance(d) <= 1 /\ master[d].out \in Seq(Texts)
      /\ peer[d].out \in Seq(Texts)
  BY <1>1, Types DEF IInv, Linked, Balanced
<1>3. Plain(m, {"status_info"}) /\ m.out = master[d].out
  <2>1. Plain(new, {"status_info"})
    BY NewPlain
  <2> HIDE DEF new
  <2>2. QED
    BY <1>2, <2>1 DEF Plain, PlainConns
<1>4. Plain(p, Askers \ {d}) /\ Alike(peer[d], p) /\ p.out = << >>
  <2>1. << >> \in Seq(Texts)
    OBVIOUS
  <2>2. QED
    BY <1>2, <2>1 DEF Plain, PlainConns, Alike
<1> HIDE DEF m, p
<1>5. /\ \A e \in Devices : master'[e] = IF e = d THEN m ELSE master[e]
      /\ \A e \in Devices : peer'[e] = IF e = d THEN p ELSE peer[e]
      /\ listed \subseteq Devices
  BY <1>1, Types
<1>6. Linked'
  BY <1>1, <1>3, <1>4, <1>5 DEF IInv, Linked
<1>7. Asked' /\ Owed'
  <2>1. \A e \in listed : Alike(peer[e], peer'[e])
    BY <1>4, <1>5 DEF Alike
  <2>2. QED
    BY <1>1, <2>1, AlikePeers
<1>8. Balanced'
  <2>1. Balance(d)' <= 1
    <3>1. /\ Count(master[d].out, "status_info") \in Nat /\ waits[d] \in Nat
          /\ Count(peer[d].out, "+0") \in Nat /\ Count(p.out, "+0") = 0
      BY <1>2, <1>4, Types, CountFacts
    <3>2. Balance(d)' = Count(master[d].out, "status_info") + waits[d] + 0
      BY <1>1, <1>3, <1>5, <3>1 DEF Balance
    <3>3. QED
      BY <1>2, <3>1, <3>2 DEF Balance
  <2>2. \A e \in listed \ {d} : Balance(e)' = Balance(e)
    BY <1>1, <1>5 DEF Balance
  <2>3. QED
    BY <1>1, <1>5, <2>1, <2>2 DEF IInv, Balanced
<1>9. ITypes'
  <2>1. m \in Conns /\ p \in Conns
    BY <1>3, <1>4, SideTexts, PlainTyped
  <2>2. master' \in [Devices -> Conns] /\ peer' \in [Devices -> Conns]
    BY <1>1, <2>1, Types
  <2>3. /\ busy' \in [Devices -> BOOLEAN]
        /\ owner' \in [Devices -> Clients \cup {NoClient}]
        /\ since' \in [Devices -> SUBSET Devices]
        /\ alive' \subseteq listed'
    BY <1>1, Types
  <2>5. CameraTyped'
    BY <1>1, Types DEF CameraTyped
  <2>4. QED
    BY <1>1, <2>2, <2>3, <2>5, Types, NextTypes
<1>10. QED
  BY <1>6, <1>7, <1>8, <1>9 DEF IInv

-----------------------------------------------------------------------------
(***************************************************************************)
(* Steps of centrald.                                                      *)
(***************************************************************************)
\* What centrald finds on the connection of a device.
LEMMA CentraldReadsEffect ==
  ASSUME IInv, NEW d \in listed, master[d].out # << >>,
         master' = [master EXCEPT ![d] = Rest(@)], listed' = listed
  PROVE  /\ d \in Devices /\ master' \in [Devices -> Conns]
         /\ \A e \in listed : /\ Plain(master'[e], {"status_info"})
                               /\ Alike(master[e], master'[e])
         /\ \A e \in Devices : master'[e].out = IF e = d THEN Tail(master[d].out)
                                                ELSE master[e].out
         /\ \A e \in Devices : \A m : Count(master'[e].out, m) \in Nat
         /\ \A m : Count(master[d].out, m) = Count(master'[d].out, m)
                     + (IF Head(master[d].out) = m THEN 1 ELSE 0)
<1>1. d \in Devices /\ listed \subseteq Devices /\ master[d].out \in Seq(Texts)
      /\ Tail(master[d].out) \in Seq(Texts)
  BY Types
<1>2. \A e \in listed : Plain(master[e], {"status_info"})
  BY DEF IInv, Linked
<1>3. /\ Plain(Rest(master[d]), {"status_info"}) /\ Alike(master[d], Rest(master[d]))
      /\ Rest(master[d]).out = Tail(master[d].out)
  BY <1>2, RestPlain
<1>4. \A e \in Devices : master'[e] = IF e = d THEN Rest(master[d]) ELSE master[e]
  BY Types
<1>5. master' \in [Devices -> Conns]
  <2>1. Rest(master[d]) \in Conns
    BY <1>3, SideTexts, PlainTyped
  <2>2. QED
    BY <2>1, Types
<1>6. /\ \A e \in Devices : master'[e].out = IF e = d THEN Tail(master[d].out)
                                             ELSE master[e].out
      /\ \A e \in Devices : master'[e].out \in Seq(Texts)
  BY <1>1, <1>3, <1>4, Types
<1>7. \A e \in Devices : \A m : Count(master'[e].out, m) \in Nat
  BY <1>6, CountFacts
<1>8. \A m : Count(master[d].out, m) = Count(master'[d].out, m)
              + (IF Head(master[d].out) = m THEN 1 ELSE 0)
  <2> SUFFICES ASSUME NEW m
               PROVE  Count(master[d].out, m) = Count(master'[d].out, m)
                        + (IF Head(master[d].out) = m THEN 1 ELSE 0)
    OBVIOUS
  <2>1. master'[d].out = Tail(master[d].out)
    BY <1>1, <1>6
  <2>2. Count(master[d].out, m) = Count(Tail(master[d].out), m)
          + (IF Head(master[d].out) = m THEN 1 ELSE 0)
    BY <1>1, CountFacts
  <2>3. QED
    BY <2>1, <2>2
<1>9. \A e \in listed : Plain(master'[e], {"status_info"}) /\ Alike(master[e], master'[e])
  BY <1>1, <1>2, <1>3, <1>4 DEF Alike
<1>10. QED
  BY <1>1, <1>5, <1>6, <1>7, <1>8, <1>9

\* The invariant after a step of centrald on the line of device d, from what it
\* made of the connections and the counts.
LEMMA CentraldStep ==
  ASSUME IInv, NEW d \in listed, master[d].out # << >>,
         master' = [master EXCEPT ![d] = Rest(@)],
         UNCHANGED <<conn, toClient, listed, owner, busy, camera, alive, since, runs>>,
         word' \in [Devices -> BOOLEAN], waits' \in [Devices -> Nat],
         peer' \in [Devices -> Conns],
         \A e \in listed : Plain(peer'[e], Askers \ {e}),
         Asked', Owed', \A e \in listed : Balance(e)' = Balance(e)
  PROVE  IInv'
<1>1. /\ master' \in [Devices -> Conns]
      /\ \A e \in listed : /\ Plain(master'[e], {"status_info"})
                            /\ Alike(master[e], master'[e])
  BY CentraldReadsEffect
<1>2. Linked'
  BY <1>1 DEF Linked
<1>3. Balanced'
  BY <1>1, BalanceKept DEF Alike
<1>4. ITypes'
  BY <1>1, Types, CameraKept, NextTypes
<1>5. QED
  BY <1>2, <1>3, <1>4 DEF IInv

\* queCommand of a status call on behalf of d to another device.
LEMMA AskPlain ==
  ASSUME NEW e, NEW c, Plain(c, Askers \ {e}), NEW d \in Devices, d # e
  PROVE  /\ Plain(queCommand(c, AskFor(d)), Askers \ {e})
         /\ queCommand(c, AskFor(d)).bop = c.bop
         /\ c.running # NoCommand => Behind(c, queCommand(c, AskFor(d)), d)
         /\ c.running = NoCommand => AtOnce(c, queCommand(c, AskFor(d)), d)
<1> DEFINE N == Askers \ {e}
<1>1. N \subseteq Texts /\ d \in N /\ Plain(c, N)
  BY SideTexts DEF Askers
<1> HIDE DEF N
<1>2. /\ Plain(queCommand(c, AskFor(d)), N)
      /\ queCommand(c, AskFor(d)).bop = c.bop
      /\ c.running # NoCommand => Behind(c, queCommand(c, AskFor(d)), d)
      /\ c.running = NoCommand => AtOnce(c, queCommand(c, AskFor(d)), d)
  BY <1>1, QuePlain
<1>3. QED
  BY <1>2 DEF N

\* p holds what c does and a command on behalf of d.
HoldsMore(c, p, d) ==
  \A a \in Devices : /\ Holds(p, a) <=> Holds(c, a) \/ a = d
                     /\ Queues(c, a) => Queues(p, a)
                     /\ ~Holds(c, d) /\ Once(c, a) => Once(p, a)

\* It is held then, with what was held before.
LEMMA AskHolds ==
  ASSUME NEW e, NEW c, Plain(c, Askers \ {e}), NEW d \in Devices, d # e
  PROVE  HoldsMore(c, queCommand(c, AskFor(d)), d)
<1> DEFINE N == Askers \ {e}
<1>1. N \subseteq Texts /\ d \in N /\ Plain(c, N)
  BY SideTexts DEF Askers
<1> HIDE DEF N
<1>2. ASSUME NEW a \in Devices
      PROVE  /\ Holds(queCommand(c, AskFor(d)), a) <=> Holds(c, a) \/ a = d
             /\ Queues(c, a) => Queues(queCommand(c, AskFor(d)), a)
             /\ Once(c, a) /\ (a = d => ~Holds(c, a))
                  => Once(queCommand(c, AskFor(d)), a)
  BY <1>1, QueHolds
<1>3. QED
  BY <1>2 DEF HoldsMore

\* Of the answers a round needs none is counted as its return.
LEMMA AskCount ==
  ASSUME NEW e, NEW c, Plain(c, Askers \ {e}), NEW d \in Devices, d # e
  PROVE  Count(queCommand(c, AskFor(d)).out, "+0") = Count(c.out, "+0")
<1> DEFINE p == queCommand(c, AskFor(d))
<1>1. /\ c.running # NoCommand => Behind(c, p, d)
      /\ c.running = NoCommand => AtOnce(c, p, d)
  BY AskPlain
<1>2. c.out \in Seq(Texts) /\ d \in Texts /\ d # "+0"
  BY TextNames DEF Plain, PlainConns, Askers
<1> HIDE DEF p
<1>3. Count(Append(c.out, d), "+0") = Count(c.out, "+0")
  BY <1>2, CountOther
<1>4. Count(p.out, "+0") = Count(c.out, "+0")
  BY <1>1, <1>3 DEF Behind, AtOnce, Wrote
<1>5. QED
  BY <1>4 DEF p

\* Centrald::statusInfo: a device asks when no other round of it is counted.
LEMMA StatusInfoEffect ==
  ASSUME IInv, NEW d \in listed, master[d].out # << >>,
         Head(master[d].out) = "status_info"
  PROVE  /\ Count(master[d].out, "status_info") = 1
         /\ waits[d] = 0 /\ Count(peer[d].out, "+0") = 0
         /\ \A e \in listed : ~Holds(peer[e], d)
<1>1. /\ d \in Devices /\ master[d].out \in Seq(Texts)
      /\ peer[d].out \in Seq(Texts) /\ Tail(master[d].out) \in Seq(Texts)
      /\ waits[d] \in Nat /\ Balance(d) <= 1
  BY Types DEF IInv, Balanced
<1>2. /\ Count(master[d].out, "status_info")
           = Count(Tail(master[d].out), "status_info") + 1
      /\ Count(Tail(master[d].out), "status_info") \in Nat
      /\ Count(peer[d].out, "+0") \in Nat
  BY <1>1, CountFacts
<1>3. /\ Count(master[d].out, "status_info") = 1
      /\ waits[d] = 0 /\ Count(peer[d].out, "+0") = 0
  BY <1>1, <1>2 DEF Balance
<1>4. \A e \in listed : ~Holds(peer[e], d)
  BY <1>1, <1>3 DEF IInv, Asked
<1>5. QED
  BY <1>3, <1>4

\* Centrald::statusInfo.
LEMMA StatusInfoInv ==
  ASSUME IInv, NEW d \in listed, master[d].out # << >>, StatusInfo(d),
         master' = [master EXCEPT ![d] = Rest(@)],
         UNCHANGED <<conn, toClient, listed, owner, busy, camera, alive, since, runs>>
  PROVE  IInv'
<1> DEFINE asked == (listed \cap BlockedBy[d]) \ {d}
<1>1. /\ d \in Devices /\ listed \subseteq Devices /\ asked \subseteq listed
      /\ d \notin asked
      /\ Head(master[d].out) = "status_info" /\ UNCHANGED word
      /\ \A e \in listed : Plain(peer[e], Askers \ {e})
      /\ \A e \in listed : peer[e].out \in Seq(Texts)
  BY Types DEF StatusInfo, IInv, Linked
<1>2. /\ Count(master[d].out, "status_info") = 1
      /\ waits[d] = 0 /\ Count(peer[d].out, "+0") = 0
      /\ \A e \in listed : ~Holds(peer[e], d)
  BY <1>1, StatusInfoEffect
<1>3. /\ \A e \in listed \ {d} : master'[e].out = master[e].out
      /\ Count(master'[d].out, "status_info") = 0
  <2>1. Count(master'[d].out, "status_info") \in Nat
        /\ Count(master[d].out, "status_info") = Count(master'[d].out, "status_info") + 1
        /\ \A e \in listed \ {d} : master'[e].out = master[e].out
    BY <1>1, CentraldReadsEffect
  <2>2. QED
    BY <1>2, <2>1
<1>4. CASE asked = {}
  <2> DEFINE p == sendMsg(peer[d], "+0")
  <2>1. peer' = [peer EXCEPT ![d] = p] /\ waits' = waits
    BY <1>4 DEF StatusInfo
  <2>2. "+0" \in Texts
    BY DEF Texts
  <2>3. /\ Plain(p, Askers \ {d}) /\ Alike(peer[d], p)
        /\ p.out = Append(peer[d].out, "+0")
    BY <1>1, <2>2, WritePlain
  <2> HIDE DEF p
  <2>4. \A e \in Devices : peer'[e] = IF e = d THEN p ELSE peer[e]
    BY <2>1, Types
  <2>5. \A e \in listed : Plain(peer'[e], Askers \ {e}) /\ Alike(peer[e], peer'[e])
    BY <1>1, <2>3, <2>4 DEF Alike
  <2>6. Asked' /\ Owed'
    BY <2>1, <2>5, AlikePeers
  <2>7. peer' \in [Devices -> Conns]
    <3>1. p \in Conns
      BY <2>3, SideTexts, PlainTyped
    <3>2. QED
      BY <2>1, <3>1, Types
  <2>8. Balance(d)' = Balance(d)
    <3>1. Count(p.out, "+0") = Count(peer[d].out, "+0") + 1
      BY <1>1, <2>2, <2>3, CountOne
    <3>2. QED
      BY <1>1, <1>2, <1>3, <2>1, <2>4, <3>1 DEF Balance
  <2>9. \A e \in listed \ {d} : Balance(e)' = Balance(e)
    BY <1>1, <1>3, <2>1, <2>4 DEF Balance
  <2>10. QED
    BY <1>1, <2>1, <2>5, <2>6, <2>7, <2>8, <2>9, Types, CentraldStep
<1>5. CASE asked # {}
  <2>1. /\ peer' = [e \in Devices |-> IF e \in asked
                                      THEN queCommand(peer[e], AskFor(d)) ELSE peer[e]]
        /\ waits' = [waits EXCEPT ![d] = 1]
    BY <1>2, <1>5 DEF StatusInfo
  <2> HIDE DEF asked
  <2>2. \A e \in Devices : peer'[e] = IF e \in asked
                                      THEN queCommand(peer[e], AskFor(d)) ELSE peer[e]
    BY <2>1
  <2>3. ASSUME NEW e \in asked
        PROVE  /\ Plain(peer'[e], Askers \ {e}) /\ Holds(peer'[e], d)
               /\ \A a \in Devices : /\ Holds(peer'[e], a) <=> Holds(peer[e], a) \/ a = d
                                     /\ Once(peer[e], a) => Once(peer'[e], a)
               /\ Count(peer'[e].out, "+0") = Count(peer[e].out, "+0")
    <3>1. e \in listed /\ e \in Devices /\ d # e /\ Plain(peer[e], Askers \ {e})
          /\ ~Holds(peer[e], d)
      BY <1>1, <1>2
    <3>2. peer'[e] = queCommand(peer[e], AskFor(d))
      BY <2>2, <3>1
    <3>3. Plain(queCommand(peer[e], AskFor(d)), Askers \ {e})
      BY <1>1, <3>1, AskPlain
    <3>4. Count(queCommand(peer[e], AskFor(d)).out, "+0") = Count(peer[e].out, "+0")
      BY <1>1, <3>1, AskCount
    <3>5. HoldsMore(peer[e], queCommand(peer[e], AskFor(d)), d)
      BY <1>1, <3>1, AskHolds
    <3>6. QED
      BY <1>1, <3>1, <3>2, <3>3, <3>4, <3>5 DEF HoldsMore
  <2>4. \A e \in listed : Plain(peer'[e], Askers \ {e})
    BY <1>1, <2>2, <2>3
  <2>5. \A e \in Devices : waits'[e] = IF e = d THEN 1 ELSE waits[e]
    BY <2>1, Types
  <2>6. peer' \in [Devices -> Conns]
    <3>1. \A e \in asked : peer'[e] \in Conns
      BY <2>3, SideTexts, PlainTyped
    <3>2. \A e \in Devices : peer'[e] \in Conns
      BY <2>2, <3>1, Types
    <3>3. QED
      BY <2>1, <3>2
  <2>7. Asked'
    <3> SUFFICES ASSUME NEW e \in listed, NEW a \in Devices
                 PROVE  /\ Once(peer'[e], a)
                        /\ Holds(peer'[e], a) => a \in listed /\ waits'[a] > 0
      BY DEF Asked
    <3>1. /\ Once(peer[e], a)
          /\ Holds(peer[e], a) => a \in listed /\ waits[a] > 0
      BY DEF IInv, Asked
    <3>2. /\ Once(peer[e], a) => Once(peer'[e], a)
          /\ Holds(peer'[e], a) => Holds(peer[e], a) \/ a = d
      BY <1>1, <2>2, <2>3
    <3>3. QED
      BY <2>5, <3>1, <3>2
  <2>8. Owed'
    <3> SUFFICES ASSUME NEW a \in listed, waits'[a] > 0
                 PROVE  \E e \in listed : Holds(peer'[e], a)
      BY DEF Owed
    <3>1. CASE a = d
      BY <1>1, <1>5, <2>3, <3>1
    <3>2. CASE a # d
      <4>1. PICK e \in listed : Holds(peer[e], a)
        BY <1>1, <2>5, <3>2 DEF IInv, Owed
      <4>2. Holds(peer'[e], a)
        BY <1>1, <2>2, <2>3, <4>1
      <4>3. QED
        BY <4>2
    <3>3. QED
      BY <3>1, <3>2
  <2>9. \A e \in listed : Count(peer'[e].out, "+0") = Count(peer[e].out, "+0")
    BY <1>1, <2>2, <2>3
  <2>10. \A e \in listed : Balance(e)' = Balance(e)
    BY <1>1, <1>2, <1>3, <2>5, <2>9 DEF Balance
  <2>11. waits' \in [Devices -> Nat]
    BY <2>1, Types
  <2>12. QED
    BY <1>1, <2>4, <2>6, <2>7, <2>8, <2>10, <2>11, Types, CentraldStep
<1>6. QED
  BY <1>4, <1>5

\* p has the commands of c, the connection of centrald to e, and has answered
\* no round.
Told(c, p, e) ==
  /\ Plain(p, Askers \ {e}) /\ Alike(c, p)
  /\ Count(p.out, "+0") = Count(c.out, "+0")

\* A BOP state is written.
LEMMA TellTold ==
  ASSUME NEW e, NEW c, Plain(c, Askers \ {e}), NEW b
  PROVE  Told(c, sendMsg(c, BopState(b)), e)
<1> DEFINE w == BopState(b)
           p == sendMsg(c, w)
<1>1. w \in Texts /\ w # "+0"
  BY DEF BopState, Texts
<1>2. c.out \in Seq(Texts)
  BY DEF Plain, PlainConns
<1> HIDE DEF w
<1>3. Plain(p, Askers \ {e}) /\ Alike(c, p) /\ p.out = Append(c.out, w)
  BY <1>1, WritePlain
<1>4. Count(Append(c.out, w), "+0") = Count(c.out, "+0")
  BY <1>1, <1>2, CountOther
<1> HIDE DEF p
<1>5. Told(c, p, e)
  BY <1>3, <1>4 DEF Told
<1>6. QED
  BY <1>5 DEF p, w

\* bopMaskChanged reaches the listed devices.
LEMMA TellAllEffect ==
  ASSUME NEW ps, NEW l \in SUBSET Devices, NEW w,
         \A e \in l : Plain(ps[e], Askers \ {e})
  PROVE  \A e \in l : Told(ps[e], TellAll(ps, l, w)[e], e)
<1> SUFFICES ASSUME NEW e \in l PROVE Told(ps[e], TellAll(ps, l, w)[e], e)
  OBVIOUS
<1>1. TellAll(ps, l, w)[e] = sendMsg(ps[e], BopState(BopFor(l, w, e)))
  BY DEF TellAll
<1>2. QED
  BY <1>1, TellTold

\* ConnCentrald::setState.
LEMMA StatusReportInv ==
  ASSUME IInv, NEW d \in listed, master[d].out # << >>, StatusReport(d),
         master' = [master EXCEPT ![d] = Rest(@)],
         UNCHANGED <<conn, toClient, listed, owner, busy, camera, alive, since, runs>>
  PROVE  IInv'
<1>1. /\ d \in Devices /\ listed \in SUBSET Devices
      /\ Head(master[d].out) # "status_info"
      /\ word' = [word EXCEPT ![d] = Head(master[d].out) = "S1"]
      /\ peer' = IF word' = word THEN peer ELSE TellAll(peer, listed, word')
      /\ UNCHANGED waits
      /\ \A e \in listed : Plain(peer[e], Askers \ {e})
  BY Types DEF StatusReport, IInv, Linked
<1>2. word' \in [Devices -> BOOLEAN]
  <2> DEFINE b == Head(master[d].out) = "S1"
  <2>1. b \in BOOLEAN /\ word' = [word EXCEPT ![d] = b]
    BY <1>1
  <2> HIDE DEF b
  <2>2. QED
    BY <2>1, Types
<1>3. \A e \in listed : Told(peer[e], peer'[e], e)
  <2>1. \A e \in listed : Told(peer[e], peer[e], e)
    BY <1>1 DEF Told, Alike
  <2>2. \A e \in listed : Told(peer[e], TellAll(peer, listed, word')[e], e)
    BY <1>1, TellAllEffect
  <2>3. QED
    BY <1>1, <2>1, <2>2
<1>4. \A e \in listed : Plain(peer'[e], Askers \ {e}) /\ Alike(peer[e], peer'[e])
  BY <1>3 DEF Told
<1>5. peer' \in [Devices -> Conns]
  <2>1. \A e \in listed : peer'[e] \in Conns
    BY <1>4, SideTexts, PlainTyped
  <2>2. \A e \in Devices \ listed : peer'[e] = peer[e]
    <3>1. \A e \in Devices \ listed : TellAll(peer, listed, word')[e] = peer[e]
      BY DEF TellAll
    <3>2. QED
      BY <1>1, <3>1
  <2>3. \A e \in Devices : peer'[e] \in Conns
    BY <2>1, <2>2, Types
  <2>4. /\ peer = [e \in Devices |-> peer[e]]
        /\ TellAll(peer, listed, word')
             = [e \in Devices |-> TellAll(peer, listed, word')[e]]
    BY Types DEF TellAll
  <2>5. peer' = [e \in Devices |-> peer'[e]]
    BY <1>1, <2>4
  <2>6. QED
    BY <2>3, <2>5
<1>6. Asked' /\ Owed'
  BY <1>1, <1>4, AlikePeers
<1>7. \A e \in listed : Balance(e)' = Balance(e)
  <2>1. \A e \in listed : Count(peer'[e].out, "+0") = Count(peer[e].out, "+0")
    BY <1>3 DEF Told
  <2>2. /\ Count(master'[d].out, "status_info") \in Nat
        /\ Count(master[d].out, "status_info") = Count(master'[d].out, "status_info") + 0
        /\ \A e \in listed \ {d} : master'[e].out = master[e].out
    BY <1>1, CentraldReadsEffect
  <2>3. \A e \in listed : Count(master'[e].out, "status_info")
                            = Count(master[e].out, "status_info")
    BY <2>2
  <2>4. QED
    BY <1>1, <2>1, <2>3 DEF Balance
<1>8. QED
  BY <1>1, <1>2, <1>4, <1>5, <1>6, <1>7, Types, CentraldStep

\* p has the commands of c, and one round more is answered.
Ended(c, p, e) ==
  /\ Plain(p, Askers \ {e}) /\ Alike(c, p)
  /\ Count(p.out, "+0") = Count(c.out, "+0") + 1

\* The BOP state and the return of a round are written.
Ending(c, b) == sendMsg(sendMsg(c, BopState(b)), "+0")

LEMMA AnswerEnds ==
  ASSUME NEW e, NEW c, Plain(c, Askers \ {e}), NEW b
  PROVE  Ended(c, Ending(c, b), e)
<1> DEFINE p == sendMsg(c, BopState(b))
           q == sendMsg(p, "+0")
<1>1. Told(c, p, e)
  BY TellTold
<1> HIDE DEF p
<1>2. Plain(p, Askers \ {e}) /\ p.out \in Seq(Texts) /\ "+0" \in Texts
  BY <1>1 DEF Told, Plain, PlainConns, Texts
<1>3. Plain(q, Askers \ {e}) /\ Alike(p, q) /\ q.out = Append(p.out, "+0")
  BY <1>2, WritePlain
<1> HIDE DEF q
<1>4. Count(Append(p.out, "+0"), "+0") = Count(p.out, "+0") + 1
  BY <1>2, CountOne
<1>5. Ended(c, q, e)
  BY <1>1, <1>3, <1>4 DEF Told, Ended, Alike
<1>6. QED
  BY <1>5 DEF q, p, Ending

\* p no longer holds what c runs.
HoldsLess(c, p, e) ==
  /\ Plain(p, Askers \ {e}) /\ Count(p.out, "+0") = Count(c.out, "+0")
  /\ \A a \in Devices :
       /\ Holds(p, a) <=> Queues(c, a)
       /\ Once(c, a) => Once(p, a)
       /\ Once(c, a) /\ c.running = AskFor(a) => ~Queues(c, a)

\* A return at centrald.
LEMMA ReturnHoldsLess ==
  ASSUME NEW e, NEW c, Plain(c, Askers \ {e})
  PROVE  HoldsLess(c, commandReturn(c), e)
<1> DEFINE N == Askers \ {e}
           p == commandReturn(c)
           h == Head(c.queue)
<1>1. N \subseteq Texts /\ Plain(c, N) /\ c.out \in Seq(Texts)
  BY SideTexts DEF Plain, PlainConns
<1>2. \A n \in N : n # "+0"
  BY TextNames DEF Askers
<1> HIDE DEF N
<1>3. /\ Plain(p, N)
      /\ c.queue = << >> => p.out = c.out
      /\ c.queue # << >> => h \in Asks(N) /\ Wrote(c, p, h.name)
  BY <1>1, ReturnPlain
<1>4. ASSUME NEW a \in Devices
      PROVE  /\ Holds(p, a) <=> Queues(c, a)
             /\ Once(c, a) => Once(p, a)
             /\ Once(c, a) /\ c.running = AskFor(a) => ~Queues(c, a)
  BY <1>1, ReturnHolds
<1>5. \A cmd \in Asks(N) : cmd.name \in N /\ cmd.name \in Texts
  BY <1>1, AsksFacts
<1> HIDE DEF p, h
<1>6. Count(p.out, "+0") = Count(c.out, "+0")
  <2>1. CASE c.queue = << >>
    BY <1>3, <2>1
  <2>2. CASE c.queue # << >>
    <3>1. h.name \in Texts /\ h.name # "+0"
      BY <1>2, <1>3, <1>5, <2>2
    <3>2. Count(Append(c.out, h.name), "+0") = Count(c.out, "+0")
      BY <1>1, <3>1, CountOther
    <3>3. QED
      BY <1>3, <2>2, <3>2 DEF Wrote
  <2>3. QED
    BY <2>1, <2>2
<1>7. HoldsLess(c, p, e)
  BY <1>3, <1>4, <1>6 DEF HoldsLess, N
<1>8. QED
  BY <1>7 DEF p

\* The status of the returning command is set twice.
LEMMA ReturnTwice ==
  ASSUME NEW N, NEW c, Plain(c, N)
  PROVE  commandReturn([c EXCEPT !.status = "RETURNING"]) = commandReturn(c)
<1> DEFINE r == [c EXCEPT !.status = "RETURNING"]
<1>1. c \in PlainConns(N)
  BY DEF Plain
<1>2. [r EXCEPT !.status = "RETURNING"] = r
  BY <1>1 DEF PlainConns
<1>3. QED
  BY <1>2 DEF commandReturn

\* All that were asked on behalf of a, d left out of account, have answered.
Over(a, d) ==
  a \in listed /\ \A e \in listed \ {d} : ~Holds(peer[e], a)

\* What the return of a status call does.
LEMMA StatusReturnEffect ==
  ASSUME IInv, NEW d \in listed, StatusReturn(d), peer[d].running # NoCommand,
         NEW a, a = peer[d].running.name
  PROVE  /\ peer[d].running = AskFor(a) /\ a \in Askers \ {d} /\ UNCHANGED word
         /\ peer' \in [Devices -> Conns]
         /\ peer'[d] = commandReturn(peer[d])
         /\ \A e \in listed \ {a, d} : peer'[e] = peer[e]
         /\ Over(a, d) => /\ peer'[a] = Ending(peer[a], BopFor(listed, word, a))
                          /\ waits' = [waits EXCEPT ![a] = waits[a] - 1]
         /\ ~Over(a, d) => /\ a \in listed => peer'[a] = peer[a]
                           /\ waits' = waits
<1> DEFINE ps == [peer EXCEPT ![d].status = "RETURNING"]
           answered == a \in Devices /\ Answers(ps, listed, a, {d})
           qs == IF answered THEN Answer(ps, listed, word, a) ELSE ps
           c == commandReturn(peer[d])
<1>1. /\ d \in Devices /\ listed \subseteq Devices /\ UNCHANGED word
      /\ peer' = [qs EXCEPT ![d] = commandReturn(qs[d])]
      /\ waits' = IF answered THEN [waits EXCEPT ![a] = waits[a] - 1] ELSE waits
  BY Types DEF StatusReturn
<1>2. \A e \in listed : Plain(peer[e], Askers \ {e})
  BY DEF IInv, Linked
<1>3. peer[d].running = AskFor(a) /\ a \in Askers \ {d}
  <2>1. peer[d].running \in Asks(Askers \ {d}) /\ Askers \ {d} \subseteq Texts
    BY <1>2, SideTexts DEF Plain, PlainConns
  <2>2. QED
    BY <2>1, AsksFacts
<1>4. \A e \in Devices \ {d} : ps[e] = peer[e]
  BY Types
<1>5. answered <=> Over(a, d)
  <2>1. \A e \in listed \ {d}, b \in Devices : PendingOn(peer[e], b) <=> Holds(peer[e], b)
    BY <1>2, PendingIsHolds
  <2>2. \A e \in listed \ {d} : ps[e] = peer[e]
    BY <1>1, <1>4
  <2> HIDE DEF ps
  <2>3. QED
    BY <1>1, <2>1, <2>2 DEF Answers, Over
<1>6. qs[d] = [peer[d] EXCEPT !.status = "RETURNING"]
  <2>1. ps[d] = [peer[d] EXCEPT !.status = "RETURNING"]
    BY <1>1, Types
  <2> HIDE DEF ps
  <2>2. answered => qs[d] = ps[d]
    BY <1>1, <1>3 DEF Answer
  <2>3. QED
    BY <2>1, <2>2
<1>7. commandReturn(qs[d]) = c
  BY <1>2, <1>6, ReturnTwice
<1>8. /\ DOMAIN qs = Devices
      /\ \A e \in Devices \ {a, d} : qs[e] = peer[e]
      /\ ~answered => \A e \in Devices \ {d} : qs[e] = peer[e]
      /\ answered => qs[a] = Ending(peer[a], BopFor(listed, word, a))
  <2>1. DOMAIN ps = Devices
    BY Types
  <2> HIDE DEF ps
  <2>2. QED
    BY <1>3, <1>4, <2>1 DEF Answer, Ending
<1> HIDE DEF qs, answered, c
<1>9. /\ peer' = [e \in Devices |-> peer'[e]] /\ peer'[d] = c
      /\ \A e \in Devices \ {d} : peer'[e] = qs[e]
  BY <1>1, <1>7, <1>8
<1>10. Over(a, d) => peer'[a] = Ending(peer[a], BopFor(listed, word, a))
  BY <1>1, <1>3, <1>5, <1>8, <1>9 DEF Over
<1>11. peer' \in [Devices -> Conns]
  <2>1. \A p : \A e : Plain(p, Askers \ {e}) => p \in Conns
    BY SideTexts, PlainTyped
  <2>2. peer'[d] \in Conns
    <3>1. Plain(c, Askers \ {d})
      BY <1>2, ReturnHoldsLess DEF HoldsLess, c
    <3>2. QED
      BY <1>9, <2>1, <3>1
  <2>3. Over(a, d) => peer'[a] \in Conns
    <3>1. Over(a, d) => Plain(peer[a], Askers \ {a})
      BY <1>2 DEF Over
    <3>2. Over(a, d) => Ended(peer[a], peer'[a], a)
      BY <1>10, <3>1, AnswerEnds
    <3>3. QED
      BY <2>1, <3>2 DEF Ended
  <2>4. \A e \in Devices : peer'[e] \in Conns
    BY <1>5, <1>8, <1>9, <2>2, <2>3, Types
  <2>5. QED
    BY <1>9, <2>4
<1>12. QED
  BY <1>1, <1>3, <1>5, <1>8, <1>9, <1>10, <1>11 DEF c

\* CommandStatusInfo::commandReturnOK.
LEMMA StatusReturnInv ==
  ASSUME IInv, NEW d \in listed, master[d].out # << >>, StatusReturn(d),
         master' = [master EXCEPT ![d] = Rest(@)],
         UNCHANGED <<conn, toClient, listed, owner, busy, camera, alive, since, runs>>
  PROVE  IInv'
<1>1. /\ d \in Devices /\ listed \subseteq Devices
      /\ Head(master[d].out) # "status_info"
      /\ \A e \in listed : Plain(peer[e], Askers \ {e})
  BY Types DEF StatusReturn, IInv, Linked
<1>2. /\ \A e \in listed : Count(master'[e].out, "status_info")
                             = Count(master[e].out, "status_info")
      /\ \A e \in listed : Count(master[e].out, "status_info") \in Nat
      /\ \A e \in listed : Count(peer[e].out, "+0") \in Nat
      /\ \A e \in listed : waits[e] \in Nat
  <2>1. /\ Count(master'[d].out, "status_info") \in Nat
        /\ Count(master[d].out, "status_info") = Count(master'[d].out, "status_info") + 0
        /\ \A e \in listed \ {d} : master'[e].out = master[e].out
    BY <1>1, CentraldReadsEffect
  <2>2. \A e \in listed : /\ Count(master[e].out, "status_info") \in Nat
                          /\ Count(peer[e].out, "+0") \in Nat
    BY <1>1, Types, CountFacts
  <2>3. QED
    BY <1>1, <2>1, <2>2, Types
<1>3. CASE peer[d].running = NoCommand
  <2>1. peer' = peer /\ waits' = waits /\ UNCHANGED word
    <3>1. NoCommand.name \notin Devices
      BY TextNames DEF NoCommand, NewCommand
    <3>2. QED
      BY <1>3, <3>1 DEF StatusReturn
  <2>2. Asked' /\ Owed'
    BY <2>1 DEF IInv, Asked, Owed
  <2>3. \A e \in listed : Balance(e)' = Balance(e)
    BY <1>2, <2>1 DEF Balance
  <2>4. QED
    BY <1>1, <2>1, <2>2, <2>3, Types, CentraldStep
<1>4. CASE peer[d].running # NoCommand
  <2> DEFINE a == peer[d].running.name
  <2>1. /\ peer[d].running = AskFor(a) /\ a \in Askers \ {d} /\ UNCHANGED word
        /\ peer' \in [Devices -> Conns]
        /\ HoldsLess(peer[d], peer'[d], d)
        /\ \A e \in listed \ {a, d} : peer'[e] = peer[e]
        /\ Over(a, d) => /\ Ended(peer[a], peer'[a], a)
                         /\ waits' = [waits EXCEPT ![a] = waits[a] - 1]
        /\ ~Over(a, d) => /\ a \in listed => peer'[a] = peer[a]
                          /\ waits' = waits
    <3>1. /\ peer[d].running = AskFor(a) /\ a \in Askers \ {d} /\ UNCHANGED word
          /\ peer' \in [Devices -> Conns]
          /\ peer'[d] = commandReturn(peer[d])
          /\ \A e \in listed \ {a, d} : peer'[e] = peer[e]
          /\ Over(a, d) => /\ peer'[a] = Ending(peer[a], BopFor(listed, word, a))
                           /\ waits' = [waits EXCEPT ![a] = waits[a] - 1]
          /\ ~Over(a, d) => /\ a \in listed => peer'[a] = peer[a]
                            /\ waits' = waits
      BY <1>4, StatusReturnEffect
    <3>2. HoldsLess(peer[d], peer'[d], d)
      <4>1. Plain(peer[d], Askers \ {d})
        BY <1>1
      <4>2. HoldsLess(peer[d], commandReturn(peer[d]), d)
        BY <4>1, ReturnHoldsLess
      <4>3. QED
        BY <3>1, <4>2
    <3>3. Over(a, d) => Ended(peer[a], peer'[a], a)
      <4> HIDE DEF a
      <4>1. Over(a, d) => Plain(peer[a], Askers \ {a})
        BY <1>1 DEF Over
      <4>2. QED
        BY <3>1, <4>1, AnswerEnds
    <3>4. QED
      BY <3>1, <3>2, <3>3
  <2> HIDE DEF a
  <2>2. \A e \in listed \ {d} : Plain(peer'[e], Askers \ {e}) /\ Alike(peer[e], peer'[e])
    BY <1>1, <2>1 DEF Alike, Ended, Over
  <2>3. \A e \in listed \ {d}, b \in Devices :
          /\ Holds(peer'[e], b) <=> Holds(peer[e], b)
          /\ Once(peer[e], b) => Once(peer'[e], b)
    BY <2>2, AlikeHolds
  <2>4. \A b \in Devices : /\ Holds(peer'[d], b) <=> Queues(peer[d], b)
                           /\ Once(peer'[d], b)
                           /\ b = a => ~Queues(peer[d], b)
    BY <2>1 DEF IInv, Asked, HoldsLess
  <2>5. a \in Devices => waits[a] > 0 /\ a \in listed
    BY <2>1 DEF IInv, Asked, Holds
  <2>6. Over(a, d) => a \in Devices /\ waits[a] = 1
    BY <1>1, <1>2, <2>5 DEF Over, IInv, Balanced, Balance
  <2>7. \A b \in listed : waits'[b] = IF Over(a, d) /\ b = a THEN 0 ELSE waits[b]
    BY <1>1, <2>1, <2>6, Types
  <2>8. Asked'
    <3> SUFFICES ASSUME NEW e \in listed, NEW b \in Devices
                 PROVE  /\ Once(peer'[e], b)
                        /\ Holds(peer'[e], b) => b \in listed /\ waits'[b] > 0
      BY DEF Asked
    <3>1. /\ Once(peer[e], b)
          /\ Holds(peer[e], b) => b \in listed /\ waits[b] > 0
      BY DEF IInv, Asked
    <3>2. CASE e = d
      BY <2>4, <2>7, <3>1, <3>2 DEF Holds
    <3>3. CASE e # d
      BY <2>3, <2>7, <3>1, <3>3 DEF Over
    <3>4. QED
      BY <3>2, <3>3
  <2>9. Owed'
    <3> SUFFICES ASSUME NEW b \in listed, waits'[b] > 0
                 PROVE  \E e \in listed : Holds(peer'[e], b)
      BY DEF Owed
    <3>1. waits[b] > 0 /\ b \in Devices /\ ~(Over(a, d) /\ b = a)
      BY <1>1, <2>7
    <3>2. PICK e \in listed : Holds(peer[e], b)
      BY <3>1 DEF IInv, Owed
    <3>3. CASE e # d
      BY <2>3, <3>1, <3>2, <3>3
    <3>4. CASE e = d /\ b = a
      <4>1. PICK f \in listed \ {d} : Holds(peer[f], a)
        BY <3>1, <3>4 DEF Over
      <4>2. QED
        BY <2>3, <3>1, <3>4, <4>1
    <3>5. CASE e = d /\ b # a
      <4>1. peer[d].running # AskFor(b)
        BY <2>1, <3>5, AskInjective
      <4>2. Queues(peer[d], b)
        BY <3>2, <3>5, <4>1 DEF Holds
      <4>3. QED
        BY <2>4, <3>1, <4>2
    <3>6. QED
      BY <3>3, <3>4, <3>5
  <2>10. \A e \in listed : Balance(e)' = Balance(e)
    <3>1. d # a /\ Count(peer'[d].out, "+0") = Count(peer[d].out, "+0")
      BY <2>1 DEF HoldsLess
    <3>2. \A e \in listed : Count(peer'[e].out, "+0")
            = Count(peer[e].out, "+0") + (IF Over(a, d) /\ e = a THEN 1 ELSE 0)
      BY <1>2, <2>1, <3>1 DEF Ended
    <3>3. QED
      BY <1>2, <2>6, <2>7, <3>2 DEF Balance
  <2>11. waits' \in [Devices -> Nat]
    <3>1. Over(a, d) => waits' = [waits EXCEPT ![a] = 0]
      BY <2>1, <2>6
    <3>2. QED
      BY <2>1, <3>1, Types
  <2>12. \A e \in listed : Plain(peer'[e], Askers \ {e})
    BY <2>1, <2>2 DEF HoldsLess
  <2>13. QED
    BY <2>1, <2>8, <2>9, <2>10, <2>11, <2>12, Types, CentraldStep
<1>5. QED
  BY <1>3, <1>4

\* Everything centrald reads.
LEMMA CentraldReadsInv ==
  ASSUME IInv, NEW d \in Devices, CentraldReads(d)
  PROVE  IInv'
BY StatusInfoInv, StatusReportInv, StatusReturnInv DEF CentraldReads

\* p has what c holds on behalf of others than d, and no round more is answered.
Orphaned(c, p, e, d) ==
  /\ Plain(p, Askers \ {e}) /\ p.out = c.out
  /\ \A a \in Devices : /\ Holds(p, a) <=> Holds(c, a) /\ a # d
                        /\ Once(c, a) => Once(p, a)

\* Block::deleteConnection.
LEMMA OrphanOrphans ==
  ASSUME NEW e \in Devices, NEW c, Plain(c, Askers \ {e}), NEW d \in Devices
  PROVE  Orphaned(c, Orphan(c, d), e, d)
<1> DEFINE N == Askers \ {e}
           p == Orphan(c, d)
<1>1. N \subseteq Askers /\ "orphan" \in N /\ Plain(c, N)
  BY TextNames DEF Askers
<1> HIDE DEF N
<1>2. /\ Plain(p, N) /\ p.out = c.out
      /\ \A a \in Devices : /\ Holds(p, a) <=> Holds(c, a) /\ a # d
                            /\ Once(c, a) => Once(p, a)
  BY <1>1, OrphanHolds
<1> HIDE DEF p
<1>3. Orphaned(c, p, e, d)
  BY <1>2 DEF Orphaned, N
<1>4. QED
  BY <1>3 DEF p

\* p has what c holds on behalf of others than d, and n rounds more are answered.
Remains(c, p, e, d, n) ==
  /\ Plain(p, Askers \ {e}) /\ Count(p.out, "+0") = Count(c.out, "+0") + n
  /\ \A a \in Devices : /\ Holds(p, a) <=> Holds(c, a) /\ a # d
                        /\ Once(c, a) => Once(p, a)

\* Nobody in the list but d owes an answer to a.
LeftAlone(a, d) ==
  /\ a \in listed \ {d} /\ waits[a] > 0
  /\ \A e \in listed \ {d} : ~Holds(peer[e], a)

\* The connection of a lost device is one of the model,
LEMMA BrokenTyped == NewConnection("broken") \in Conns
<1>1. << >> \in Seq(Cmds) /\ << >> \in Seq(Texts) /\ {} \in SUBSET {Bit}
  OBVIOUS
<1>2. NoCommand \in Cmds
  BY AskFacts
<1>3. QED
  BY <1>1, <1>2 DEF NewConnection, Conns, ConnectionRecord, ConnStates

\* and remains so when others are lost.
LEMMA OrphanTyped ==
  ASSUME NEW c \in Conns, NEW d
  PROVE  Orphan(c, d) \in Conns
<1> DEFINE o(cmd) == IF cmd = AskFor(d) THEN AskFor("orphan") ELSE cmd
           q == [i \in DOMAIN c.queue |-> o(c.queue[i])]
<1>1. c.queue \in Seq(Cmds) /\ c.running \in Cmds
  BY DEF Conns, ConnectionRecord
<1>2. AskFor("orphan") \in Cmds
  BY AskFacts DEF Texts
<1>3. \A cmd \in Cmds : o(cmd) \in Cmds
  BY <1>2
<1>4. q \in Seq(Cmds)
  BY <1>1, <1>3
<1>5. Orphan(c, d) = [c EXCEPT !.running = o(c.running), !.queue = q]
  BY DEF Orphan, Conns, ConnectionRecord
<1> HIDE DEF q, o
<1>6. QED
  BY <1>1, <1>3, <1>4, <1>5 DEF Conns, ConnectionRecord

\* The connection to e after the loss of d.
Parted(e, d) ==
  LET b == BopFor(listed \ {d}, word, e)
      p == sendMsg(Orphan(peer[e], d), BopState(b))
  IN  IF LeftAlone(e, d) THEN Ending(p, b) ELSE p

\* What the loss of a device does to the connections that stay.
LEMMA CentraldRemovesEffect ==
  ASSUME IInv, NEW d \in Devices, CentraldRemoves(d)
  PROVE  /\ peer' \in [Devices -> Conns]
         /\ \A e \in listed \ {d} :
              /\ peer'[e] = Parted(e, d)
              /\ Remains(peer[e], peer'[e], e, d, IF LeftAlone(e, d) THEN 1 ELSE 0)
         /\ waits' = [a \in Devices |-> IF a = d THEN 0
                                        ELSE IF LeftAlone(a, d) THEN waits[a] - 1
                                        ELSE waits[a]]
<1> DEFINE l == listed \ {d}
           ps == [e \in Devices |-> Orphan(peer[e], d)]
           qs == TellAll(ps, l, word)
           answered == WaitOver(qs, l)
<1>1. /\ l \in SUBSET Devices /\ l \subseteq listed /\ d \notin l /\ d \in listed
      /\ peer' = [e \in Devices |->
                    IF e = d THEN NewConnection("broken")
                    ELSE IF e \in answered THEN Answer(qs, l, word, e)[e]
                    ELSE qs[e]]
      /\ waits' = [a \in Devices |-> IF a = d THEN 0
                                     ELSE IF a \in answered THEN waits[a] - 1
                                     ELSE waits[a]]
  BY Types DEF CentraldRemoves
<1>2. \A e \in l : Orphaned(peer[e], ps[e], e, d)
  <2> SUFFICES ASSUME NEW e \in l PROVE Orphaned(peer[e], ps[e], e, d)
    OBVIOUS
  <2>1. e \in Devices /\ Plain(peer[e], Askers \ {e})
    BY <1>1 DEF IInv, Linked
  <2>2. ps[e] = Orphan(peer[e], d)
    BY <2>1
  <2>3. QED
    BY <2>1, <2>2, OrphanOrphans
<1>3. \A e \in l : Told(ps[e], qs[e], e)
  <2> HIDE DEF ps, l
  <2>1. \A e \in l : Plain(ps[e], Askers \ {e})
    BY <1>2 DEF Orphaned
  <2>2. QED
    BY <1>1, <2>1, TellAllEffect
<1>4. DOMAIN qs = Devices
  BY DEF TellAll
<1> HIDE DEF ps, qs, l
<1>5. \A e \in l : Remains(peer[e], qs[e], e, d, 0)
  <2> SUFFICES ASSUME NEW e \in l PROVE Remains(peer[e], qs[e], e, d, 0)
    OBVIOUS
  <2>1. \A a \in Devices : /\ Holds(qs[e], a) <=> Holds(ps[e], a)
                           /\ Once(ps[e], a) => Once(qs[e], a)
    BY <1>3, AlikeHolds DEF Told
  <2>2. Count(peer[e].out, "+0") \in Nat
    BY <1>1, Types, CountFacts
  <2>3. Plain(qs[e], Askers \ {e}) /\ Count(qs[e].out, "+0") = Count(peer[e].out, "+0") + 0
    BY <1>2, <1>3, <2>2 DEF Told, Orphaned
  <2>4. \A a \in Devices : /\ Holds(qs[e], a) <=> Holds(peer[e], a) /\ a # d
                           /\ Once(peer[e], a) => Once(qs[e], a)
    BY <1>2, <2>1 DEF Orphaned
  <2>5. QED
    BY <2>3, <2>4 DEF Remains
<1>6. \A a \in Devices \ {d} : a \in answered <=> LeftAlone(a, d)
  <2> SUFFICES ASSUME NEW a \in Devices \ {d}
               PROVE  a \in answered <=> LeftAlone(a, d)
    OBVIOUS
  <2>1. \A e \in l : PendingOn(qs[e], a) <=> Holds(peer[e], a)
    <3>1. \A e \in l : Plain(qs[e], Askers \ {e}) /\ (Holds(qs[e], a) <=> Holds(peer[e], a))
      BY <1>5 DEF Remains
    <3>2. QED
      BY <3>1, PendingIsHolds
  <2>2. QED
    BY <2>1 DEF WaitOver, Answers, LeftAlone, l
<1>7. \A e \in answered : Answer(qs, l, word, e)[e]
                            = Ending(qs[e], BopFor(l, word, e))
  BY <1>1, <1>4 DEF Answer, WaitOver, Ending
<1>8. /\ answered \subseteq l
      /\ \A e \in l : qs[e] = sendMsg(Orphan(peer[e], d), BopState(BopFor(l, word, e)))
  BY <1>1 DEF WaitOver, qs, ps, TellAll
<1> HIDE DEF answered
<1>9. \A e \in l : Remains(peer[e], peer'[e], e, d, IF LeftAlone(e, d) THEN 1 ELSE 0)
  <2> SUFFICES ASSUME NEW e \in l
               PROVE  Remains(peer[e], peer'[e], e, d, IF LeftAlone(e, d) THEN 1 ELSE 0)
    OBVIOUS
  <2>1. e \in Devices \ {d}
    BY <1>1
  <2>2. CASE ~LeftAlone(e, d)
    BY <1>1, <1>5, <1>6, <2>1, <2>2
  <2>3. CASE LeftAlone(e, d)
    <3> DEFINE b == BopFor(l, word, e)
    <3>1. peer'[e] = Ending(qs[e], b)
      BY <1>1, <1>6, <1>7, <2>1, <2>3
    <3>2. Remains(peer[e], qs[e], e, d, 0)
      BY <1>5
    <3> HIDE DEF b
    <3>3. Ended(qs[e], peer'[e], e)
      BY <3>1, <3>2, AnswerEnds DEF Remains
    <3>4. \A a \in Devices : /\ Holds(peer'[e], a) <=> Holds(qs[e], a)
                             /\ Once(qs[e], a) => Once(peer'[e], a)
      BY <3>3, AlikeHolds DEF Ended
    <3>5. Count(peer[e].out, "+0") \in Nat
      BY <2>1, Types, CountFacts
    <3>6. Remains(peer[e], peer'[e], e, d, 1)
      BY <3>2, <3>3, <3>4, <3>5 DEF Remains, Ended
    <3>7. QED
      BY <2>3, <3>6
  <2>4. QED
    BY <2>2, <2>3
<1>10. peer' \in [Devices -> Conns]
  <2>1. \A e \in l : peer'[e] \in Conns
    BY <1>9, SideTexts, PlainTyped DEF Remains
  <2>2. peer'[d] \in Conns
    <3>1. NewConnection("broken") \in Conns
      BY BrokenTyped
    <3>2. QED
      BY <1>1, <3>1
  <2>3. \A e \in Devices \ listed : peer'[e] \in Conns
    <3>1. \A e \in Devices \ listed : qs[e] = Orphan(peer[e], d)
      BY DEF TellAll, qs, ps, l
    <3>2. \A e \in Devices \ listed : peer'[e] = qs[e]
      BY <1>1, <1>8 DEF l
    <3>3. \A e \in Devices : Orphan(peer[e], d) \in Conns
      <4>1. \A e \in Devices : peer[e] \in Conns
        BY Types
      <4>2. QED
        BY <4>1, OrphanTyped
    <3>4. QED
      BY <3>1, <3>2, <3>3
  <2>4. QED
    BY <1>1, <2>1, <2>2, <2>3 DEF l
<1>11. \A e \in l : peer'[e] = Parted(e, d)
  BY <1>1, <1>6, <1>7, <1>8 DEF Parted, l
<1>12. QED
  BY <1>1, <1>6, <1>9, <1>10, <1>11 DEF l

\* Centrald::connectionRemoved.
LEMMA CentraldRemovesInv ==
  ASSUME IInv, NEW d \in Devices, CentraldRemoves(d)
  PROVE  IInv'
<1>1. /\ d \in listed /\ d \notin alive /\ listed' = listed \ {d}
      /\ listed \subseteq Devices
      /\ word' = [word EXCEPT ![d] = FALSE]
      /\ master' = [master EXCEPT ![d] = NewConnection("broken")]
      /\ UNCHANGED <<conn, toClient, owner, busy, camera, alive, since, runs>>
  BY Types DEF CentraldRemoves
<1>2. /\ peer' \in [Devices -> Conns]
      /\ \A e \in listed' :
           Remains(peer[e], peer'[e], e, d, IF LeftAlone(e, d) THEN 1 ELSE 0)
      /\ \A a \in Devices : waits'[a] = IF a = d THEN 0
                                        ELSE IF LeftAlone(a, d) THEN waits[a] - 1
                                        ELSE waits[a]
      /\ DOMAIN waits' = Devices /\ waits' = [a \in Devices |-> waits'[a]]
  BY <1>1, CentraldRemovesEffect
<1>3. /\ \A e \in listed' : master'[e] = master[e]
      /\ master' \in [Devices -> Conns]
  BY <1>1, Types, BrokenTyped
<1>4. /\ \A e \in listed : /\ Count(master[e].out, "status_info") \in Nat
                           /\ Count(peer[e].out, "+0") \in Nat
      /\ \A e \in Devices : waits[e] \in Nat
      /\ \A e \in listed : Balance(e) <= 1
  BY <1>1, Types, CountFacts DEF IInv, Balanced
<1>5. \A a \in Devices : LeftAlone(a, d) => waits[a] = 1
  <2> SUFFICES ASSUME NEW a \in Devices, LeftAlone(a, d) PROVE waits[a] = 1
    OBVIOUS
  <2>1. a \in listed /\ waits[a] > 0
    BY DEF LeftAlone
  <2>2. QED
    BY <1>4, <2>1 DEF Balance
<1>6. Linked'
  <2>1. \A e \in listed' : Plain(peer'[e], Askers \ {e})
    BY <1>2 DEF Remains
  <2>2. QED
    BY <1>1, <1>3, <2>1 DEF IInv, Linked
<1>7. Asked'
  <2> SUFFICES ASSUME NEW e \in listed', NEW a \in Devices
               PROVE  /\ Once(peer'[e], a)
                      /\ Holds(peer'[e], a) => a \in listed' /\ waits'[a] > 0
    BY DEF Asked
  <2>1. /\ Once(peer[e], a)
        /\ Holds(peer[e], a) => a \in listed /\ waits[a] > 0
    BY <1>1 DEF IInv, Asked
  <2>2. /\ Holds(peer'[e], a) <=> Holds(peer[e], a) /\ a # d
        /\ Once(peer[e], a) => Once(peer'[e], a)
    BY <1>2 DEF Remains
  <2>3. Holds(peer[e], a) => ~LeftAlone(a, d)
    BY <1>1 DEF LeftAlone
  <2>4. QED
    BY <1>1, <1>2, <2>1, <2>2, <2>3
<1>8. Owed'
  <2> SUFFICES ASSUME NEW a \in listed', waits'[a] > 0
               PROVE  \E e \in listed' : Holds(peer'[e], a)
    BY DEF Owed
  <2>1. a \in listed \ {d} /\ a \in Devices /\ ~LeftAlone(a, d) /\ waits[a] > 0
    BY <1>1, <1>2, <1>5
  <2>2. PICK e \in listed' : Holds(peer[e], a)
    BY <1>1, <2>1 DEF LeftAlone
  <2>3. Holds(peer'[e], a)
    BY <1>2, <2>1, <2>2 DEF Remains
  <2>4. QED
    BY <2>3
<1>9. Balanced'
  <2>1. \A e \in listed' : Count(peer'[e].out, "+0")
          = Count(peer[e].out, "+0") + (IF LeftAlone(e, d) THEN 1 ELSE 0)
    BY <1>2 DEF Remains
  <2>2. \A e \in listed' : Balance(e)' = Balance(e)
    BY <1>1, <1>2, <1>3, <1>4, <1>5, <2>1 DEF Balance
  <2>3. QED
    BY <1>1, <1>3, <2>2, BalanceKept
<1>10. ITypes'
  <2>1. waits' \in [Devices -> Nat]
    <3>1. \A a \in Devices : waits'[a] \in Nat
      BY <1>2, <1>4, <1>5
    <3>2. QED
      BY <1>2, <3>1
  <2>2. word' \in [Devices -> BOOLEAN] /\ alive' \subseteq listed'
        /\ listed' \subseteq Devices
    BY <1>1, Types
  <2>3. QED
    BY <1>1, <1>2, <1>3, <2>1, <2>2, Types, CameraKept, NextTypes
<1>11. QED
  BY <1>6, <1>7, <1>8, <1>9, <1>10 DEF IInv

-----------------------------------------------------------------------------
\* Every step keeps the invariant.
LEMMA NextIInv == IInv /\ [Next]_vars => IInv'
<1> SUFFICES ASSUME IInv, [Next]_vars PROVE IInv'
  OBVIOUS
<1>1. ASSUME NEW x \in Clients, ClientQueues(x) PROVE IInv'
  BY <1>1, ClientQueuesInv
<1>2. ASSUME NEW x \in Clients, ClientReads(x) PROVE IInv'
  BY <1>2, ClientReadsInv
<1>3. ASSUME NEW x \in Clients, DeviceReadsClient(x) PROVE IInv'
  BY <1>3, DeviceReadsClientInv
<1>4. ASSUME NEW d \in Devices, DeviceFinishes(d) PROVE IInv'
  BY <1>4, DeviceFinishesInv
<1>11. ASSUME NEW d \in Devices, QueuesValue(d) PROVE IInv'
  BY <1>11, QueuesValueInv
<1>12. ASSUME NEW d \in Devices, ReadingEnds(d) PROVE IInv'
  BY <1>12, ReadingEndsInv
<1>5. ASSUME NEW d \in Devices, DeviceReadsMaster(d) PROVE IInv'
  BY <1>5, DeviceReadsMasterInv
<1>6. ASSUME NEW d \in Devices, Crash(d) PROVE IInv'
  BY <1>6, CrashInv
<1>7. ASSUME NEW d \in Devices, CentraldReads(d) PROVE IInv'
  BY <1>7, CentraldReadsInv
<1>8. ASSUME NEW d \in Devices, CentraldRemoves(d) PROVE IInv'
  BY <1>8, CentraldRemovesInv
<1>9. CASE UNCHANGED vars
  <2>1. ITypes'
    BY <1>9 DEF vars, camera, IInv, ITypes, TypeOK
  <2>2. Linked' /\ Asked' /\ Owed' /\ Balanced'
    BY <1>9, RoundUnchanged DEF vars
  <2>3. QED
    BY <2>1, <2>2 DEF IInv
<1>10. QED
  BY <1>1, <1>2, <1>3, <1>4, <1>5, <1>6, <1>7, <1>8, <1>9, <1>11, <1>12 DEF Next

\* The links, the counts of centrald and what it has asked for always agree.
THEOREM Invariance == Spec => []IInv
<1>1. Init => IInv
  BY InitIInv
<1>2. IInv /\ [Next]_vars => IInv'
  BY NextIInv
<1>3. QED
  BY <1>1, <1>2, PTL DEF Spec

\* The types of the model, among them that a connection of a client runs only
\* commands of that client.
THEOREM TypeCorrect == Spec => []TypeOK
<1>1. IInv => TypeOK
  BY DEF IInv, ITypes
<1>2. QED
  BY <1>1, Invariance, PTL

\* Every status_info of a device is answered exactly once, whatever devices are
\* lost meanwhile.
THEOREM EveryRoundAnswered == Spec => []AnsweredOnce
<1>1. IInv => AnsweredOnce
  <2> SUFFICES ASSUME IInv PROVE AnsweredOnce
    OBVIOUS
  <2>1. alive \subseteq listed
    BY Types
  <2>2. QED
    BY <2>1 DEF IInv, Balanced, Balance, AnsweredOnce
<1>2. QED
  BY <1>1, Invariance, PTL

\* A round that centrald counts is owed by a device still in its list.
THEOREM RoundsAreOwed == Spec => []RoundIsOwed
<1>1. IInv => RoundIsOwed
  <2> SUFFICES ASSUME IInv, NEW d \in listed, waits[d] > 0
               PROVE  \E e \in listed : PendingOn(peer[e], d)
    BY DEF RoundIsOwed
  <2>1. d \in Devices
    BY Types
  <2>2. PICK e \in listed : Holds(peer[e], d)
    BY DEF IInv, Owed
  <2>3. Plain(peer[e], Askers \ {e})
    BY DEF IInv, Linked
  <2>4. PendingOn(peer[e], d)
    BY <2>1, <2>2, <2>3, PendingIsHolds
  <2>5. QED
    BY <2>4
<1>2. QED
  BY <1>1, Invariance, PTL
=============================================================================
