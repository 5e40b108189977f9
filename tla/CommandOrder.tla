---------------------------- MODULE CommandOrder ----------------------------
(***************************************************************************)
(* What a connection promises to those who queue commands on it: commands  *)
(* are carried out one at a time and in the order they were queued; none   *)
(* is carried out twice; only commands not yet begun can be withdrawn,     *)
(* unless the connection itself is lost.                                   *)
(***************************************************************************)
EXTENDS Sequences, SequencesExt

CONSTANTS Names, None

VARIABLES
  todo,   \* commands accepted and not begun
  live,   \* the command being carried out, None if there is none
  gone    \* commands finished, withdrawn or lost

avars == <<todo, live, gone>>

Init == todo = << >> /\ live = None /\ gone = {}

New(n) == n \notin ToSet(todo) \cup {live} \cup gone

\* A command joins the end of the queue, or begins at once when it is alone.
Accept(n) ==
  /\ New(n)
  /\ \/ todo' = Append(todo, n) /\ live' = live
     \/ todo = << >> /\ live = None /\ live' = n /\ todo' = todo
  /\ gone' = gone

Begin ==
  /\ live = None /\ todo # << >>
  /\ live' = Head(todo) /\ todo' = Tail(todo)
  /\ gone' = gone

\* The live command ends; the next one may begin in the same step.
Finish ==
  /\ live # None
  /\ gone' = gone \cup {live}
  /\ \/ live' = None /\ todo' = todo
     \/ todo # << >> /\ live' = Head(todo) /\ todo' = Tail(todo)

Withdraw ==
  /\ gone' = gone \cup ToSet(todo)
  /\ todo' = << >> /\ live' = live

Lose ==
  /\ gone' = gone \cup ToSet(todo) \cup ({live} \ {None})
  /\ todo' = << >> /\ live' = None

Next ==
  \/ \E n \in Names : Accept(n)
  \/ Begin \/ Finish \/ Withdraw \/ Lose

Spec == Init /\ [][Next]_avars
=============================================================================
