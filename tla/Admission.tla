----------------------------- MODULE Admission -----------------------------
(***************************************************************************)
(* What the server promises the clients that register with it: they are    *)
(* called in the order in which their requests were taken, each once, and  *)
(* to a slot that is free; while the server is open a called client plays, *)
(* and once it closes a called client may be turned away.                  *)
(***************************************************************************)
EXTENDS Sequences

CONSTANTS Clients, Slots, NoClient

VARIABLES
  line,     \* the clients whose request was taken, in that order
  called,   \* the client each slot has called, or NoClient
  playing,  \* the slots whose client plays
  done,     \* the clients that have played or were turned away
  closing   \* the server is shutting down

Init ==
  /\ line = <<>>
  /\ called = [s \in Slots |-> NoClient]
  /\ playing = {}
  /\ done = {}
  /\ closing = FALSE

Known == {line[i] : i \in DOMAIN line} \cup {called[s] : s \in Slots} \cup done

Take(c) ==
  /\ c \notin Known
  /\ line' = Append(line, c)
  /\ UNCHANGED <<called, playing, done, closing>>

Call(s) ==
  /\ called[s] = NoClient /\ line # <<>>
  /\ called' = [called EXCEPT ![s] = Head(line)]
  /\ line' = Tail(line)
  /\ UNCHANGED <<playing, done, closing>>

Play(s) ==
  /\ called[s] # NoClient /\ s \notin playing
  /\ playing' = playing \cup {s}
  /\ UNCHANGED <<line, called, done, closing>>

Finish(s) ==
  /\ s \in playing
  /\ playing' = playing \ {s}
  /\ done' = done \cup {called[s]}
  /\ called' = [called EXCEPT ![s] = NoClient]
  /\ UNCHANGED <<line, closing>>

TurnAway(s) ==
  /\ closing
  /\ called[s] # NoClient /\ s \notin playing
  /\ done' = done \cup {called[s]}
  /\ called' = [called EXCEPT ![s] = NoClient]
  /\ UNCHANGED <<line, playing, closing>>

Close ==
  /\ closing' = TRUE
  /\ UNCHANGED <<line, called, playing, done>>

Next ==
  \/ \E c \in Clients : Take(c)
  \/ \E s \in Slots : Call(s) \/ Play(s) \/ Finish(s) \/ TurnAway(s)
  \/ Close

Spec == Init /\ [][Next]_<<line, called, playing, done, closing>>
=============================================================================
