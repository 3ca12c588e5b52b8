----------------------------- MODULE MCGameSession -----------------------------
(* GameSession on small instances. *)
EXTENDS GameSession, TLC

PlayerSymmetry == Permutations(Players)

Pending == {c \in Calls : reply[c] = "pending"}

\* Two answers under way at a time, and a third when their calls returned (the
\* answers may still be queued); or three disconnects and reconnects; or one answer
\* among two of them, and a shutdown.
NotEverythingAtOnce ==
  \/ connEvents = 0 /\ ~stopCh /\ (answersSent = 3 => Cardinality(Pending) <= 1)
  \/ answersSent = 0 /\ ~stopCh
  \/ answersSent <= 1 /\ connEvents <= 2

================================================================================
