---------------------------------- MODULE MCHub ----------------------------------
(* Hub on small instances.  Everything at once is too much: either the network  *)
(* loses connections, or Redis is given a message twice and connections only    *)
(* end because they are replaced.                                               *)
EXTENDS Hub

VARIABLE trouble

MCInit == Init /\ trouble \in {"loss", "repetition"}

MCNext ==
  /\ Next /\ UNCHANGED trouble
  /\ trouble = "loss" => UNCHANGED again
  /\ trouble = "repetition" => \A c \in Conns : ~Lose(c)

MCSpec == MCInit /\ [][MCNext]_<<vars, trouble>> /\ Fairness
================================================================================
