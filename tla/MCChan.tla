------------------------------- MODULE MCChan -------------------------------
(* A thread that sends and receives, as pool workers do, one that receives, *)
(* one that polls to do both, and two channels, of which a behaviour uses   *)
(* one: a buffered one that is closed when all was sent, or a rendezvous    *)
(* that is closed at any moment, and perhaps again.                         *)
EXTENDS Chan

CONSTANTS worker, receiver, poller, buffered, rendezvous, BufCap
MCChans == {buffered, rendezvous}
MCCap == [c \in MCChans |-> IF c = buffered THEN BufCap ELSE 0]
MCEarlyClose == {rendezvous}
MCProducers == {worker, poller}
MCConsumers == {worker, receiver, poller}
MCTryThreads == {poller}

\* Threads stay with the channel they began with, and only that one is closed.
\* The poller sends once.
OneChannel ==
  /\ ch' = ch
  /\ nsent[poller] = 1 => nsent'[poller] = 1
  /\ \A c \in Chans : (\A t \in Threads : ch[t] # c) => closed'[c] = closed[c]

MCSpec == Init /\ [][Next /\ OneChannel]_vars /\ Fairness
=============================================================================
