CONSTANTS
  worker = worker  receiver = receiver  poller = poller
  buffered = buffered  rendezvous = rendezvous
  BufCap = 2
  Chans <- MCChans
  Cap <- MCCap
  Producers <- MCProducers
  Consumers <- MCConsumers
  TryThreads <- MCTryThreads
  MaxMsgs = 2
  Closable <- MCChans
  EarlyClose <- MCEarlyClose
SPECIFICATION MCSpec
INVARIANTS RingOK FirstInFirstOut NoMissedMeeting ReceivedExactlyOnce SendTrueMeansSent RecvFalseMeansClosed
PROPERTIES WokenThreadsReturn
CHECK_DEADLOCK FALSE
