-------------------------------- MODULE Chan --------------------------------
(***************************************************************************)
(* The CSP channels of src/src/chan.c.  Each critical section under        *)
(* c->lock is one action (SpinMutex shows that the lock excludes); the     *)
(* lock-free fast paths, the semaphore wait of a parked thread and the     *)
(* signal sent after the unlock are steps of their own.                    *)
(*                                                                         *)
(* Wait queues are the linked lists of the code: first and last per queue, *)
(* one next link per thread, which chan_close leaves as they are.  The     *)
(* history variable waiting records what these lists should hold; no step  *)
(* looks at it.                                                            *)
(***************************************************************************)
EXTENDS Integers, Sequences, FiniteSets, SequencesExt

CONSTANTS Chans,        \* the channels
          Cap,          \* Cap[c]: qcap, the capacity of c's buffer
          Producers,    \* threads that send
          Consumers,    \* threads that receive; a pool worker does both
          TryThreads,   \* those of them that use the non-blocking calls
          MaxMsgs,      \* bound: messages a producer sends
          Closable,     \* channels that somebody closes
          EarlyClose    \* those closed while producers may still be sending

ASSUME ChanAssumptions ==
  /\ Cap \in [Chans -> Nat]
  /\ MaxMsgs \in Nat
  /\ Closable \subseteq Chans
  /\ EarlyClose \subseteq Closable
  /\ TryThreads \subseteq Producers \cup Consumers

Threads == Producers \cup Consumers
NULL == "NULL"
Zero == <<>>                     \* what memset(elemptr, 0) leaves
Msgs == Producers \X (1..(MaxMsgs + 1))
Queues == {"sendq", "recvq"}

ASSUME NULLAssumption == NULL \notin Threads

VARIABLES qlen, sendx, recvx, buf, closed,    \* chan_t, per channel
          first, last,                        \* WaitQ, per channel and queue
          next, thrclosed, sema, elemptr,     \* Thr, per thread
          elem, into, \* the caller's elements: the one sent and the one received
                      \* into; elemptr points at that of the call that parks
          pc, ch, sig,                        \* locals of a call
          panic,                              \* the process has panicked
          waiting,    \* history: waiting[c][q], the threads enqueued in q
          nsent, accepted, delivered, recvd, ret   \* history

chanVars == <<qlen, sendx, recvx, buf, closed>>
queueVars == <<first, last, next, elemptr, waiting>>
hist == <<nsent, accepted, delivered, recvd>>
vars == <<chanVars, queueVars, thrclosed, sema, elem, into, pc, ch, sig, panic, hist, ret>>

Init ==
  /\ qlen = [c \in Chans |-> 0]
  /\ sendx = [c \in Chans |-> 0]
  /\ recvx = [c \in Chans |-> 0]
  /\ buf = [c \in Chans |-> [i \in 0..(Cap[c] - 1) |-> Zero]]
  /\ closed = [c \in Chans |-> FALSE]
  /\ first = [c \in Chans |-> [q \in Queues |-> NULL]]
  /\ last = [c \in Chans |-> [q \in Queues |-> NULL]]
  /\ waiting = [c \in Chans |-> [q \in Queues |-> <<>>]]
  /\ next = [t \in Threads |-> NULL]
  /\ elemptr = [t \in Threads |-> FALSE]
  /\ thrclosed = [t \in Threads |-> FALSE]
  /\ sema = [t \in Threads |-> 0]
  /\ elem = [t \in Threads |-> Zero]
  /\ into = [t \in Threads |-> Zero]
  /\ pc = [t \in Threads |-> "idle"]
  /\ ch \in [Threads -> Chans] /\ \A t, u \in Threads : ch[t] = ch[u]
  /\ sig = [t \in Threads |-> NULL]
  /\ panic = FALSE
  /\ nsent = [t \in Producers |-> 0]
  /\ accepted = [c \in Chans |-> <<>>]
  /\ delivered = [c \in Chans |-> <<>>]
  /\ recvd = [t \in Consumers |-> <<>>]
  /\ ret = [t \in Threads |-> [ok |-> TRUE, ch |-> ch[t], block |-> FALSE, op |-> "recv"]]

-----------------------------------------------------------------------------
Goto(t, l) == pc' = [pc EXCEPT ![t] = l]

\* The places of a call that sends.
SendCalls == {"send", "trysend", "trysend_full", "sendq", "sendsignal"}

Returns(t, ok) ==
  /\ Goto(t, "idle")
  /\ ret' = [ret EXCEPT ![t] = [ok |-> ok, ch |-> ch[t],
                                block |-> pc[t] \in {"send", "recv", "sendq", "recvq"},
                                op |-> IF pc[t] \in SendCalls THEN "send" ELSE "recv"]]

\* A bug: the list is tested by its tail, which wq_dequeue leaves stale.
EnqueueAtLast(c, q, t) ==
  /\ IF last[c][q] # NULL
     THEN next' = [next EXCEPT ![last[c][q]] = t] /\ UNCHANGED first
     ELSE first' = [first EXCEPT ![c][q] = t] /\ UNCHANGED next
  /\ last' = [last EXCEPT ![c][q] = t]
  /\ waiting' = [waiting EXCEPT ![c][q] = Append(@, t)]

\* wq_enqueue: tests first, because wq_dequeue leaves last alone.
Enqueue(c, q, t) ==
  /\ IF first[c][q] # NULL
     THEN next' = [next EXCEPT ![last[c][q]] = t] /\ UNCHANGED first
     ELSE first' = [first EXCEPT ![c][q] = t] /\ UNCHANGED next
  /\ last' = [last EXCEPT ![c][q] = t]
  /\ waiting' = [waiting EXCEPT ![c][q] = Append(@, t)]

\* wq_dequeue of a queue that is not empty
Dequeue(c, q) ==
  LET t == first[c][q] IN
  /\ first' = [first EXCEPT ![c][q] = next[t]]
  /\ next' = [next EXCEPT ![t] = NULL]
  /\ waiting' = [waiting EXCEPT ![c][q] = Tail(@)]
  /\ UNCHANGED last

\* chan_park up to the unlock
Park(t, c, q) ==
  /\ elemptr' = [elemptr EXCEPT ![t] = TRUE]
  /\ Enqueue(c, q, t)
  /\ Goto(t, q)

Full(c)  == IF Cap[c] = 0 THEN first[c]["recvq"] = NULL ELSE qlen[c] = Cap[c]
Empty(c) == IF Cap[c] = 0 THEN first[c]["sendq"] = NULL ELSE qlen[c] = 0

\* Bugs: no wrap at the end of the buffer; an index that is not advanced.
AfterNoWrap(c, i) == i + 1
AfterSame(c, i) == i

\* The slot after i in the ring buffer.
After(c, i) == IF i = Cap[c] - 1 THEN 0 ELSE i + 1

\* A bug: a parked thread does not wait.
AwakeAlways(t) == TRUE

\* thr_wait returns; thr_signal
Awake(t) == sema[t] > 0
Wake(t) == sema' = [sema EXCEPT ![t] = @ + 1]

\* Bugs: a parked receiver is not looked for; an empty channel is taken for a
\* closed one.
NoReceiverUnchecked(c) == TRUE
DrainedUnchecked(c) == qlen[c] = 0

\* The conditions of the locked sections.
NoReceiver(c) == first[c]["recvq"] = NULL
Drained(c) == closed[c] /\ qlen[c] = 0
TakeSenders(c) == qlen[c] = 0

Accept(c, m)  == accepted' = [accepted EXCEPT ![c] = Append(@, m)]
Deliver(c, m) == delivered' = [delivered EXCEPT ![c] = Append(@, m)]
Received(t, m) == recvd' = [recvd EXCEPT ![t] = Append(@, m)]

-----------------------------------------------------------------------------
\* chan_send, chan_trysend: the call, with the unlocked read of c->closed of
\* a non-blocking send.
StartSend(t, c, block) ==
  /\ pc[t] = "idle"
  /\ nsent[t] < MaxMsgs \/ (~block /\ closed[c])
  /\ elem' = [elem EXCEPT ![t] = <<t, nsent[t] + 1>>]
  /\ ch' = [ch EXCEPT ![t] = c]
  /\ Goto(t, CASE block -> "send"
               [] ~block /\ closed[c] -> "trysend"
               [] OTHER -> "trysend_full")
  /\ UNCHANGED <<chanVars, queueVars, thrclosed, sema, into, sig, hist, ret>>

\* The unlocked chan_full of a non-blocking send.
SendFastPath(t) ==
  /\ pc[t] = "trysend_full"
  /\ IF Full(ch[t]) THEN Returns(t, FALSE)
                    ELSE Goto(t, "trysend") /\ UNCHANGED ret
  /\ UNCHANGED <<chanVars, queueVars, thrclosed, sema, elem, into, ch, sig, hist>>

Sending(t) == pc[t] \in {"send", "trysend"}

\* The channel is closed: a blocking send panics.
SendClosed(t) ==
  /\ Sending(t) /\ closed[ch[t]]
  /\ IF pc[t] = "send"
     THEN panic' = TRUE /\ UNCHANGED <<pc, ret>>
     ELSE Returns(t, FALSE) /\ UNCHANGED panic
  /\ UNCHANGED <<chanVars, queueVars, thrclosed, sema, elem, into, ch, sig, hist>>

\* _chan_send_direct: hand the element to the first parked receiver.
SendDirect(t) ==
  LET c == ch[t]
      r == first[c]["recvq"]
  IN
  /\ Sending(t) /\ ~closed[c] /\ r # NULL
  /\ Dequeue(c, "recvq")
  /\ into' = [into EXCEPT ![r] = elem[t]]
  /\ elemptr' = [elemptr EXCEPT ![r] = FALSE]
  /\ sig' = [sig EXCEPT ![t] = r]
  /\ Goto(t, "sendsignal")
  /\ nsent' = [nsent EXCEPT ![t] = @ + 1]
  /\ Accept(c, elem[t]) /\ Deliver(c, elem[t])
  /\ UNCHANGED <<chanVars, thrclosed, sema, elem, ch, recvd, ret>>

\* Room in the buffer.
SendBuffer(t) ==
  LET c == ch[t] IN
  /\ Sending(t) /\ ~closed[c] /\ NoReceiver(c)
  /\ qlen[c] < Cap[c]
  /\ buf' = [buf EXCEPT ![c][sendx[c]] = elem[t]]
  /\ sendx' = [sendx EXCEPT ![c] = After(c, @)]
  /\ qlen' = [qlen EXCEPT ![c] = @ + 1]
  /\ Returns(t, TRUE)
  /\ nsent' = [nsent EXCEPT ![t] = @ + 1]
  /\ Accept(c, elem[t])
  /\ UNCHANGED <<recvx, closed, queueVars, thrclosed, sema, elem, into, ch, sig, delivered, recvd>>

\* No room and no receiver: give up, or park in sendq.
SendBlocked(t) ==
  LET c == ch[t] IN
  /\ Sending(t) /\ ~closed[c] /\ NoReceiver(c)
  /\ qlen[c] >= Cap[c]
  /\ \/ /\ pc[t] = "trysend"
        /\ Returns(t, FALSE)
        /\ UNCHANGED <<queueVars, nsent, accepted>>
     \/ /\ pc[t] = "send"
        /\ Park(t, c, "sendq")
        /\ nsent' = [nsent EXCEPT ![t] = @ + 1]
        /\ Accept(c, elem[t])
        /\ UNCHANGED ret
  /\ UNCHANGED <<chanVars, thrclosed, sema, elem, into, ch, sig, delivered, recvd>>

\* The parked sender wakes up: _chan_send returns true whoever woke it.
WakeSend(t) ==
  /\ pc[t] = "sendq" /\ Awake(t)
  /\ sema' = [sema EXCEPT ![t] = @ - 1]
  /\ Returns(t, TRUE)
  /\ UNCHANGED <<chanVars, queueVars, thrclosed, elem, into, ch, sig, hist>>

-----------------------------------------------------------------------------
\* chan_recv, chan_tryrecv: the call, with the unlocked chan_empty of a
\* non-blocking receive.
StartRecv(t, c, block) ==
  /\ pc[t] = "idle"
  /\ ch' = [ch EXCEPT ![t] = c]
  /\ Goto(t, CASE block -> "recv"
               [] ~block /\ ~Empty(c) -> "tryrecv"
               [] OTHER -> "tryrecv_closed")
  /\ UNCHANGED <<chanVars, queueVars, thrclosed, sema, elem, into, sig, hist, ret>>

\* The unlocked read of c->closed after the channel was seen empty.
RecvFastPath(t) ==
  /\ pc[t] = "tryrecv_closed"
  /\ IF closed[ch[t]] THEN Goto(t, "tryrecv_empty") /\ UNCHANGED ret
                      ELSE Returns(t, FALSE)
  /\ UNCHANGED <<chanVars, queueVars, thrclosed, sema, elem, into, ch, sig, hist>>

\* The second unlocked chan_empty, once the channel was seen closed.
RecvFastPathClosed(t) ==
  /\ pc[t] = "tryrecv_empty"
  /\ IF Empty(ch[t])
     THEN Returns(t, FALSE) /\ into' = [into EXCEPT ![t] = Zero]
     ELSE Goto(t, "tryrecv") /\ UNCHANGED <<into, ret>>
  /\ UNCHANGED <<chanVars, queueVars, thrclosed, sema, elem, ch, sig, hist>>

Receiving(t) == pc[t] \in {"recv", "tryrecv"}

\* Closed and nothing buffered.  (The second test of c->closed, just before
\* chan_recv parks, cannot succeed after this one.)
RecvClosed(t) ==
  LET c == ch[t] IN
  /\ Receiving(t) /\ Drained(c)
  /\ into' = [into EXCEPT ![t] = Zero]
  /\ Returns(t, FALSE)
  /\ UNCHANGED <<chanVars, queueVars, thrclosed, sema, elem, ch, sig, hist>>

CanRecv(t) == Receiving(t) /\ ~Drained(ch[t])

\* _chan_recv_direct: a sender is parked.  Either there is no buffer and its
\* element is taken, or the buffer's head is taken and replaced by it.
RecvDirect(t) ==
  LET c == ch[t]
      s == first[c]["sendq"]
      i == recvx[c]
  IN
  /\ CanRecv(t) /\ s # NULL
  /\ Dequeue(c, "sendq")
  /\ \/ /\ TakeSenders(c)
        /\ into' = [into EXCEPT ![t] = elem[s]]
        /\ Deliver(c, elem[s])
        /\ UNCHANGED chanVars
     \/ /\ ~TakeSenders(c)
        /\ into' = [into EXCEPT ![t] = buf[c][i]]
        /\ buf' = [buf EXCEPT ![c][i] = elem[s]]
        /\ recvx' = [recvx EXCEPT ![c] = After(c, i)]
        /\ sendx' = [sendx EXCEPT ![c] = After(c, i)]
        /\ Deliver(c, buf[c][i])
        /\ UNCHANGED <<qlen, closed>>
  /\ sig' = [sig EXCEPT ![t] = s]
  /\ Goto(t, "recvsignal")
  /\ UNCHANGED <<elemptr, thrclosed, sema, elem, ch, nsent, accepted, recvd, ret>>

\* Take the head of the buffer.
RecvBuffer(t) ==
  LET c == ch[t]
      i == recvx[c]
  IN
  /\ CanRecv(t) /\ first[c]["sendq"] = NULL
  /\ qlen[c] > 0
  /\ into' = [into EXCEPT ![t] = buf[c][i]]
  /\ recvx' = [recvx EXCEPT ![c] = After(c, i)]
  /\ qlen' = [qlen EXCEPT ![c] = @ - 1]
  /\ Deliver(c, buf[c][i]) /\ Received(t, buf[c][i])
  /\ Returns(t, TRUE)
  /\ UNCHANGED <<sendx, buf, closed, queueVars, thrclosed, sema, elem, ch, sig, nsent, accepted>>

\* Nothing to receive: give up, or park in recvq.
RecvBlocked(t) ==
  LET c == ch[t] IN
  /\ CanRecv(t) /\ first[c]["sendq"] = NULL /\ qlen[c] = 0
  /\ \/ pc[t] = "tryrecv" /\ Returns(t, FALSE) /\ UNCHANGED queueVars
     \/ pc[t] = "recv" /\ Park(t, c, "recvq") /\ UNCHANGED ret
  /\ UNCHANGED <<chanVars, thrclosed, sema, elem, into, ch, sig, hist>>

\* The parked receiver wakes up and looks at Thr.closed, which nobody resets.
WakeRecv(t) ==
  /\ pc[t] = "recvq" /\ Awake(t)
  /\ sema' = [sema EXCEPT ![t] = @ - 1]
  /\ \/ /\ thrclosed[t]
        /\ into' = [into EXCEPT ![t] = Zero]
        /\ Returns(t, FALSE)
        /\ UNCHANGED recvd
     \/ /\ ~thrclosed[t]
        /\ Received(t, into[t])
        /\ Returns(t, TRUE)
        /\ UNCHANGED into
  /\ UNCHANGED <<chanVars, queueVars, thrclosed, elem, ch, sig, nsent, accepted, delivered>>

\* thr_signal after the unlock, and the return of a direct transfer.
Signal(t) ==
  /\ pc[t] \in {"sendsignal", "recvsignal"}
  /\ Wake(sig[t])
  /\ sig' = [sig EXCEPT ![t] = NULL]
  /\ Returns(t, TRUE)
  /\ IF pc[t] = "recvsignal" THEN Received(t, into[t]) ELSE UNCHANGED recvd
  /\ UNCHANGED <<chanVars, queueVars, thrclosed, elem, into, ch, nsent, accepted, delivered>>

-----------------------------------------------------------------------------
\* The threads that chan_close meets on a wait queue when it follows the links:
\* the least set with the first thread and, of each thread, the next one.
Linked(c, q) ==
  {t \in Threads : \A S \in SUBSET Threads :
     (/\ first[c][q] # NULL => first[c][q] \in S
      /\ \A u \in S : next[u] # NULL => next[u] \in S) => t \in S}

\* A bug: close wakes nobody.
ParkedNone(c) == {}

ParkedOn(c) == Linked(c, "recvq") \cup Linked(c, "sendq")

ProducersDone ==
  \A t \in Producers : pc[t] \notin SendCalls /\ nsent[t] = MaxMsgs

\* chan_close: marks and wakes everyone on both queues, and leaves the queues
\* as they are.  Closing twice panics.
Close(c) ==
  LET parked == ParkedOn(c) IN
  /\ c \in EarlyClose \/ ProducersDone
  /\ \/ /\ closed[c] /\ c \in EarlyClose
        /\ panic' = TRUE
        /\ UNCHANGED <<closed, thrclosed, sema>>
     \/ /\ ~closed[c]
        /\ closed' = [closed EXCEPT ![c] = TRUE]
        /\ thrclosed' = [t \in Threads |-> thrclosed[t] \/ t \in parked]
        /\ sema' = [t \in Threads |-> IF t \in parked THEN sema[t] + 1 ELSE sema[t]]
        /\ UNCHANGED panic
  /\ UNCHANGED <<qlen, sendx, recvx, buf, queueVars, elem, into, pc, ch, sig, hist, ret>>

-----------------------------------------------------------------------------
Step(t) ==
  \/ /\ UNCHANGED panic
     /\ \/ SendFastPath(t) \/ SendDirect(t) \/ SendBuffer(t) \/ SendBlocked(t)
        \/ RecvFastPath(t) \/ RecvFastPathClosed(t)
        \/ RecvClosed(t) \/ RecvDirect(t) \/ RecvBuffer(t) \/ RecvBlocked(t)
        \/ Signal(t) \/ WakeSend(t) \/ WakeRecv(t)
  \/ SendClosed(t)

Start ==
  /\ \/ \E t \in Producers, c \in Chans : StartSend(t, c, t \notin TryThreads)
     \/ \E t \in Consumers, c \in Chans : StartRecv(t, c, t \notin TryThreads)
  /\ UNCHANGED panic

\* A panic ends the process.
Next ==
  /\ ~panic
  /\ \/ Start
     \/ \E t \in Threads : Step(t)
     \/ \E c \in Closable : Close(c)

\* A call that has begun goes on when it can.
Fairness == \A t \in Threads : WF_vars(~panic /\ pc[t] # "idle" /\ Step(t))

Spec == Init /\ [][Next]_vars /\ Fairness

\* Threads that keep to a channel once it is closed.  Thr.closed and the links
\* of the wait queues are never reset: what a thread brings along from a closed
\* channel spoils its next one.
StaysWithClosed == \A t \in Threads : closed[ch[t]] => ch'[t] = ch[t]
StaySpec == Init /\ [][Next /\ StaysWithClosed]_vars /\ Fairness

-----------------------------------------------------------------------------
PCs == {"idle", "send", "trysend", "trysend_full", "recv", "tryrecv",
        "tryrecv_closed", "tryrecv_empty", "sendsignal", "recvsignal", "sendq", "recvq"}

TypeOK ==
  /\ qlen \in [Chans -> Nat] /\ sendx \in [Chans -> Nat] /\ recvx \in [Chans -> Nat]
  /\ closed \in [Chans -> BOOLEAN]
  /\ first \in [Chans -> [Queues -> Threads \cup {NULL}]]
  /\ last \in [Chans -> [Queues -> Threads \cup {NULL}]]
  /\ next \in [Threads -> Threads \cup {NULL}]
  /\ sema \in [Threads -> Nat]
  /\ pc \in [Threads -> PCs]
  /\ ch \in [Threads -> Chans]
  /\ sig \in [Threads -> Threads \cup {NULL}]

\* The ring buffer of each channel: sendx is qlen slots after recvx, around
\* the end of the buffer, and neither index leaves it.
RingOK ==
  \A c \in Chans :
    /\ qlen[c] <= Cap[c]
    /\ Cap[c] > 0 => /\ sendx[c] < Cap[c] /\ recvx[c] < Cap[c]
                     /\ \/ sendx[c] = recvx[c] + qlen[c]
                        \/ sendx[c] + Cap[c] = recvx[c] + qlen[c]

\* The messages in the buffer, oldest first, and those of parked senders.
Slot(c, i) == IF recvx[c] + i - 1 < Cap[c] THEN recvx[c] + i - 1
                                           ELSE recvx[c] + i - 1 - Cap[c]
Buffered(c) == [i \in 1..qlen[c] |-> buf[c][Slot(c, i)]]
ParkedMsgs(c) == [i \in 1..Len(waiting[c]["sendq"]) |-> elem[waiting[c]["sendq"][i]]]

\* chan_close may have cancelled senders of c.
Cancelled(c) == closed[c] /\ c \in EarlyClose

\* No message is lost, invented or overtaken: what was sent is what was
\* received, then what is buffered, then what parked senders hold.  (Senders
\* that chan_close cancelled are the exception.)
FirstInFirstOut ==
  \A c \in Chans : ~Cancelled(c) =>
    accepted[c] = delivered[c] \o Buffered(c) \o ParkedMsgs(c)

\* Nobody waits for what is there: a sender parks only behind a full buffer,
\* a receiver only before an empty one, and never both at once.
NoMissedMeeting ==
  \A c \in Chans : ~closed[c] =>
    /\ first[c]["sendq"] # NULL => qlen[c] = Cap[c] /\ first[c]["recvq"] = NULL
    /\ first[c]["recvq"] # NULL => qlen[c] = 0

\* A consumer that holds a message it has not returned yet.
InHand(t) ==
  \/ pc[t] = "recvsignal"
  \/ pc[t] = "recvq" /\ t \notin Range(waiting[ch[t]]["recvq"])

\* Each delivered message reaches exactly one receiver: it is in the hand of
\* one whose chan_recv is about to return it, or was returned once.
ReceivedExactlyOnce ==
  LET all == [t \in Consumers |-> recvd[t] \o (IF InHand(t) THEN <<into[t]>> ELSE <<>>)]
  IN  /\ UNION {Range(all[t]) : t \in Consumers} = UNION {Range(delivered[c]) : c \in Chans}
      /\ \A t, u \in Consumers : \A i \in DOMAIN all[t], j \in DOMAIN all[u] :
           all[t][i] = all[u][j] => t = u /\ i = j

\* chan.h on chan_send: it blocks until the message is sent, so a true result
\* means that the message is in the buffer or was received.  (A sender that
\* chan_close cancelled is told the same.)
SendTrueMeansSent ==
  \A t \in Producers :
    (pc[t] = "idle" /\ ret[t].op = "send" /\ ret[t].ok /\ ~Cancelled(ret[t].ch)) =>
      elem[t] \in Range(delivered[ret[t].ch]) \cup Range(Buffered(ret[t].ch))

\* chan.h on chan_recv: "Returns true if a message was received, false if the
\* channel is closed."
RecvFalseMeansClosed ==
  \A t \in Consumers : (ret[t].op = "recv" /\ ret[t].block /\ ~ret[t].ok) => closed[ret[t].ch]

\* A parked thread that was served, or whose channel was closed, returns.
\* Threads that poll never park.
WokenThreadsReturn ==
  \A t \in Threads \ TryThreads :
    (/\ pc[t] \in {"sendq", "recvq"}
     /\ closed[ch[t]] \/ t \notin Linked(ch[t], pc[t]))
      ~> (pc[t] = "idle" \/ panic)
=============================================================================
