----------------------------- MODULE ChanProofs -----------------------------
(***************************************************************************)
(* Proofs about Chan for any channels, capacities, threads and messages,   *)
(* and for any moment of chan_close.                                       *)
(*                                                                         *)
(* RingOK is not inductive: _chan_recv_direct moves sendx to where recvx   *)
(* goes, which is right only if the buffer is full.  The strengthening is  *)
(* that a sender is never parked behind a buffer with room.                *)
(***************************************************************************)
EXTENDS Chan, SequenceTheorems, WellFoundedInduction, TLAPS

\* A parked sender means a full buffer, on closed channels too.
SenderBehindFull ==
  \A c \in Chans : first[c]["sendq"] # NULL => qlen[c] = Cap[c]

IInv == TypeOK /\ RingOK /\ SenderBehindFull /\ NoMissedMeeting

-----------------------------------------------------------------------------
\* The initial state satisfies the invariant.
LEMMA InitIInv == Init => IInv
<1> SUFFICES ASSUME Init PROVE IInv
  OBVIOUS
<1>1. TypeOK
  BY DEF Init, TypeOK, PCs
<1>2. RingOK
  BY ChanAssumptions DEF Init, RingOK
<1>3. SenderBehindFull /\ NoMissedMeeting
  BY DEF Init, SenderBehindFull, NoMissedMeeting, Queues
<1> QED BY <1>1, <1>2, <1>3 DEF IInv

\* What wq_enqueue does to a well-typed set of wait queues.
LEMMA EnqueueEffect ==
  ASSUME TypeOK, NEW c \in Chans, NEW q \in Queues, NEW t \in Threads,
         Enqueue(c, q, t)
  PROVE  /\ first' \in [Chans -> [Queues -> Threads \cup {NULL}]]
         /\ last' \in [Chans -> [Queues -> Threads \cup {NULL}]]
         /\ next' \in [Threads -> Threads \cup {NULL}]
         /\ \A d \in Chans, r \in Queues :
              (d # c \/ r # q) => first'[d][r] = first[d][r]
<1>1. CASE first[c][q] # NULL
  BY <1>1 DEF TypeOK, Enqueue
<1>2. CASE first[c][q] = NULL
  <2>1. first' = [first EXCEPT ![c][q] = t] /\ next' = next
    BY <1>2 DEF Enqueue
  <2>2. first' \in [Chans -> [Queues -> Threads \cup {NULL}]]
    BY <2>1 DEF TypeOK
  <2>3. \A d \in Chans, r \in Queues :
          (d # c \/ r # q) => first'[d][r] = first[d][r]
    BY <2>1 DEF TypeOK
  <2>4. last' \in [Chans -> [Queues -> Threads \cup {NULL}]]
    BY DEF TypeOK, Enqueue
  <2> QED BY <2>1, <2>2, <2>3, <2>4 DEF TypeOK
<1> QED BY <1>1, <1>2

\* What wq_dequeue does to a queue that is not empty.
LEMMA DequeueEffect ==
  ASSUME TypeOK, NEW c \in Chans, NEW q \in Queues, first[c][q] # NULL,
         Dequeue(c, q)
  PROVE  /\ first' \in [Chans -> [Queues -> Threads \cup {NULL}]]
         /\ last' \in [Chans -> [Queues -> Threads \cup {NULL}]]
         /\ next' \in [Threads -> Threads \cup {NULL}]
         /\ \A d \in Chans, r \in Queues :
              (d # c \/ r # q) => first'[d][r] = first[d][r]
<1>1. first[c][q] \in Threads
  BY DEF TypeOK
<1> QED BY <1>1 DEF TypeOK, Dequeue

-----------------------------------------------------------------------------
\* Steps that leave the buffers, the queues and closed alone.
LEMMA QuietStep ==
  ASSUME IInv, TypeOK', UNCHANGED <<chanVars, first>>
  PROVE  IInv'
BY DEF IInv, RingOK, SenderBehindFull, NoMissedMeeting, chanVars

\* Starting a call and the lock-free fast paths.
LEMMA StartStep ==
  ASSUME IInv, NEW t \in Threads, NEW c \in Chans, NEW b \in BOOLEAN,
         \/ StartSend(t, c, b) \/ StartRecv(t, c, b)
         \/ SendFastPath(t) \/ RecvFastPath(t) \/ RecvFastPathClosed(t)
  PROVE  IInv'
<1>1. TypeOK'
  <2>1. CASE StartSend(t, c, b)
    BY <2>1 DEF IInv, TypeOK, PCs, StartSend, Goto, chanVars, queueVars
  <2>2. CASE StartRecv(t, c, b)
    BY <2>2 DEF IInv, TypeOK, PCs, StartRecv, Goto, chanVars, queueVars
  <2>3. CASE SendFastPath(t)
    BY <2>3 DEF IInv, TypeOK, PCs, SendFastPath, Returns, Goto, chanVars, queueVars
  <2>4. CASE RecvFastPath(t)
    BY <2>4 DEF IInv, TypeOK, PCs, RecvFastPath, Returns, Goto, chanVars, queueVars
  <2>5. CASE RecvFastPathClosed(t)
    BY <2>5 DEF IInv, TypeOK, PCs, RecvFastPathClosed, Returns, Goto, chanVars, queueVars
  <2> QED BY <2>1, <2>2, <2>3, <2>4, <2>5
<1>2. UNCHANGED <<chanVars, first>>
  BY DEF StartSend, StartRecv, SendFastPath, RecvFastPath, RecvFastPathClosed,
         queueVars
<1> QED BY <1>1, <1>2, QuietStep

\* Closed channels, signals and wake-ups.
LEMMA WakeStep ==
  ASSUME IInv, NEW t \in Threads,
         \/ SendClosed(t) \/ RecvClosed(t)
         \/ Signal(t) \/ WakeSend(t) \/ WakeRecv(t)
  PROVE  IInv'
<1>1. TypeOK'
  <2>1. CASE SendClosed(t)
    BY <2>1 DEF IInv, TypeOK, PCs, SendClosed, Returns, Goto, chanVars, queueVars
  <2>2. CASE RecvClosed(t)
    BY <2>2 DEF IInv, TypeOK, PCs, RecvClosed, Returns, Goto, chanVars, queueVars
  <2>3. CASE Signal(t)
    <3>1. sema' \in [Threads -> Nat]
      <4>1. sema' = [u \in Threads |-> IF u = sig[t] THEN sema[u] + 1 ELSE sema[u]]
        BY <2>3 DEF IInv, TypeOK, Signal, Wake
      <4> QED BY <4>1 DEF IInv, TypeOK
    <3>2. pc' \in [Threads -> PCs] /\ sig' \in [Threads -> Threads \cup {NULL}]
      BY <2>3 DEF IInv, TypeOK, PCs, Signal, Returns, Goto
    <3> QED BY <2>3, <3>1, <3>2 DEF IInv, TypeOK, Signal, chanVars, queueVars
  <2>4. CASE WakeSend(t)
    BY <2>4 DEF IInv, TypeOK, PCs, WakeSend, Awake, Returns, Goto, chanVars, queueVars
  <2>5. CASE WakeRecv(t)
    <3>1. sema' \in [Threads -> Nat]
      BY <2>5 DEF IInv, TypeOK, WakeRecv, Awake
    <3>2. pc' \in [Threads -> PCs]
      <4>1. pc' = [pc EXCEPT ![t] = "idle"]
        BY <2>5 DEF WakeRecv, Returns, Goto
      <4> QED BY <4>1 DEF IInv, TypeOK, PCs
    <3> QED BY <2>5, <3>1, <3>2 DEF IInv, TypeOK, WakeRecv, chanVars, queueVars
  <2> QED BY <2>1, <2>2, <2>3, <2>4, <2>5
<1>2. UNCHANGED <<chanVars, first>>
  BY DEF SendClosed, RecvClosed, Signal, WakeSend, WakeRecv, queueVars
<1> QED BY <1>1, <1>2, QuietStep

\* _chan_send_direct takes a receiver off its queue.
LEMMA SendDirectStep ==
  ASSUME IInv, NEW t \in Threads, SendDirect(t)
  PROVE  IInv'
<1> DEFINE c == ch[t]
<1>0. c \in Chans /\ "recvq" \in Queues /\ "sendq" \in Queues
  BY DEF IInv, TypeOK, Queues
<1>1. first[c]["recvq"] # NULL /\ Dequeue(c, "recvq") /\ TypeOK
  BY DEF SendDirect, IInv
<1>2. /\ first' \in [Chans -> [Queues -> Threads \cup {NULL}]]
      /\ last' \in [Chans -> [Queues -> Threads \cup {NULL}]]
      /\ next' \in [Threads -> Threads \cup {NULL}]
      /\ \A d \in Chans, r \in Queues :
           (d # c \/ r # "recvq") => first'[d][r] = first[d][r]
  BY <1>0, <1>1, DequeueEffect
<1>3. UNCHANGED chanVars
  BY DEF SendDirect
<1>4. TypeOK'
  <2>1. pc' \in [Threads -> PCs]
    BY DEF IInv, TypeOK, PCs, SendDirect, Goto
  <2>2. sig' \in [Threads -> Threads \cup {NULL}]
    BY <1>0 DEF IInv, TypeOK, SendDirect
  <2> QED BY <1>2, <1>3, <2>1, <2>2 DEF IInv, TypeOK, SendDirect, chanVars
<1>5. RingOK'
  BY <1>3 DEF IInv, RingOK, chanVars
<1>6. SenderBehindFull'
  BY <1>0, <1>2, <1>3 DEF IInv, SenderBehindFull, chanVars
<1>7. NoMissedMeeting'
  <2> SUFFICES ASSUME NEW d \in Chans, ~closed'[d]
               PROVE  /\ first'[d]["sendq"] # NULL =>
                           qlen'[d] = Cap[d] /\ first'[d]["recvq"] = NULL
                      /\ first'[d]["recvq"] # NULL => qlen'[d] = 0
    BY DEF NoMissedMeeting
  <2>1. CASE d = c
    BY <1>0, <1>1, <1>2, <1>3, <2>1 DEF IInv, NoMissedMeeting, chanVars
  <2>2. CASE d # c
    BY <1>0, <1>2, <1>3, <2>2 DEF IInv, NoMissedMeeting, chanVars
  <2> QED BY <2>1, <2>2
<1> QED BY <1>4, <1>5, <1>6, <1>7 DEF IInv

\* A send into the buffer.
LEMMA SendBufferStep ==
  ASSUME IInv, NEW t \in Threads, SendBuffer(t)
  PROVE  IInv'
<1> DEFINE c == ch[t]
<1>0. c \in Chans /\ Cap \in [Chans -> Nat]
  BY ChanAssumptions DEF IInv, TypeOK
<1>1. /\ qlen[c] < Cap[c] /\ first[c]["recvq"] = NULL
      /\ qlen' = [qlen EXCEPT ![c] = @ + 1]
      /\ sendx' = [sendx EXCEPT ![c] = After(c, sendx[c])]
      /\ UNCHANGED <<recvx, closed, first, last, next>>
  BY DEF SendBuffer, NoReceiver, queueVars
<1>2. TypeOK'
  BY <1>0, <1>1 DEF IInv, TypeOK, PCs, SendBuffer, Returns, Goto, After, RingOK
<1>3. RingOK'
  <2> SUFFICES ASSUME NEW d \in Chans
               PROVE  /\ qlen'[d] <= Cap[d]
                      /\ Cap[d] > 0 => /\ sendx'[d] < Cap[d] /\ recvx'[d] < Cap[d]
                                       /\ \/ sendx'[d] = recvx'[d] + qlen'[d]
                                          \/ sendx'[d] + Cap[d] = recvx'[d] + qlen'[d]
    BY DEF RingOK
  <2>1. CASE d = c
    <3>1. /\ qlen[c] \in Nat /\ Cap[c] \in Nat
          /\ sendx[c] \in Nat /\ recvx[c] \in Nat
      BY <1>0 DEF IInv, TypeOK
    <3>2. /\ qlen'[c] = qlen[c] + 1
          /\ sendx'[c] = After(c, sendx[c])
          /\ recvx'[c] = recvx[c]
      BY <1>0, <1>1 DEF IInv, TypeOK
    <3>3. /\ qlen[c] <= Cap[c]
          /\ Cap[c] > 0 => /\ sendx[c] < Cap[c] /\ recvx[c] < Cap[c]
                           /\ \/ sendx[c] = recvx[c] + qlen[c]
                              \/ sendx[c] + Cap[c] = recvx[c] + qlen[c]
      BY <1>0 DEF IInv, RingOK
    <3> HIDE DEF c
    <3>4. CASE sendx[c] = Cap[c] - 1
      BY <1>1, <2>1, <3>1, <3>2, <3>3, <3>4 DEF After
    <3>5. CASE sendx[c] # Cap[c] - 1
      BY <1>1, <2>1, <3>1, <3>2, <3>3, <3>5 DEF After
    <3> QED BY <3>4, <3>5
  <2>2. CASE d # c
    BY <1>0, <1>1, <2>2 DEF IInv, TypeOK, RingOK
  <2> QED BY <2>1, <2>2
<1>4. first[c]["sendq"] = NULL
  BY <1>0, <1>1 DEF IInv, TypeOK, SenderBehindFull
<1>5. SenderBehindFull' /\ NoMissedMeeting'
  BY <1>0, <1>1, <1>4 DEF IInv, TypeOK, SenderBehindFull, NoMissedMeeting
<1> QED BY <1>2, <1>3, <1>5 DEF IInv

\* A send that finds no room.
LEMMA SendBlockedStep ==
  ASSUME IInv, NEW t \in Threads, SendBlocked(t)
  PROVE  IInv'
<1> DEFINE c == ch[t]
<1>0. c \in Chans /\ Cap \in [Chans -> Nat] /\ "sendq" \in Queues /\ "recvq" \in Queues
  BY ChanAssumptions DEF IInv, TypeOK, Queues
<1>1. CASE pc[t] = "trysend"
  <2>1. TypeOK' /\ UNCHANGED <<chanVars, first>>
    BY <1>1 DEF IInv, TypeOK, PCs, SendBlocked, Returns, Goto, chanVars, queueVars
  <2> QED BY <2>1, QuietStep
<1>2. CASE pc[t] = "send"
  <2>1. Enqueue(c, "sendq", t) /\ TypeOK /\ UNCHANGED chanVars
    BY <1>2 DEF SendBlocked, Park, IInv
  <2>2. /\ first' \in [Chans -> [Queues -> Threads \cup {NULL}]]
        /\ last' \in [Chans -> [Queues -> Threads \cup {NULL}]]
        /\ next' \in [Threads -> Threads \cup {NULL}]
        /\ \A d \in Chans, r \in Queues :
             (d # c \/ r # "sendq") => first'[d][r] = first[d][r]
    BY <1>0, <2>1, EnqueueEffect
  <2>3. TypeOK'
    BY <1>2, <2>1, <2>2 DEF IInv, TypeOK, PCs, SendBlocked, Park, Goto, chanVars
  <2>4. qlen[c] = Cap[c] /\ first[c]["recvq"] = NULL
    <3>1. qlen[c] >= Cap[c] /\ first[c]["recvq"] = NULL
      BY DEF SendBlocked, NoReceiver
    <3>2. qlen[c] <= Cap[c] /\ qlen[c] \in Nat /\ Cap[c] \in Nat
      BY <1>0 DEF IInv, TypeOK, RingOK
    <3> QED BY <3>1, <3>2
  <2>5. RingOK'
    BY <2>1 DEF IInv, RingOK, chanVars
  <2>6. SenderBehindFull' /\ NoMissedMeeting'
    <3>1. qlen' = qlen /\ closed' = closed
      BY <2>1 DEF chanVars
    <3>2. SenderBehindFull'
      BY <1>0, <2>2, <2>4, <3>1 DEF IInv, SenderBehindFull
    <3>3. ASSUME NEW d \in Chans, ~closed'[d], d = c
          PROVE  /\ qlen'[d] = Cap[d] /\ first'[d]["recvq"] = NULL
      BY <1>0, <2>2, <2>4, <3>1, <3>3
    <3>4. ASSUME NEW d \in Chans, ~closed'[d], d # c
          PROVE  /\ first'[d]["sendq"] # NULL =>
                      qlen'[d] = Cap[d] /\ first'[d]["recvq"] = NULL
                 /\ first'[d]["recvq"] # NULL => qlen'[d] = 0
      BY <1>0, <2>2, <3>1, <3>4 DEF IInv, NoMissedMeeting
    <3> QED BY <3>2, <3>3, <3>4 DEF NoMissedMeeting
  <2> QED BY <2>3, <2>5, <2>6 DEF IInv
<1> QED BY <1>1, <1>2 DEF SendBlocked

\* _chan_recv_direct: the buffer is full, so both indices move together.
LEMMA RecvDirectStep ==
  ASSUME IInv, NEW t \in Threads, RecvDirect(t)
  PROVE  IInv'
<1> DEFINE c == ch[t]
<1>0. c \in Chans /\ Cap \in [Chans -> Nat] /\ "sendq" \in Queues /\ "recvq" \in Queues
  BY ChanAssumptions DEF IInv, TypeOK, Queues
<1>1. first[c]["sendq"] # NULL /\ Dequeue(c, "sendq") /\ TypeOK
  BY DEF RecvDirect, IInv
<1>2. /\ first' \in [Chans -> [Queues -> Threads \cup {NULL}]]
      /\ last' \in [Chans -> [Queues -> Threads \cup {NULL}]]
      /\ next' \in [Threads -> Threads \cup {NULL}]
      /\ \A d \in Chans, r \in Queues :
           (d # c \/ r # "sendq") => first'[d][r] = first[d][r]
  BY <1>0, <1>1, DequeueEffect
<1>3. qlen[c] = Cap[c] /\ UNCHANGED <<qlen, closed>>
  BY <1>0, <1>1 DEF IInv, SenderBehindFull, RecvDirect, chanVars
<1>4. \/ UNCHANGED <<recvx, sendx>> /\ qlen[c] = 0
      \/ /\ qlen[c] # 0
         /\ recvx' = [recvx EXCEPT ![c] = After(c, recvx[c])]
         /\ sendx' = [sendx EXCEPT ![c] = After(c, recvx[c])]
  BY DEF RecvDirect, TakeSenders, chanVars
<1>5. TypeOK'
  <2>1. recvx' \in [Chans -> Nat] /\ sendx' \in [Chans -> Nat]
    <3>1. After(c, recvx[c]) \in Nat
      BY <1>0 DEF IInv, TypeOK, After
    <3>2. CASE UNCHANGED <<recvx, sendx>>
      BY <3>2 DEF IInv, TypeOK
    <3>3. CASE /\ recvx' = [recvx EXCEPT ![c] = After(c, recvx[c])]
               /\ sendx' = [sendx EXCEPT ![c] = After(c, recvx[c])]
      <4> DEFINE x == After(c, recvx[c])
      <4> HIDE DEF x
      <4> QED BY <3>1, <3>3 DEF IInv, TypeOK, x
    <3> QED BY <1>4, <3>2, <3>3
  <2>2. pc' \in [Threads -> PCs] /\ sig' \in [Threads -> Threads \cup {NULL}]
    BY <1>0, <1>1 DEF IInv, TypeOK, PCs, RecvDirect, Goto
  <2> QED BY <1>2, <1>3, <2>1, <2>2 DEF IInv, TypeOK, RecvDirect
<1>6. RingOK'
  <2> SUFFICES ASSUME NEW d \in Chans
               PROVE  /\ qlen'[d] <= Cap[d]
                      /\ Cap[d] > 0 => /\ sendx'[d] < Cap[d] /\ recvx'[d] < Cap[d]
                                       /\ \/ sendx'[d] = recvx'[d] + qlen'[d]
                                          \/ sendx'[d] + Cap[d] = recvx'[d] + qlen'[d]
    BY DEF RingOK
  <2>1. CASE d = c
    BY <1>0, <1>3, <1>4, <2>1 DEF IInv, TypeOK, RingOK, After
  <2>2. CASE d # c
    BY <1>0, <1>3, <1>4, <2>2 DEF IInv, TypeOK, RingOK
  <2> QED BY <2>1, <2>2
<1>7. SenderBehindFull' /\ NoMissedMeeting'
  BY <1>0, <1>1, <1>2, <1>3 DEF IInv, SenderBehindFull, NoMissedMeeting
<1> QED BY <1>5, <1>6, <1>7 DEF IInv

\* A receive from the buffer.
LEMMA RecvBufferStep ==
  ASSUME IInv, NEW t \in Threads, RecvBuffer(t)
  PROVE  IInv'
<1> DEFINE c == ch[t]
<1>0. c \in Chans /\ Cap \in [Chans -> Nat]
  BY ChanAssumptions DEF IInv, TypeOK
<1>1. /\ qlen[c] > 0 /\ first[c]["sendq"] = NULL
      /\ qlen' = [qlen EXCEPT ![c] = @ - 1]
      /\ recvx' = [recvx EXCEPT ![c] = After(c, recvx[c])]
      /\ UNCHANGED <<sendx, closed, first, last, next>>
  BY DEF RecvBuffer, queueVars
<1>2. TypeOK'
  BY <1>0, <1>1 DEF IInv, TypeOK, PCs, RecvBuffer, Returns, Goto, After
<1>3. RingOK'
  <2> SUFFICES ASSUME NEW d \in Chans
               PROVE  /\ qlen'[d] <= Cap[d]
                      /\ Cap[d] > 0 => /\ sendx'[d] < Cap[d] /\ recvx'[d] < Cap[d]
                                       /\ \/ sendx'[d] = recvx'[d] + qlen'[d]
                                          \/ sendx'[d] + Cap[d] = recvx'[d] + qlen'[d]
    BY DEF RingOK
  <2>1. CASE d = c
    <3>1. /\ qlen[c] \in Nat /\ Cap[c] \in Nat
          /\ sendx[c] \in Nat /\ recvx[c] \in Nat
      BY <1>0 DEF IInv, TypeOK
    <3>2. /\ qlen'[c] = qlen[c] - 1
          /\ recvx'[c] = After(c, recvx[c])
          /\ sendx'[c] = sendx[c]
      BY <1>0, <1>1 DEF IInv, TypeOK
    <3>3. /\ qlen[c] <= Cap[c]
          /\ Cap[c] > 0 => /\ sendx[c] < Cap[c] /\ recvx[c] < Cap[c]
                           /\ \/ sendx[c] = recvx[c] + qlen[c]
                              \/ sendx[c] + Cap[c] = recvx[c] + qlen[c]
      BY <1>0 DEF IInv, RingOK
    <3> HIDE DEF c
    <3>4. CASE recvx[c] = Cap[c] - 1
      BY <1>1, <2>1, <3>1, <3>2, <3>3, <3>4 DEF After
    <3>5. CASE recvx[c] # Cap[c] - 1
      BY <1>1, <2>1, <3>1, <3>2, <3>3, <3>5 DEF After
    <3> QED BY <3>4, <3>5
  <2>2. CASE d # c
    BY <1>0, <1>1, <2>2 DEF IInv, TypeOK, RingOK
  <2> QED BY <2>1, <2>2
<1>4. SenderBehindFull' /\ NoMissedMeeting'
  BY <1>0, <1>1 DEF IInv, TypeOK, SenderBehindFull, NoMissedMeeting
<1> QED BY <1>2, <1>3, <1>4 DEF IInv

\* A receive that finds nothing.
LEMMA RecvBlockedStep ==
  ASSUME IInv, NEW t \in Threads, RecvBlocked(t)
  PROVE  IInv'
<1> DEFINE c == ch[t]
<1>0. c \in Chans /\ "sendq" \in Queues /\ "recvq" \in Queues
  BY DEF IInv, TypeOK, Queues
<1>1. CASE pc[t] = "tryrecv"
  <2>1. TypeOK' /\ UNCHANGED <<chanVars, first>>
    BY <1>1 DEF IInv, TypeOK, PCs, RecvBlocked, Returns, Goto, chanVars, queueVars
  <2> QED BY <2>1, QuietStep
<1>2. CASE pc[t] = "recv"
  <2>1. Enqueue(c, "recvq", t) /\ TypeOK /\ UNCHANGED chanVars
    BY <1>2 DEF RecvBlocked, Park, IInv
  <2>2. /\ first' \in [Chans -> [Queues -> Threads \cup {NULL}]]
        /\ last' \in [Chans -> [Queues -> Threads \cup {NULL}]]
        /\ next' \in [Threads -> Threads \cup {NULL}]
        /\ \A d \in Chans, r \in Queues :
             (d # c \/ r # "recvq") => first'[d][r] = first[d][r]
    BY <1>0, <2>1, EnqueueEffect
  <2>3. TypeOK'
    BY <1>2, <2>1, <2>2 DEF IInv, TypeOK, PCs, RecvBlocked, Park, Goto, chanVars
  <2>4. qlen[c] = 0 /\ first[c]["sendq"] = NULL
    BY DEF RecvBlocked
  <2>5. RingOK'
    BY <2>1 DEF IInv, RingOK, chanVars
  <2>6. SenderBehindFull' /\ NoMissedMeeting'
    BY <1>0, <2>1, <2>2, <2>4 DEF IInv, SenderBehindFull, NoMissedMeeting, chanVars
  <2> QED BY <2>3, <2>5, <2>6 DEF IInv
<1> QED BY <1>1, <1>2 DEF RecvBlocked

\* chan_close.
LEMMA CloseStep ==
  ASSUME IInv, NEW c \in Chans, Close(c)
  PROVE  IInv'
<1>1. UNCHANGED <<qlen, sendx, recvx, first, last, next, pc, ch, sig>>
  BY DEF Close, queueVars
<1>2. /\ closed' \in [Chans -> BOOLEAN]
      /\ \A d \in Chans : ~closed'[d] => ~closed[d]
      /\ sema' \in [Threads -> Nat]
  <2> DEFINE parked == ParkedOn(c)
  <2>1. CASE closed[c] /\ UNCHANGED <<closed, thrclosed, sema>>
    BY <2>1 DEF IInv, TypeOK
  <2>2. CASE /\ closed' = [closed EXCEPT ![c] = TRUE]
             /\ sema' = [t \in Threads |-> IF t \in parked THEN sema[t] + 1 ELSE sema[t]]
    <3> HIDE DEF parked
    <3> QED BY <2>2 DEF IInv, TypeOK
  <2> QED BY <2>1, <2>2 DEF Close
<1>3. TypeOK'
  BY <1>1, <1>2 DEF IInv, TypeOK
<1> QED
  BY <1>1, <1>2, <1>3 DEF IInv, RingOK, SenderBehindFull, NoMissedMeeting

-----------------------------------------------------------------------------
\* Every step preserves the invariant.
LEMMA NextIInv == IInv /\ [Next]_vars => IInv'
<1> SUFFICES ASSUME IInv, [Next]_vars PROVE IInv'
  OBVIOUS
<1>1. CASE Start
  <2>1. ASSUME NEW t \in Producers, NEW c \in Chans, StartSend(t, c, t \notin TryThreads)
        PROVE  IInv'
    BY <2>1, StartStep DEF Threads
  <2>2. ASSUME NEW t \in Consumers, NEW c \in Chans, StartRecv(t, c, t \notin TryThreads)
        PROVE  IInv'
    BY <2>2, StartStep DEF Threads
  <2> QED BY <1>1, <2>1, <2>2 DEF Start
<1>2. ASSUME NEW t \in Threads, Step(t) PROVE IInv'
  <2>1. ch[t] \in Chans
    BY DEF IInv, TypeOK
  <2> QED
    BY <1>2, <2>1, StartStep, WakeStep, SendDirectStep, SendBufferStep,
       SendBlockedStep, RecvDirectStep, RecvBufferStep, RecvBlockedStep DEF Step
<1>3. ASSUME NEW c \in Closable, Close(c) PROVE IInv'
  BY <1>3, CloseStep, ChanAssumptions
<1>4. CASE UNCHANGED vars
  <2>1. TypeOK' /\ UNCHANGED <<chanVars, first>>
    BY <1>4 DEF IInv, TypeOK, vars, chanVars, queueVars
  <2> QED BY <2>1, QuietStep
<1> QED BY <1>1, <1>2, <1>3, <1>4 DEF Next

\* The strengthened invariant holds in every reachable state.
THEOREM Invariance == Spec => []IInv
BY InitIInv, NextIInv, PTL DEF Spec

\* The channels, wait queues and semaphores are well typed.
THEOREM TypeCorrect == Spec => []TypeOK
BY Invariance, PTL DEF IInv

\* The ring buffer is consistent whatever its capacity and whenever the
\* channel is closed.
THEOREM RingConsistent == Spec => []RingOK
BY Invariance, PTL DEF IInv

\* On an open channel no sender waits for room that is there, no receiver for
\* a message that is there, and no two wait for each other.
THEOREM MeetingsHappen == Spec => []NoMissedMeeting
BY Invariance, PTL DEF IInv

(***************************************************************************)
(* Order, delivery and results of Chan, for any channels, capacities,      *)
(* threads and messages, and for any moment of chan_close.                 *)
(*                                                                         *)
(* These hold for threads that keep to a channel once it is closed         *)
(* (StaySpec): Thr.closed and the links that chan_close leaves behind      *)
(* would follow a thread to its next channel.                              *)
(*                                                                         *)
(* The invariant is the conjunction of four parts, each preserved given    *)
(* the ones before it:                                                     *)
(*   structure  the links of a wait queue are the threads that wait in it, *)
(*              a thread waits in one queue, and is woken by one signal;   *)
(*   flow       every message is in one place: not yet sent, parked, in    *)
(*              the ring, or delivered;                                    *)
(*   line       what a channel accepted is what it delivered, then the     *)
(*              ring, then the parked senders, in that order;              *)
(*   hands      what was delivered is what the receivers hold, once each.  *)
(* Sequences are reasoned about by their members and their positions.      *)
(***************************************************************************)

\* Thread t waits in queue q of c; message m was received from c, is in its ring
\* (at index i from the oldest), or is out on c: one or the other.
Waits(t, c, q) == \E i \in 1..Len(waiting[c][q]) : waiting[c][q][i] = t
Delivered(m, c) == \E i \in 1..Len(delivered[c]) : delivered[c][i] = m
At(c, i) == buf[c][Slot(c, i)]
InBuffer(m, c) == \E i \in 1..qlen[c] : At(c, i) = m
Out(m, c) == Delivered(m, c) \/ InBuffer(m, c)

Elems == Msgs \cup {Zero}

\* Types of the histories and of the data that TypeOK leaves out.
DataOK ==
  /\ waiting \in [Chans -> [Queues -> Seq(Threads)]]
  /\ elem \in [Threads -> Elems] /\ into \in [Threads -> Elems]
  /\ nsent \in [Producers -> 0..MaxMsgs]
  /\ thrclosed \in [Threads -> BOOLEAN]
  /\ accepted \in [Chans -> Seq(Elems)] /\ delivered \in [Chans -> Seq(Elems)]
  /\ recvd \in [Consumers -> Seq(Elems)]
  /\ ret \in [Threads -> [ok : BOOLEAN, ch : Chans, block : BOOLEAN, op : {"send", "recv"}]]
  /\ buf \in [Chans -> UNION {[0..(Cap[c] - 1) -> Elems] : c \in Chans}]
  /\ \A c \in Chans : buf[c] \in [0..(Cap[c] - 1) -> Elems]

\* The links of a wait queue are the threads that wait in it, in their order.
ListAt(c, q) ==
  /\ first[c][q] = NULL <=> Len(waiting[c][q]) = 0
  /\ Len(waiting[c][q]) > 0 =>
       /\ first[c][q] = waiting[c][q][1]
       /\ last[c][q] = waiting[c][q][Len(waiting[c][q])]
       /\ next[waiting[c][q][Len(waiting[c][q])]] = NULL
  /\ \A i \in 1..(Len(waiting[c][q]) - 1) : next[waiting[c][q][i]] = waiting[c][q][i + 1]
  /\ \A i, j \in 1..Len(waiting[c][q]) : waiting[c][q][i] = waiting[c][q][j] => i = j

Role(q) == IF q = "sendq" THEN Producers ELSE Consumers

\* A thread waits on its own channel, in one queue and, until that is closed, is
\* parked there.
MembersOK ==
  /\ \A c \in Chans, q \in Queues, t \in Threads : Waits(t, c, q) =>
       /\ ch[t] = c /\ t \in Role(q)
       /\ ~closed[c] => pc[t] = q
  /\ \A c \in Chans, q, r \in Queues, t \in Threads :
       Waits(t, c, q) /\ Waits(t, c, r) => q = r

\* A thread that waits nowhere has no next.
LinksOK ==
  \A t \in Threads : (\A c \in Chans, q \in Queues : ~Waits(t, c, q)) => next[t] = NULL

ListsOK == \A c \in Chans, q \in Queues : ListAt(c, q)
QueuesOK == ListsOK /\ MembersOK /\ LinksOK

SendPCs == {"send", "trysend", "trysend_full"}
RecvPCs == {"recv", "tryrecv", "tryrecv_closed", "tryrecv_empty"}
Signalling == {"sendsignal", "recvsignal"}

\* Producers send, consumers receive, the same thread perhaps one after the
\* other; and a thread signals somebody exactly after a direct transfer.
ControlAt(t) ==
  /\ pc[t] \in SendPCs \cup {"sendq", "sendsignal"} => t \in Producers
  /\ pc[t] \in RecvPCs \cup {"recvq", "recvsignal"} => t \in Consumers
  /\ sig[t] # NULL <=> pc[t] \in Signalling

ControlOK == \A t \in Threads : ControlAt(t)

\* What a producer holds.
SenderAt(t) ==
  /\ pc[t] \in SendPCs => /\ elem[t] = <<t, nsent[t] + 1>>
                          /\ ~closed[ch[t]] => nsent[t] < MaxMsgs
  /\ pc[t] = "sendq" => elem[t] = <<t, nsent[t]>>
  /\ pc[t] = "trysend_full" => nsent[t] < MaxMsgs

SendersOK == \A t \in Producers : SenderAt(t)

\* A channel that is not closed early is closed when the producers are done.
SenderDone(t) == nsent[t] = MaxMsgs /\ pc[t] \notin SendCalls \ {"trysend"}

ClosedDone ==
  \A c \in Chans : (closed[c] /\ c \notin EarlyClose) =>
    /\ Len(waiting[c]["sendq"]) = 0
    /\ \A t \in Producers : SenderDone(t)

\* Tokens of threads on open channels: one for a parked thread that was served,
\* in its semaphore or on the way, and none for anyone else.
NoSignal(t) == \A u \in Threads : sig[u] # t
OneSignal(t) == \E u \in Threads : sig[u] = t /\ \A v \in Threads : sig[v] = t => v = u
OneToken(t) == \/ sema[t] = 1 /\ NoSignal(t)
               \/ sema[t] = 0 /\ OneSignal(t)
Served(t) == pc[t] \in Queues /\ ~Waits(t, ch[t], pc[t])
TokensOK ==
  \A t \in Threads : ~closed[ch[t]] =>
    /\ Served(t) => OneToken(t)
    /\ ~Served(t) => sema[t] = 0 /\ NoSignal(t)

\* Thr.closed is set for the receivers that chan_close found waiting.
ThrClosedOK ==
  \A t \in Threads :
    /\ thrclosed[t] = TRUE => closed[ch[t]]
    /\ pc[t] = "recvq" /\ closed[ch[t]] =>
         (thrclosed[t] = TRUE <=> Waits(t, ch[t], "recvq"))

\* The structure: everything but the messages.
StructInv == DataOK /\ QueuesOK /\ ControlOK /\ SendersOK /\ ClosedDone /\ TokensOK /\ ThrClosedOK

-----------------------------------------------------------------------------
\* A nonempty set of natural numbers has a least member.
LEMMA LeastNat ==
  ASSUME NEW T, T \subseteq Nat, T # {}
  PROVE  \E n \in T : \A k \in T : n <= k
<1>1. IsWellFoundedOn(OpToRel(<, Nat), Nat)
  BY NatLessThanWellFounded
<1>2. PICK n \in T : \A k \in T : ~(<<k, n>> \in OpToRel(<, Nat))
  BY <1>1, WFMin, Zenon
<1>3. ASSUME NEW k \in T PROVE n <= k
  <2>1. ~(k < n)
    BY <1>2, <1>3, Zenon DEF OpToRel
  <2>2. k \in Nat /\ n \in Nat
    OBVIOUS
  <2> QED BY <2>1, <2>2
<1> QED BY <1>3

\* Append and Tail, by their members.
LEMMA AppendPoints ==
  ASSUME NEW S, NEW s \in Seq(S), NEW x \in S
  PROVE  /\ Append(s, x) \in Seq(S)
         /\ Len(Append(s, x)) = Len(s) + 1 /\ Len(s) \in Nat
         /\ \A i \in 1..Len(s) : Append(s, x)[i] = s[i]
         /\ Append(s, x)[Len(s) + 1] = x
OBVIOUS

\* The elements of a sequence without its first one.
LEMMA TailPoints ==
  ASSUME NEW S, NEW s \in Seq(S), Len(s) > 0
  PROVE  /\ Tail(s) \in Seq(S)
         /\ Len(Tail(s)) = Len(s) - 1 /\ Len(s) \in Nat
         /\ \A i \in 1..(Len(s) - 1) : Tail(s)[i] = s[i + 1]
OBVIOUS

\* A thread waits in one queue at most.
LEMMA OneQueue ==
  ASSUME MembersOK, NEW t \in Threads, NEW c \in Chans, NEW d \in Chans,
         NEW q \in Queues, NEW r \in Queues, Waits(t, c, q), Waits(t, d, r)
  PROVE  c = d /\ q = r
<1>1. c = d
  BY DEF MembersOK
<1>2. q = r
  BY <1>1 DEF MembersOK
<1> QED BY <1>1, <1>2

\* wq_enqueue appends a thread that waits nowhere.
LEMMA EnqueueWaiting ==
  ASSUME DataOK, NEW c \in Chans, NEW q \in Queues, NEW t \in Threads, Enqueue(c, q, t)
  PROVE  /\ waiting' \in [Chans -> [Queues -> Seq(Threads)]]
         /\ Len(waiting[c][q]) \in Nat
         /\ Len(waiting'[c][q]) = Len(waiting[c][q]) + 1
         /\ \A i \in 1..Len(waiting[c][q]) : waiting'[c][q][i] = waiting[c][q][i]
         /\ waiting'[c][q][Len(waiting[c][q]) + 1] = t
         /\ \A d \in Chans, r \in Queues :
              (d # c \/ r # q) => waiting'[d][r] = waiting[d][r]
         /\ \A d \in Chans, r \in Queues, u \in Threads :
              Waits(u, d, r)' <=> (Waits(u, d, r) \/ (u = t /\ d = c /\ r = q))
<1> DEFINE w == waiting[c][q]
           v == Append(w, t)
<1>1. w \in Seq(Threads)
  BY DEF DataOK
<1>2. /\ v \in Seq(Threads) /\ Len(v) = Len(w) + 1 /\ Len(w) \in Nat
      /\ \A i \in 1..Len(w) : v[i] = w[i]
      /\ v[Len(w) + 1] = t
  BY <1>1, AppendPoints
<1>3. waiting' = [waiting EXCEPT ![c][q] = v]
  BY DEF Enqueue
<1> HIDE DEF v
<1>4. /\ waiting' \in [Chans -> [Queues -> Seq(Threads)]]
      /\ waiting'[c][q] = v
      /\ \A d \in Chans, r \in Queues : (d # c \/ r # q) => waiting'[d][r] = waiting[d][r]
  BY <1>2, <1>3 DEF DataOK
<1>5. ASSUME NEW u \in Threads PROVE Waits(u, c, q)' <=> (Waits(u, c, q) \/ u = t)
  <2>1. ASSUME Waits(u, c, q)' PROVE Waits(u, c, q) \/ u = t
    <3>1. PICK i \in 1..(Len(w) + 1) : v[i] = u
      BY <1>2, <1>4, <2>1 DEF Waits
    <3>2. CASE i = Len(w) + 1
      BY <1>2, <3>1, <3>2
    <3>3. CASE i # Len(w) + 1
      <4>1. i \in 1..Len(w)
        BY <1>2, <3>1, <3>3
      <4> QED BY <1>2, <3>1, <4>1 DEF Waits
    <3> QED BY <3>2, <3>3
  <2>2. ASSUME Waits(u, c, q) PROVE Waits(u, c, q)'
    <3>1. PICK i \in 1..Len(w) : w[i] = u
      BY <2>2 DEF Waits
    <3>2. i \in 1..Len(v) /\ v[i] = u
      BY <1>2, <3>1
    <3> QED BY <1>4, <3>2 DEF Waits
  <2>3. ASSUME u = t PROVE Waits(u, c, q)'
    <3>1. Len(v) \in 1..Len(v) /\ v[Len(v)] = u
      BY <1>2, <2>3
    <3> QED BY <1>4, <3>1 DEF Waits
  <2> QED BY <2>1, <2>2, <2>3
<1>6. ASSUME NEW d \in Chans, NEW r \in Queues, NEW u \in Threads, d # c \/ r # q
      PROVE  Waits(u, d, r)' <=> Waits(u, d, r)
  BY <1>4, <1>6 DEF Waits
<1> QED BY <1>2, <1>4, <1>5, <1>6

\* wq_dequeue takes the first one off.
LEMMA DequeueWaiting ==
  ASSUME DataOK, ListsOK, NEW c \in Chans, NEW q \in Queues, first[c][q] # NULL, Dequeue(c, q)
  PROVE  /\ waiting' \in [Chans -> [Queues -> Seq(Threads)]]
         /\ Len(waiting[c][q]) \in Nat /\ Len(waiting[c][q]) > 0
         /\ first[c][q] = waiting[c][q][1] /\ first[c][q] \in Threads
         /\ Waits(first[c][q], c, q)
         /\ Len(waiting'[c][q]) = Len(waiting[c][q]) - 1
         /\ \A i \in 1..(Len(waiting[c][q]) - 1) : waiting'[c][q][i] = waiting[c][q][i + 1]
         /\ \A d \in Chans, r \in Queues :
              (d # c \/ r # q) => waiting'[d][r] = waiting[d][r]
         /\ \A d \in Chans, r \in Queues, u \in Threads :
              Waits(u, d, r)' <=> (Waits(u, d, r) /\ ~(u = first[c][q] /\ d = c /\ r = q))
<1> DEFINE w == waiting[c][q]
           v == Tail(w)
<1>1. w \in Seq(Threads) /\ Len(w) \in Nat /\ ListAt(c, q)
  BY DEF DataOK, ListsOK
<1>2. Len(w) > 0 /\ first[c][q] = w[1] /\ w[1] \in Threads
  BY <1>1 DEF ListAt
<1>3. /\ v \in Seq(Threads) /\ Len(v) = Len(w) - 1
      /\ \A i \in 1..(Len(w) - 1) : v[i] = w[i + 1]
  BY <1>1, <1>2, TailPoints
<1>4. waiting' = [waiting EXCEPT ![c][q] = v]
  BY DEF Dequeue
<1> HIDE DEF v
<1>5. /\ waiting' \in [Chans -> [Queues -> Seq(Threads)]]
      /\ waiting'[c][q] = v
      /\ \A d \in Chans, r \in Queues : (d # c \/ r # q) => waiting'[d][r] = waiting[d][r]
  BY <1>3, <1>4 DEF DataOK
<1>6. \A i, j \in 1..Len(w) : w[i] = w[j] => i = j
  BY <1>1 DEF ListAt
<1>7. ASSUME NEW u \in Threads
      PROVE  Waits(u, c, q)' <=> (Waits(u, c, q) /\ u # w[1])
  <2>1. ASSUME Waits(u, c, q)' PROVE Waits(u, c, q) /\ u # w[1]
    <3>1. PICK i \in 1..(Len(w) - 1) : v[i] = u
      BY <1>3, <1>5, <2>1 DEF Waits
    <3>2. i + 1 \in 1..Len(w) /\ w[i + 1] = u /\ 1 \in 1..Len(w) /\ i + 1 # 1
      BY <1>1, <1>2, <1>3, <3>1
    <3> QED BY <1>6, <3>2 DEF Waits
  <2>2. ASSUME Waits(u, c, q), u # w[1] PROVE Waits(u, c, q)'
    <3>1. PICK i \in 1..Len(w) : w[i] = u
      BY <2>2 DEF Waits
    <3>2. i - 1 \in 1..(Len(w) - 1) /\ v[i - 1] = u
      <4>1. i # 1
        BY <2>2, <3>1
      <4>2. i - 1 \in 1..(Len(w) - 1) /\ (i - 1) + 1 = i
        BY <1>1, <3>1, <4>1
      <4> QED BY <1>3, <3>1, <4>2
    <3> QED BY <1>3, <1>5, <3>2 DEF Waits
  <2> QED BY <2>1, <2>2
<1>8. ASSUME NEW d \in Chans, NEW r \in Queues, NEW u \in Threads, d # c \/ r # q
      PROVE  Waits(u, d, r)' <=> Waits(u, d, r)
  BY <1>5, <1>8 DEF Waits
<1>9. Waits(first[c][q], c, q)
  BY <1>1, <1>2 DEF Waits
<1> QED BY <1>1, <1>2, <1>3, <1>5, <1>7, <1>8, <1>9

-----------------------------------------------------------------------------
\* A step leaves the parked threads of open channels where they are.
KeepsParked ==
  \A u \in Threads, d \in Chans, r \in Queues : Waits(u, d, r) =>
    /\ ch'[u] = ch[u]
    /\ ~closed'[d] => ~closed[d] /\ pc'[u] = pc[u]

\* Steps that leave the wait queues alone.
LEMMA QueuesKept ==
  ASSUME QueuesOK, KeepsParked, UNCHANGED <<first, last, next, waiting>>
  PROVE  QueuesOK'
<1>1. \A u \in Threads, d \in Chans, r \in Queues : Waits(u, d, r)' <=> Waits(u, d, r)
  BY DEF Waits
<1>2. ListsOK'
  BY DEF QueuesOK, ListsOK, ListAt
<1>3. MembersOK'
  BY <1>1 DEF QueuesOK, MembersOK, KeepsParked
<1>4. LinksOK'
  BY <1>1 DEF QueuesOK, LinksOK
<1> QED BY <1>2, <1>3, <1>4 DEF QueuesOK

\* A queue that a step does not touch.
LEMMA ListKept ==
  ASSUME NEW d \in Chans, NEW r \in Queues, ListAt(d, r), Len(waiting[d][r]) \in Nat,
         waiting'[d][r] = waiting[d][r], first'[d][r] = first[d][r], last'[d][r] = last[d][r],
         \A i \in 1..Len(waiting[d][r]) : next'[waiting[d][r][i]] = next[waiting[d][r][i]]
  PROVE  ListAt(d, r)'
<1> DEFINE v == waiting[d][r]
           n == Len(v)
<1>1. n > 0 => next'[v[n]] = next[v[n]]
  <2>1. n > 0 => n \in 1..n
    OBVIOUS
  <2> QED BY <2>1
<1>2. ASSUME NEW i \in 1..(n - 1) PROVE next'[v[i]] = v[i + 1]
  <2>1. i \in 1..n
    OBVIOUS
  <2> QED BY <2>1 DEF ListAt
<1> QED BY <1>1, <1>2 DEF ListAt

\* A thread that waits nowhere is put in a queue.
LEMMA QueuesEnqueue ==
  ASSUME TypeOK, DataOK, QueuesOK, KeepsParked,
         NEW c \in Chans, NEW q \in Queues, NEW t \in Threads, Enqueue(c, q, t),
         \A d \in Chans, r \in Queues : ~Waits(t, d, r),
         t \in Role(q), ch'[t] = c, pc'[t] = q
  PROVE  QueuesOK'
<1> DEFINE w == waiting[c][q]
           n == Len(w)
<1>1. /\ n \in Nat
      /\ Len(waiting'[c][q]) = n + 1
      /\ \A i \in 1..n : waiting'[c][q][i] = w[i]
      /\ waiting'[c][q][n + 1] = t
      /\ \A d \in Chans, r \in Queues : (d # c \/ r # q) => waiting'[d][r] = waiting[d][r]
      /\ \A d \in Chans, r \in Queues, u \in Threads :
           Waits(u, d, r)' <=> (Waits(u, d, r) \/ (u = t /\ d = c /\ r = q))
  BY EnqueueWaiting
<1>2. \A d \in Chans, r \in Queues : waiting[d][r] \in Seq(Threads) /\ Len(waiting[d][r]) \in Nat
  BY DEF DataOK
<1>3. ListAt(c, q) /\ w \in Seq(Threads)
  BY <1>2 DEF QueuesOK, ListsOK
<1>4. \A d \in Chans, r \in Queues : \A i \in 1..Len(waiting[d][r]) :
        waiting[d][r][i] \in Threads /\ Waits(waiting[d][r][i], d, r) /\ waiting[d][r][i] # t
  <2> SUFFICES ASSUME NEW d \in Chans, NEW r \in Queues, NEW i \in 1..Len(waiting[d][r])
               PROVE  waiting[d][r][i] \in Threads /\ Waits(waiting[d][r][i], d, r)
                      /\ waiting[d][r][i] # t
    OBVIOUS
  <2>1. waiting[d][r][i] \in Threads
    BY <1>2
  <2>2. Waits(waiting[d][r][i], d, r)
    BY DEF Waits
  <2> QED BY <2>1, <2>2
<1>5. next[t] = NULL
  BY DEF QueuesOK, LinksOK
<1>6. /\ first'[c][q] = IF n > 0 THEN first[c][q] ELSE t
      /\ last'[c][q] = t
      /\ n > 0 => next'[w[n]] = t
      /\ \A u \in Threads : (n > 0 => u # w[n]) => next'[u] = next[u]
      /\ \A d \in Chans, r \in Queues : (d # c \/ r # q) =>
           first'[d][r] = first[d][r] /\ last'[d][r] = last[d][r]
  <2>1. last' = [last EXCEPT ![c][q] = t]
    BY DEF Enqueue
  <2>2. last'[c][q] = t /\ \A d \in Chans, r \in Queues : (d # c \/ r # q) => last'[d][r] = last[d][r]
    BY <2>1 DEF TypeOK
  <2>3. CASE n > 0
    <3>1. first[c][q] # NULL /\ last[c][q] = w[n] /\ w[n] \in Threads
      BY <1>1, <1>3, <1>4, <2>3 DEF ListAt
    <3>2. next' = [next EXCEPT ![w[n]] = t] /\ first' = first
      BY <3>1 DEF Enqueue
    <3> QED BY <2>2, <2>3, <3>1, <3>2 DEF TypeOK
  <2>4. CASE ~(n > 0)
    <3>1. n = 0 /\ first[c][q] = NULL
      BY <1>1, <1>3, <2>4 DEF ListAt
    <3>2. next' = next /\ first' = [first EXCEPT ![c][q] = t]
      BY <3>1 DEF Enqueue
    <3>3. first'[c][q] = t /\ \A d \in Chans, r \in Queues : (d # c \/ r # q) => first'[d][r] = first[d][r]
      BY <3>2 DEF TypeOK
    <3> QED BY <2>2, <2>4, <3>2, <3>3
  <2> QED BY <2>3, <2>4
<1>7. ASSUME NEW d \in Chans, NEW r \in Queues, d # c \/ r # q PROVE ListAt(d, r)'
  <2> DEFINE v == waiting[d][r]
  <2>1. ListAt(d, r) /\ waiting'[d][r] = v /\ first'[d][r] = first[d][r] /\ last'[d][r] = last[d][r]
    BY <1>1, <1>6, <1>7 DEF QueuesOK, ListsOK
  <2>2. ASSUME NEW i \in 1..Len(v) PROVE next'[v[i]] = next[v[i]]
    <3>1. v[i] \in Threads /\ Waits(v[i], d, r)
      BY <1>4
    <3>2. ASSUME n > 0, v[i] = w[n] PROVE FALSE
      <4>1. n \in 1..n
        BY <1>1, <3>2
      <4>2. Waits(w[n], c, q)
        BY <1>4, <4>1
      <4> QED BY <1>7, <3>1, <3>2, <4>2, OneQueue DEF QueuesOK
    <3> QED BY <1>6, <3>1, <3>2
  <2>3. Len(v) \in Nat
    BY <1>2
  <2> QED BY <2>1, <2>2, <2>3, ListKept
<1>8. ListAt(c, q)'
  <2> DEFINE x == waiting'[c][q]
  <2>1. next'[t] = NULL
    <3>1. n > 0 => w[n] # t
      BY <1>1, <1>4
    <3> QED BY <1>5, <1>6, <3>1
  <2>2. first'[c][q] = x[1] /\ first'[c][q] # NULL
    <3>1. CASE n > 0
      <4>1. first'[c][q] = first[c][q] /\ first[c][q] = w[1] /\ first[c][q] # NULL
        BY <1>1, <1>3, <1>6, <3>1 DEF ListAt
      <4>2. x[1] = w[1]
        BY <1>1, <3>1
      <4> QED BY <4>1, <4>2
    <3>2. CASE ~(n > 0)
      <4>1. n = 0 /\ first'[c][q] = t
        BY <1>1, <1>6, <3>2
      <4>2. x[1] = t
        BY <1>1, <4>1
      <4> QED BY <4>1, <4>2, NULLAssumption
    <3> QED BY <3>1, <3>2
  <2>3. ASSUME NEW i \in 1..n PROVE next'[x[i]] = x[i + 1]
    <3>1. CASE i = n
      BY <1>1, <1>6, <3>1, SMTT(30)
    <3>2. CASE i # n
      <4>1. i \in 1..(n - 1) /\ i + 1 \in 1..n /\ n \in 1..n
        BY <1>1, <3>2
      <4>2. next[w[i]] = w[i + 1]
        BY <1>3, <4>1 DEF ListAt
      <4>3. w[i] # w[n] /\ w[i] \in Threads
        BY <1>3, <1>4, <3>2, <4>1 DEF ListAt
      <4>4. next'[w[i]] = next[w[i]]
        BY <1>6, <4>3
      <4> QED BY <1>1, <4>1, <4>2, <4>4
    <3> QED BY <3>1, <3>2
  <2>4. \A i, j \in 1..(n + 1) : x[i] = x[j] => i = j
    <3> SUFFICES ASSUME NEW i \in 1..(n + 1), NEW j \in 1..(n + 1), x[i] = x[j] PROVE i = j
      OBVIOUS
    <3>1. CASE i = n + 1 /\ j = n + 1
      BY <3>1
    <3>2. CASE i = n + 1 /\ j # n + 1
      <4>1. j \in 1..n
        BY <1>1, <3>2
      <4> QED BY <1>1, <1>4, <3>2, <4>1
    <3>3. CASE i # n + 1 /\ j = n + 1
      <4>1. i \in 1..n
        BY <1>1, <3>3
      <4> QED BY <1>1, <1>4, <3>3, <4>1
    <3>4. CASE i # n + 1 /\ j # n + 1
      <4>1. i \in 1..n /\ j \in 1..n
        BY <1>1, <3>4, SMTT(30)
      <4> QED BY <1>1, <1>3, <4>1 DEF ListAt
    <3> QED BY <3>1, <3>2, <3>3, <3>4
  <2>5. Len(x) = n + 1 /\ n + 1 > 0 /\ (n + 1) - 1 = n /\ x[n + 1] = t /\ last'[c][q] = t /\ n + 1 # 0
    BY <1>1, <1>6
  <2> QED BY <2>1, <2>2, <2>3, <2>4, <2>5 DEF ListAt
<1>9. ListsOK'
  BY <1>7, <1>8 DEF ListsOK
<1>10. MembersOK'
  BY <1>1 DEF QueuesOK, MembersOK, KeepsParked
<1>11. LinksOK'
  <2> SUFFICES ASSUME NEW u \in Threads, \A d \in Chans, r \in Queues : ~Waits(u, d, r)'
               PROVE  next'[u] = NULL
    BY DEF LinksOK
  <2>1. \A d \in Chans, r \in Queues : ~Waits(u, d, r)
    BY <1>1
  <2>2. n > 0 => n \in 1..n
    BY <1>1
  <2>3. n > 0 => u # w[n]
    BY <1>4, <2>1, <2>2
  <2> QED BY <1>6, <2>1, <2>3 DEF QueuesOK, LinksOK
<1> QED BY <1>9, <1>10, <1>11 DEF QueuesOK

\* The first thread of a queue is taken off.
LEMMA QueuesDequeue ==
  ASSUME TypeOK, DataOK, QueuesOK, KeepsParked,
         NEW c \in Chans, NEW q \in Queues, first[c][q] # NULL, Dequeue(c, q)
  PROVE  QueuesOK'
<1> DEFINE w == waiting[c][q]
           n == Len(w)
           f == first[c][q]
<1>1. /\ n \in Nat /\ n > 0
      /\ f = w[1] /\ f \in Threads /\ Waits(f, c, q)
      /\ Len(waiting'[c][q]) = n - 1
      /\ \A i \in 1..(n - 1) : waiting'[c][q][i] = w[i + 1]
      /\ \A d \in Chans, r \in Queues : (d # c \/ r # q) => waiting'[d][r] = waiting[d][r]
      /\ \A d \in Chans, r \in Queues, u \in Threads :
           Waits(u, d, r)' <=> (Waits(u, d, r) /\ ~(u = f /\ d = c /\ r = q))
  BY DequeueWaiting DEF QueuesOK
<1>2. \A d \in Chans, r \in Queues : waiting[d][r] \in Seq(Threads) /\ Len(waiting[d][r]) \in Nat
  BY DEF DataOK
<1>3. ListAt(c, q) /\ w \in Seq(Threads)
  BY <1>2 DEF QueuesOK, ListsOK
<1>4. \A d \in Chans, r \in Queues : \A i \in 1..Len(waiting[d][r]) :
        waiting[d][r][i] \in Threads /\ Waits(waiting[d][r][i], d, r)
  BY <1>2 DEF Waits
<1>5. /\ first'[c][q] = next[f] /\ last' = last
      /\ next'[f] = NULL
      /\ \A u \in Threads : u # f => next'[u] = next[u]
      /\ \A d \in Chans, r \in Queues : (d # c \/ r # q) => first'[d][r] = first[d][r]
  BY <1>1 DEF Dequeue, TypeOK
<1>6. ASSUME NEW d \in Chans, NEW r \in Queues, d # c \/ r # q PROVE ListAt(d, r)'
  <2> DEFINE v == waiting[d][r]
  <2>1. ListAt(d, r) /\ waiting'[d][r] = v /\ first'[d][r] = first[d][r] /\ last'[d][r] = last[d][r]
    BY <1>1, <1>5, <1>6 DEF QueuesOK, ListsOK
  <2>2. ASSUME NEW i \in 1..Len(v) PROVE next'[v[i]] = next[v[i]]
    <3>1. v[i] \in Threads /\ Waits(v[i], d, r)
      BY <1>4
    <3>2. v[i] # f
      BY <1>1, <1>6, <3>1, OneQueue DEF QueuesOK
    <3> QED BY <1>5, <3>1, <3>2
  <2>3. Len(v) \in Nat
    BY <1>2
  <2> QED BY <2>1, <2>2, <2>3, ListKept
<1>7. ListAt(c, q)'
  <2> DEFINE x == waiting'[c][q]
  <2>0. ASSUME NEW i \in 1..(n - 1) PROVE x[i] = w[i + 1] /\ i + 1 \in 1..n /\ w[i + 1] # f
                                          /\ next'[x[i]] = next[w[i + 1]] /\ w[i + 1] \in Threads
    <3>1. i + 1 \in 1..n /\ 1 \in 1..n /\ i + 1 # 1 /\ x[i] = w[i + 1]
      BY <1>1
    <3>2. w[i + 1] # f
      BY <1>1, <1>3, <3>1 DEF ListAt
    <3> QED BY <1>4, <1>5, <3>1, <3>2
  <2>1. CASE n = 1
    <3>1. next[f] = NULL
      BY <1>1, <1>3, <2>1 DEF ListAt
    <3>2. Len(x) = 0 /\ first'[c][q] = NULL
      BY <1>1, <1>5, <2>1, <3>1
    <3> QED BY <3>2 DEF ListAt
  <2>2. CASE n # 1
    <3>0. \A k \in Nat : (k > 0 /\ k # 1) =>
             k - 1 > 0 /\ 1 \in 1..(k - 1) /\ k - 1 \in 1..(k - 1) /\ (k - 1) + 1 = k /\ k - 1 # 0
      OBVIOUS
    <3>1. n - 1 > 0 /\ 1 \in 1..(n - 1) /\ n - 1 \in 1..(n - 1) /\ (n - 1) + 1 = n /\ n - 1 # 0
      <4>1. n \in Nat /\ n > 0
        BY <1>1
      <4> HIDE DEF n
      <4> QED BY <2>2, <3>0, <4>1, Zenon
    <3>2. next[w[1]] = w[2]
      <4>1. next[w[1]] = w[1 + 1]
        BY <1>3, <3>1 DEF ListAt
      <4> QED BY <4>1
    <3>3. first'[c][q] = x[1] /\ first'[c][q] # NULL
      <4>0. 1 \in 1..(n - 1)
        BY <3>1, Zenon
      <4>1. x[1] = w[2] /\ w[2] \in Threads
        <5>1. x[1] = w[1 + 1] /\ w[1 + 1] \in Threads
          BY <2>0, <4>0, Zenon
        <5> QED BY <5>1
      <4> QED BY <1>1, <1>5, <3>2, <4>1, NULLAssumption
    <3>4. last'[c][q] = x[n - 1] /\ next'[x[n - 1]] = NULL
      <4>0. n - 1 \in 1..(n - 1) /\ (n - 1) + 1 = n
        BY <3>1, Zenon
      <4>1. x[n - 1] = w[n] /\ next'[x[n - 1]] = next[w[n]]
        <5>1. x[n - 1] = w[(n - 1) + 1] /\ next'[x[n - 1]] = next[w[(n - 1) + 1]]
          BY <2>0, <4>0, Zenon
        <5> QED BY <4>0, <5>1, Zenon
      <4> QED BY <1>1, <1>3, <1>5, <4>1 DEF ListAt
    <3>5. ASSUME NEW i \in 1..((n - 1) - 1) PROVE next'[x[i]] = x[i + 1]
      <4>1. i \in 1..(n - 1) /\ i + 1 \in 1..(n - 1)
        BY <1>1
      <4>2. next'[x[i]] = next[w[i + 1]] /\ x[i + 1] = w[(i + 1) + 1]
        BY <2>0, <4>1
      <4> QED BY <1>3, <4>1, <4>2 DEF ListAt
    <3>6. ASSUME NEW i \in 1..(n - 1), NEW j \in 1..(n - 1), x[i] = x[j] PROVE i = j
      <4>1. i + 1 \in 1..n /\ j + 1 \in 1..n /\ w[i + 1] = w[j + 1]
        BY <2>0, <3>6
      <4>2. i + 1 = j + 1
        BY <1>3, <4>1 DEF ListAt
      <4> QED BY <4>2
    <3>7. Len(x) = n - 1
      BY <1>1
    <3> QED BY <3>1, <3>3, <3>4, <3>5, <3>6, <3>7 DEF ListAt
  <2> QED BY <2>1, <2>2
<1>8. ListsOK'
  BY <1>6, <1>7 DEF ListsOK
<1>9. MembersOK'
  BY <1>1 DEF QueuesOK, MembersOK, KeepsParked
<1>10. LinksOK'
  <2> SUFFICES ASSUME NEW u \in Threads, \A d \in Chans, r \in Queues : ~Waits(u, d, r)'
               PROVE  next'[u] = NULL
    BY DEF LinksOK
  <2>1. CASE u = f
    BY <1>5, <2>1
  <2>2. CASE u # f
    <3>1. \A d \in Chans, r \in Queues : ~Waits(u, d, r)
      BY <1>1, <2>2
    <3> QED BY <1>5, <2>2, <3>1 DEF QueuesOK, LinksOK
  <2> QED BY <2>1, <2>2
<1> QED BY <1>8, <1>9, <1>10 DEF QueuesOK

\* The links lead to exactly the threads that wait.
LEMMA LinkedWaits ==
  ASSUME TypeOK, DataOK, QueuesOK, NEW c \in Chans, NEW q \in Queues, NEW t \in Threads
  PROVE  t \in Linked(c, q) <=> Waits(t, c, q)
<1> DEFINE w == waiting[c][q]
           n == Len(w)
           W == {u \in Threads : Waits(u, c, q)}
           Closed(S) == /\ first[c][q] # NULL => first[c][q] \in S
                        /\ \A u \in S : next[u] # NULL => next[u] \in S
<1>1. ListAt(c, q) /\ w \in Seq(Threads) /\ n \in Nat
  BY DEF DataOK, QueuesOK, ListsOK
<1>2. \A i \in 1..n : w[i] \in Threads /\ Waits(w[i], c, q)
  BY <1>1 DEF Waits
<1>3. Closed(W)
  <2>1. ASSUME first[c][q] # NULL PROVE first[c][q] \in W
    <3>1. n > 0 /\ first[c][q] = w[1] /\ 1 \in 1..n
      BY <1>1, <2>1 DEF ListAt
    <3> QED BY <1>2, <3>1
  <2>2. ASSUME NEW u \in W, next[u] # NULL PROVE next[u] \in W
    <3>1. PICK i \in 1..n : w[i] = u
      BY DEF Waits
    <3>2. i # n
      BY <1>1, <2>2, <3>1 DEF ListAt
    <3>3. i \in 1..(n - 1) /\ i + 1 \in 1..n
      BY <1>1, <3>1, <3>2
    <3>4. next[u] = w[i + 1]
      BY <1>1, <3>1, <3>3 DEF ListAt
    <3> QED BY <1>2, <3>3, <3>4
  <2> QED BY <2>1, <2>2
<1>4. ASSUME t \in Linked(c, q) PROVE Waits(t, c, q)
  <2>1. W \in SUBSET Threads
    OBVIOUS
  <2>2. t \in W
    BY <1>3, <1>4, <2>1 DEF Linked
  <2> QED BY <2>2
<1>5. ASSUME Waits(t, c, q), NEW S \in SUBSET Threads, Closed(S) PROVE t \in S
  <2> DEFINE T == {i \in 1..n : w[i] \notin S}
  <2>1. ASSUME T # {} PROVE FALSE
    <3>1. T \subseteq Nat
      BY <1>1
    <3>2. PICK i \in T : \A k \in T : i <= k
      BY <2>1, <3>1, LeastNat
    <3>3. i \in 1..n /\ w[i] \notin S
      BY <3>2
    <3>4. i # 1
      <4>1. n > 0
        BY <1>1, <3>3
      <4>2. first[c][q] # NULL /\ first[c][q] = w[1]
        BY <1>1, <4>1 DEF ListAt
      <4> QED BY <1>5, <3>3, <4>2
    <3>5. i - 1 \in 1..n /\ i - 1 \in 1..(n - 1) /\ (i - 1) + 1 = i /\ ~(i <= i - 1)
      BY <1>1, <3>3, <3>4
    <3>6. w[i - 1] \in S
      BY <3>2, <3>5
    <3>7. next[w[i - 1]] = w[i]
      BY <1>1, <3>5 DEF ListAt
    <3>8. w[i] # NULL
      BY <1>2, <3>3, NULLAssumption
    <3> QED BY <1>5, <3>3, <3>6, <3>7, <3>8
  <2>2. PICK i \in 1..n : w[i] = t
    BY <1>5 DEF Waits
  <2> QED BY <2>1, <2>2
<1>6. ASSUME Waits(t, c, q) PROVE t \in Linked(c, q)
  BY <1>5, <1>6 DEF Linked
<1> QED BY <1>4, <1>6

-----------------------------------------------------------------------------
\* What a step of thread t leaves alone.
Others(t) ==
  \A u \in Threads : u # t =>
    pc'[u] = pc[u] /\ ch'[u] = ch[u] /\ sig'[u] = sig[u] /\ ret'[u] = ret[u]

\* A thread is busy while it waits, or owes a signal to a waiter.
Busy == Queues \cup Signalling

\* The kinds of steps that the wait queues and the semaphores tell apart.
\* A step that meets nobody: calls, fast paths, results, the buffer.
Alone(t) ==
  /\ Others(t)
  /\ UNCHANGED <<first, last, next, waiting, sema, sig, thrclosed, closed>>
  /\ pc[t] \notin Busy /\ pc'[t] \notin Busy
  /\ closed[ch[t]] => ch'[t] = ch[t]

\* A direct transfer with the first thread of queue q.
AfterMeeting(q) == IF q = "recvq" THEN "sendsignal" ELSE "recvsignal"
Meets(t, q) ==
  /\ Others(t)
  /\ UNCHANGED <<ch, sema, thrclosed, closed>>
  /\ first[ch[t]][q] # NULL /\ Dequeue(ch[t], q)
  /\ sig' = [sig EXCEPT ![t] = first[ch[t]][q]]
  /\ pc[t] \notin Busy /\ pc'[t] = AfterMeeting(q)
  /\ q = "recvq" => ~closed[ch[t]]

Parks(t, q) ==
  /\ Others(t)
  /\ UNCHANGED <<ch, sema, sig, thrclosed, closed>>
  /\ ~closed[ch[t]] /\ Enqueue(ch[t], q, t)
  /\ pc[t] \notin Busy /\ pc'[t] = q /\ t \in Role(q)

Wakes(t) ==
  /\ Others(t)
  /\ UNCHANGED <<first, last, next, waiting, ch, sig, thrclosed, closed>>
  /\ pc[t] \in Queues /\ pc'[t] = "idle"
  /\ sema[t] > 0 /\ sema' = [sema EXCEPT ![t] = @ - 1]

Signals(t) ==
  /\ Others(t)
  /\ UNCHANGED <<first, last, next, waiting, ch, thrclosed, closed>>
  /\ pc[t] \in Signalling /\ pc'[t] = "idle"
  /\ sema' = [sema EXCEPT ![sig[t]] = @ + 1]
  /\ sig' = [sig EXCEPT ![t] = NULL]

Closes(c) ==
  /\ UNCHANGED <<first, last, next, waiting, ch, sig, pc, ret, nsent, elem, into>>
  /\ UNCHANGED <<qlen, recvx, buf, accepted, delivered, recvd>>
  /\ ~closed[c] /\ closed' = [closed EXCEPT ![c] = TRUE]
  /\ c \in EarlyClose \/ ProducersDone
  /\ \A t \in Threads :
       /\ thrclosed'[t] = TRUE <=>
            (thrclosed[t] = TRUE \/ Waits(t, c, "recvq") \/ Waits(t, c, "sendq"))
       /\ (\A q \in Queues : ~Waits(t, c, q)) => sema'[t] = sema[t]

WaitInv == TypeOK /\ DataOK /\ QueuesOK /\ ControlOK /\ TokensOK /\ ThrClosedOK

\* A thread in the middle of a call waits in no queue of an open channel.
LEMMA NotWaiting ==
  ASSUME WaitInv, NEW t \in Threads, pc[t] \notin Queues, ~closed[ch[t]],
         NEW d \in Chans, NEW r \in Queues
  PROVE  ~Waits(t, d, r)
BY DEF WaitInv, QueuesOK, MembersOK

\* The wait queues, their tokens and Thr.closed, after each kind of step.
LEMMA AloneWaits ==
  ASSUME WaitInv, NEW t \in Threads, Alone(t)
  PROVE  QueuesOK' /\ TokensOK' /\ ThrClosedOK'
<1>0. ch[t] \in Chans
  BY DEF WaitInv, TypeOK
<1>1. \A u \in Threads, d \in Chans, r \in Queues : Waits(u, d, r)' <=> Waits(u, d, r)
  BY DEF Waits, Alone
<1>2. KeepsParked
  <2> SUFFICES ASSUME NEW u \in Threads, NEW d \in Chans, NEW r \in Queues, Waits(u, d, r)
               PROVE  ch'[u] = ch[u] /\ (~closed'[d] => ~closed[d] /\ pc'[u] = pc[u])
    BY DEF KeepsParked
  <2>1. CASE u # t
    BY <2>1 DEF Alone, Others
  <2>2. CASE u = t
    <3>1. closed[ch[t]] /\ ch[t] = d
      BY <2>2, NotWaiting DEF Alone, Busy, WaitInv, QueuesOK, MembersOK, Signalling
    <3> QED BY <2>2, <3>1 DEF Alone
  <2> QED BY <2>1, <2>2
<1>3. QueuesOK'
  BY <1>2, QueuesKept DEF WaitInv, Alone
<1>4. TokensOK'
  <2> SUFFICES ASSUME NEW u \in Threads, ~closed'[ch'[u]]
               PROVE  /\ Served(u)' => OneToken(u)'
                      /\ ~Served(u)' => sema'[u] = 0 /\ NoSignal(u)'
    BY DEF TokensOK
  <2>1. (OneToken(u)' <=> OneToken(u)) /\ (NoSignal(u)' <=> NoSignal(u)) /\ sema'[u] = sema[u]
    BY DEF Alone, OneToken, NoSignal, OneSignal
  <2>2. ~closed[ch[u]]
    BY DEF Alone, Others
  <2>3. Served(u)' <=> Served(u)
    <3>1. CASE u # t
      <4>1. pc'[u] = pc[u] /\ ch'[u] = ch[u] /\ ch[u] \in Chans
        BY <3>1 DEF Alone, Others, WaitInv, TypeOK
      <4> QED BY <1>1, <4>1 DEF Served
    <3>2. CASE u = t
      BY <3>2 DEF Served, Alone, Busy, Signalling
    <3> QED BY <3>1, <3>2
  <2> QED BY <2>1, <2>2, <2>3 DEF WaitInv, TokensOK
<1>5. ThrClosedOK'
  <2> SUFFICES ASSUME NEW u \in Threads
               PROVE  /\ thrclosed'[u] = TRUE => closed'[ch'[u]]
                      /\ pc'[u] = "recvq" /\ closed'[ch'[u]] =>
                           (thrclosed'[u] = TRUE <=> Waits(u, ch[u], "recvq")' /\ ch'[u] = ch[u])
    <3>1. \A u \in Threads : pc'[u] = "recvq" => ch'[u] = ch[u]
      BY DEF Alone, Others, Busy, Queues, Signalling
    <3> QED BY <3>1 DEF ThrClosedOK, Waits
  <2>1. thrclosed' = thrclosed /\ closed' = closed /\ "recvq" \in Queues /\ ch[u] \in Chans
    BY DEF Alone, Queues, WaitInv, TypeOK
  <2>2. CASE u # t
    <3>1. pc'[u] = pc[u] /\ ch'[u] = ch[u]
      BY <2>2 DEF Alone, Others
    <3> QED BY <1>1, <2>1, <3>1 DEF WaitInv, ThrClosedOK
  <2>3. CASE u = t
    <3>1. pc'[u] # "recvq"
      BY <2>3 DEF Alone, Busy, Queues, Signalling
    <3> QED BY <2>1, <2>3, <3>1 DEF Alone, WaitInv, ThrClosedOK
  <2> QED BY <2>2, <2>3
<1> QED BY <1>3, <1>4, <1>5

\* A step that closes nothing and parks nobody on a closed channel keeps Thr.closed right.
LEMMA ThrClosedKept ==
  ASSUME WaitInv, UNCHANGED <<ch, thrclosed, closed>>,
         \A u \in Threads : pc'[u] = "recvq" /\ closed[ch[u]] =>
           pc[u] = "recvq" /\ (Waits(u, ch[u], "recvq")' <=> Waits(u, ch[u], "recvq"))
  PROVE  ThrClosedOK'
<1> SUFFICES ASSUME NEW u \in Threads
             PROVE  /\ thrclosed[u] = TRUE => closed[ch[u]]
                    /\ pc'[u] = "recvq" /\ closed[ch[u]] =>
                         (thrclosed[u] = TRUE <=> Waits(u, ch[u], "recvq")')
  BY DEF ThrClosedOK, Waits
<1> QED BY DEF WaitInv, ThrClosedOK

\* A direct transfer takes its partner from the queue and owes it one signal.
LEMMA MeetsWaits ==
  ASSUME WaitInv, NEW t \in Threads, NEW q \in Queues, Meets(t, q)
  PROVE  QueuesOK' /\ TokensOK' /\ ThrClosedOK'
<1> DEFINE c == ch[t]
           f == first[c][q]
<1>1. /\ c \in Chans /\ f \in Threads /\ Waits(f, c, q) /\ ch[f] = c /\ f \in Role(q)
      /\ ~closed[c] => pc[f] = q
      /\ \A d \in Chans, r \in Queues, u \in Threads :
           Waits(u, d, r)' <=> (Waits(u, d, r) /\ ~(u = f /\ d = c /\ r = q))
  <2>1. c \in Chans /\ DataOK /\ ListsOK /\ f # NULL /\ Dequeue(c, q)
    BY DEF WaitInv, TypeOK, QueuesOK, Meets, AfterMeeting
  <2> HIDE DEF c
  <2>2. /\ f \in Threads /\ Waits(f, c, q)
        /\ \A d \in Chans, r \in Queues, u \in Threads :
           Waits(u, d, r)' <=> (Waits(u, d, r) /\ ~(u = f /\ d = c /\ r = q))
    BY <2>1, DequeueWaiting
  <2> QED BY <2>1, <2>2 DEF WaitInv, QueuesOK, MembersOK
<1>2. KeepsParked
  <2> SUFFICES ASSUME NEW u \in Threads, NEW d \in Chans, NEW r \in Queues, Waits(u, d, r)
               PROVE  ch'[u] = ch[u] /\ (~closed'[d] => ~closed[d] /\ pc'[u] = pc[u])
    BY DEF KeepsParked
  <2>1. ch' = ch /\ closed' = closed
    BY DEF Meets, AfterMeeting
  <2>2. CASE u # t
    BY <2>1, <2>2 DEF Meets, Others, AfterMeeting
  <2>3. CASE u = t
    <3>1. closed[ch[t]] /\ ch[t] = d
      BY <2>3, NotWaiting DEF Meets, Busy, WaitInv, QueuesOK, MembersOK, Signalling, AfterMeeting
    <3> QED BY <2>1, <2>3, <3>1
  <2> QED BY <2>2, <2>3
<1>3. QueuesOK'
  BY <1>1, <1>2, QueuesDequeue DEF WaitInv, Meets, AfterMeeting
<1>4. t # f \/ closed[c]
  BY <1>1 DEF Meets, Busy, Signalling, AfterMeeting
<1>5. sig[t] = NULL /\ f # NULL /\ sig'[t] = f /\ \A u \in Threads : u # t => sig'[u] = sig[u]
  BY DEF WaitInv, ControlOK, ControlAt, Meets, Busy, TypeOK, Others, Signalling, AfterMeeting
<1>6. TokensOK'
  <2> SUFFICES ASSUME NEW u \in Threads, ~closed[ch[u]]
               PROVE  /\ Served(u)' => OneToken(u)'
                      /\ ~Served(u)' => sema'[u] = 0 /\ NoSignal(u)'
    BY DEF TokensOK, Meets, AfterMeeting
  <2>0. sema' = sema /\ ch' = ch
    BY DEF Meets, AfterMeeting
  <2>1. CASE u = f
    <3>1. ~closed[c] /\ pc[f] = q /\ t # f /\ pc'[f] = pc[f]
      BY <1>1, <1>4, <2>1 DEF Meets, Others, AfterMeeting
    <3>2. ~Served(f)
      BY <1>1, <3>1 DEF Served
    <3>3. sema[f] = 0 /\ NoSignal(f)
      BY <1>1, <2>1, <3>2 DEF WaitInv, TokensOK
    <3>4. OneSignal(u)'
      BY <1>5, <2>1, <3>3 DEF OneSignal, NoSignal
    <3>5. Served(u)'
      <4>1. ~Waits(u, ch[t], q)' /\ pc'[u] = q /\ ch'[u] = ch'[t]
        BY <1>1, <2>0, <2>1, <3>1
      <4> QED BY <4>1 DEF Served
    <3>6. sema'[u] = 0
      BY <2>0, <2>1, <3>3
    <3> QED BY <3>4, <3>5, <3>6 DEF OneToken
  <2>2. CASE u # f
    <3>1. \A v \in Threads : sig'[v] = u <=> sig[v] = u
      BY <1>5, <2>2, NULLAssumption
    <3>2. (NoSignal(u)' <=> NoSignal(u)) /\ (OneSignal(u)' <=> OneSignal(u))
      BY <3>1 DEF NoSignal, OneSignal
    <3>3. OneToken(u)' <=> OneToken(u)
      BY <2>0, <3>2 DEF OneToken
    <3>4. Served(u)' <=> Served(u)
      <4>1. CASE u = t
        BY <4>1 DEF Served, Meets, Busy, Queues, Signalling, AfterMeeting
      <4>2. CASE u # t
        <5>1. pc'[u] = pc[u] /\ ch[u] \in Chans
          BY <4>2 DEF Meets, Others, WaitInv, TypeOK, AfterMeeting
        <5> QED BY <1>1, <2>0, <2>2, <5>1 DEF Served
      <4> QED BY <4>1, <4>2
    <3> QED BY <2>0, <3>2, <3>3, <3>4 DEF WaitInv, TokensOK
  <2> QED BY <2>1, <2>2
<1>7. ThrClosedOK'
  <2>1. ASSUME NEW u \in Threads, pc'[u] = "recvq", closed[ch[u]]
        PROVE  pc[u] = "recvq" /\ (Waits(u, ch[u], "recvq")' <=> Waits(u, ch[u], "recvq"))
    <3>1. u # t /\ pc'[u] = pc[u] /\ ch'[u] = ch[u] /\ ch[u] \in Chans /\ "recvq" \in Queues
      BY <2>1 DEF Meets, Others, WaitInv, TypeOK, Queues, AfterMeeting
    <3>2. ~(u = f /\ ch[u] = c /\ "recvq" = q)
      BY <2>1 DEF Meets, AfterMeeting
    <3> QED BY <1>1, <2>1, <3>1, <3>2
  <2> QED BY <2>1, ThrClosedKept DEF Meets, AfterMeeting
<1> QED BY <1>3, <1>6, <1>7

\* chan_park puts a thread into one queue, with no signal under way.
LEMMA ParksWaits ==
  ASSUME WaitInv, NEW t \in Threads, NEW q \in Queues, Parks(t, q)
  PROVE  QueuesOK' /\ TokensOK' /\ ThrClosedOK'
<1> DEFINE c == ch[t]
<1>1. /\ c \in Chans /\ ~closed[c] /\ t \in Role(q)
      /\ \A d \in Chans, r \in Queues, u \in Threads :
           Waits(u, d, r)' <=> (Waits(u, d, r) \/ (u = t /\ d = c /\ r = q))
  <2>1. c \in Chans /\ DataOK /\ Enqueue(c, q, t) /\ ~closed[c] /\ t \in Role(q)
    BY DEF WaitInv, TypeOK, QueuesOK, Parks
  <2> HIDE DEF c
  <2> QED BY <2>1, EnqueueWaiting
<1>2. \A d \in Chans, r \in Queues : ~Waits(t, d, r)
  BY NotWaiting DEF Parks, Busy, Signalling
<1>3. KeepsParked
  BY <1>2 DEF KeepsParked, Parks, Others
<1>4. QueuesOK'
  <2>1. Enqueue(c, q, t) /\ t \in Role(q) /\ ch'[t] = c /\ pc'[t] = q /\ TypeOK /\ DataOK /\ QueuesOK
    BY DEF WaitInv, Parks
  <2> HIDE DEF c
  <2> QED BY <1>1, <1>2, <1>3, <2>1, QueuesEnqueue
<1>5. TokensOK'
  <2> SUFFICES ASSUME NEW u \in Threads, ~closed[ch[u]]
               PROVE  /\ Served(u)' => OneToken(u)'
                      /\ ~Served(u)' => sema'[u] = 0 /\ NoSignal(u)'
    BY DEF TokensOK, Parks
  <2>1. (OneToken(u)' <=> OneToken(u)) /\ (NoSignal(u)' <=> NoSignal(u)) /\ sema'[u] = sema[u]
    BY DEF Parks, OneToken, NoSignal, OneSignal
  <2>2. Served(u)' <=> Served(u)
    <3>1. CASE u = t
      <4>1. ~Served(t)
        BY DEF Served, Parks, Busy, Signalling
      <4>2. Waits(t, c, q)' /\ pc'[t] = q /\ ch' = ch
        BY <1>1 DEF Parks
      <4> QED BY <3>1, <4>1, <4>2 DEF Served
    <3>2. CASE u # t
      <4>1. pc'[u] = pc[u] /\ ch[u] \in Chans /\ ch' = ch
        BY <3>2 DEF Parks, Others, WaitInv, TypeOK
      <4> QED BY <1>1, <3>2, <4>1 DEF Served
    <3> QED BY <3>1, <3>2
  <2> QED BY <2>1, <2>2 DEF WaitInv, TokensOK
<1>6. ThrClosedOK'
  <2>1. ASSUME NEW u \in Threads, pc'[u] = "recvq", closed[ch[u]]
        PROVE  pc[u] = "recvq" /\ (Waits(u, ch[u], "recvq")' <=> Waits(u, ch[u], "recvq"))
    <3>1. u # t /\ pc'[u] = pc[u] /\ ch'[u] = ch[u] /\ ch[u] \in Chans /\ "recvq" \in Queues
      BY <1>1, <2>1 DEF Parks, Others, WaitInv, TypeOK, Queues
    <3> QED BY <1>1, <2>1, <3>1
  <2> QED BY <2>1, ThrClosedKept DEF Parks
<1> QED BY <1>4, <1>5, <1>6

\* A thread that takes its token has no other.
LEMMA WakesWaits ==
  ASSUME WaitInv, NEW t \in Threads, Wakes(t)
  PROVE  QueuesOK' /\ TokensOK' /\ ThrClosedOK'
<1>0. ch[t] \in Chans /\ sema[t] \in Nat
  BY DEF WaitInv, TypeOK
<1>1. \A u \in Threads, d \in Chans, r \in Queues : Waits(u, d, r)' <=> Waits(u, d, r)
  BY DEF Waits, Wakes
<1>2. ASSUME ~closed[ch[t]] PROVE Served(t) /\ sema[t] = 1 /\ NoSignal(t)
  <2>1. sema[t] # 0
    BY <1>0 DEF Wakes
  <2> QED BY <1>2, <2>1 DEF WaitInv, TokensOK, OneToken
<1>3. KeepsParked
  <2> SUFFICES ASSUME NEW u \in Threads, NEW d \in Chans, NEW r \in Queues, Waits(u, d, r)
               PROVE  ch'[u] = ch[u] /\ (~closed'[d] => ~closed[d] /\ pc'[u] = pc[u])
    BY DEF KeepsParked
  <2>1. ch' = ch /\ closed' = closed
    BY DEF Wakes
  <2>2. CASE u # t
    BY <2>1, <2>2 DEF Wakes, Others
  <2>3. CASE u = t
    <3>1. ch[t] = d /\ (~closed[d] => pc[t] = r)
      BY <2>3 DEF WaitInv, QueuesOK, MembersOK
    <3>2. closed[d]
      BY <1>2, <2>3, <3>1 DEF Served
    <3> QED BY <2>1, <2>3, <3>1, <3>2
  <2> QED BY <2>2, <2>3
<1>4. QueuesOK'
  BY <1>3, QueuesKept DEF WaitInv, Wakes
<1>5. TokensOK'
  <2> SUFFICES ASSUME NEW u \in Threads, ~closed[ch[u]]
               PROVE  /\ Served(u)' => OneToken(u)'
                      /\ ~Served(u)' => sema'[u] = 0 /\ NoSignal(u)'
    BY DEF TokensOK, Wakes
  <2>1. (NoSignal(u)' <=> NoSignal(u)) /\ (OneSignal(u)' <=> OneSignal(u))
    BY DEF Wakes, NoSignal, OneSignal
  <2>2. CASE u = t
    <3>1. sema'[t] = 0
      BY <1>0, <1>2, <2>2 DEF Wakes, WaitInv, TypeOK
    <3>2. ~Served(t)'
      BY DEF Served, Wakes, Queues
    <3> QED BY <1>2, <2>1, <2>2, <3>1, <3>2
  <2>3. CASE u # t
    <3>1. pc'[u] = pc[u] /\ ch[u] \in Chans /\ ch' = ch /\ sema'[u] = sema[u]
      BY <2>3 DEF Wakes, Others, WaitInv, TypeOK
    <3>2. Served(u)' <=> Served(u)
      BY <1>1, <3>1 DEF Served
    <3>3. OneToken(u)' <=> OneToken(u)
      BY <2>1, <3>1 DEF OneToken
    <3> QED BY <2>1, <3>1, <3>2, <3>3 DEF WaitInv, TokensOK
  <2> QED BY <2>2, <2>3
<1>6. ThrClosedOK'
  <2>1. ASSUME NEW u \in Threads, pc'[u] = "recvq", closed[ch[u]]
        PROVE  pc[u] = "recvq" /\ (Waits(u, ch[u], "recvq")' <=> Waits(u, ch[u], "recvq"))
    <3>1. u # t /\ pc'[u] = pc[u] /\ ch'[u] = ch[u] /\ ch[u] \in Chans /\ "recvq" \in Queues
      BY <2>1 DEF Wakes, Others, WaitInv, TypeOK, Queues
    <3> QED BY <1>1, <2>1, <3>1
  <2> QED BY <2>1, ThrClosedKept DEF Wakes
<1> QED BY <1>4, <1>5, <1>6

\* thread_signal turns the signal that is owed into a token.
LEMMA SignalsWaits ==
  ASSUME WaitInv, NEW t \in Threads, Signals(t)
  PROVE  QueuesOK' /\ TokensOK' /\ ThrClosedOK'
<1> DEFINE f == sig[t]
<1>0. f \in Threads /\ sig'[t] = NULL /\ \A u \in Threads : u # t => sig'[u] = sig[u]
  BY DEF WaitInv, TypeOK, ControlOK, ControlAt, Signals, Others, Signalling
<1>1. \A u \in Threads, d \in Chans, r \in Queues : Waits(u, d, r)' <=> Waits(u, d, r)
  BY DEF Waits, Signals, Signalling
<1>2. KeepsParked
  <2> SUFFICES ASSUME NEW u \in Threads, NEW d \in Chans, NEW r \in Queues, Waits(u, d, r)
               PROVE  ch'[u] = ch[u] /\ (~closed'[d] => ~closed[d] /\ pc'[u] = pc[u])
    BY DEF KeepsParked
  <2>1. ch' = ch /\ closed' = closed
    BY DEF Signals, Signalling
  <2>2. CASE u # t
    BY <2>1, <2>2 DEF Signals, Others, Signalling
  <2>3. CASE u = t
    <3>1. closed[ch[t]] /\ ch[t] = d
      BY <2>3, NotWaiting DEF Signals, Queues, WaitInv, QueuesOK, MembersOK, Signalling
    <3> QED BY <2>1, <2>3, <3>1
  <2> QED BY <2>2, <2>3
<1>3. QueuesOK'
  BY <1>2, QueuesKept DEF WaitInv, Signals, Signalling
<1>4. TokensOK'
  <2> SUFFICES ASSUME NEW u \in Threads, ~closed[ch[u]]
               PROVE  /\ Served(u)' => OneToken(u)'
                      /\ ~Served(u)' => sema'[u] = 0 /\ NoSignal(u)'
    BY DEF TokensOK, Signals, Signalling
  <2>1. Served(u)' <=> Served(u)
    <3>1. CASE u = t
      BY <3>1 DEF Served, Signals, Queues, Signalling
    <3>2. CASE u # t
      <4>1. pc'[u] = pc[u] /\ ch[u] \in Chans /\ ch' = ch
        BY <3>2 DEF Signals, Others, WaitInv, TypeOK, Signalling
      <4> QED BY <1>1, <4>1 DEF Served
    <3> QED BY <3>1, <3>2
  <2>2. CASE u = f
    <3>1. ~NoSignal(f)
      BY DEF NoSignal
    <3>2. Served(f) /\ sema[f] = 0 /\ OneSignal(f)
      BY <2>2, <3>1 DEF WaitInv, TokensOK, OneToken
    <3>3. sema'[f] = 1
      BY <1>0, <3>2 DEF Signals, WaitInv, TypeOK, Signalling
    <3>4. NoSignal(u)'
      BY <1>0, <2>2, <3>2, NULLAssumption DEF NoSignal, OneSignal
    <3>5. sema'[u] = 1
      BY <2>2, <3>3
    <3> QED BY <2>1, <2>2, <3>2, <3>4, <3>5 DEF OneToken
  <2>3. CASE u # f
    <3>1. \A v \in Threads : sig'[v] = u <=> sig[v] = u
      BY <1>0, <2>3, NULLAssumption
    <3>2. (NoSignal(u)' <=> NoSignal(u)) /\ (OneSignal(u)' <=> OneSignal(u))
      BY <3>1 DEF NoSignal, OneSignal
    <3>3. sema'[u] = sema[u]
      BY <1>0, <2>3 DEF Signals, WaitInv, TypeOK, Signalling
    <3>4. OneToken(u)' <=> OneToken(u)
      BY <3>2, <3>3 DEF OneToken
    <3> QED BY <2>1, <3>2, <3>3, <3>4 DEF WaitInv, TokensOK
  <2> QED BY <2>2, <2>3
<1>5. ThrClosedOK'
  <2>1. ASSUME NEW u \in Threads, pc'[u] = "recvq", closed[ch[u]]
        PROVE  pc[u] = "recvq" /\ (Waits(u, ch[u], "recvq")' <=> Waits(u, ch[u], "recvq"))
    <3>1. u # t /\ pc'[u] = pc[u] /\ ch'[u] = ch[u] /\ ch[u] \in Chans /\ "recvq" \in Queues
      BY <2>1 DEF Signals, Others, WaitInv, TypeOK, Queues, Signalling
    <3> QED BY <1>1, <2>1, <3>1
  <2> QED BY <2>1, ThrClosedKept DEF Signals, Signalling
<1> QED BY <1>3, <1>4, <1>5

\* chan_close gives one token to every thread that waits, and to nobody else.
LEMMA ClosesWaits ==
  ASSUME WaitInv, NEW c \in Chans, Closes(c)
  PROVE  QueuesOK' /\ TokensOK' /\ ThrClosedOK'
<1>0. /\ closed'[c] = TRUE /\ \A d \in Chans : d # c => closed'[d] = closed[d]
      /\ ch' = ch /\ pc' = pc /\ sig' = sig /\ waiting' = waiting
      /\ \A u \in Threads : ch[u] \in Chans
  BY DEF WaitInv, TypeOK, Closes
<1>1. \A u \in Threads, d \in Chans, r \in Queues : Waits(u, d, r)' <=> Waits(u, d, r)
  BY <1>0 DEF Waits
<1>2. KeepsParked
  BY <1>0 DEF KeepsParked
<1>3. QueuesOK'
  BY <1>2, QueuesKept DEF WaitInv, Closes
<1>4. TokensOK'
  <2> SUFFICES ASSUME NEW u \in Threads, ~closed'[ch[u]]
               PROVE  /\ Served(u)' => OneToken(u)'
                      /\ ~Served(u)' => sema'[u] = 0 /\ NoSignal(u)'
    BY <1>0 DEF TokensOK
  <2>1. ch[u] # c /\ ~closed[ch[u]]
    BY <1>0
  <2>2. \A q \in Queues : ~Waits(u, c, q)
    BY <2>1 DEF WaitInv, QueuesOK, MembersOK
  <2>3. sema'[u] = sema[u]
    BY <2>2 DEF Closes
  <2>4. Served(u)' <=> Served(u)
    BY <1>0, <1>1 DEF Served
  <2>5. (NoSignal(u)' <=> NoSignal(u)) /\ (OneSignal(u)' <=> OneSignal(u))
    BY <1>0 DEF NoSignal, OneSignal
  <2>6. OneToken(u)' <=> OneToken(u)
    BY <2>3, <2>5 DEF OneToken
  <2> QED BY <2>1, <2>3, <2>4, <2>5, <2>6 DEF WaitInv, TokensOK
<1>5. ThrClosedOK'
  <2> SUFFICES ASSUME NEW u \in Threads
               PROVE  /\ thrclosed'[u] = TRUE => closed'[ch[u]]
                      /\ pc[u] = "recvq" /\ closed'[ch[u]] =>
                           (thrclosed'[u] = TRUE <=> Waits(u, ch[u], "recvq"))
    BY <1>0, <1>1 DEF ThrClosedOK, Waits
  <2>0. "recvq" \in Queues /\ "sendq" \in Queues
    BY DEF Queues
  <2>1. thrclosed'[u] = TRUE <=>
            (thrclosed[u] = TRUE \/ Waits(u, c, "recvq") \/ Waits(u, c, "sendq"))
    BY DEF Closes
  <2>2. \A q \in Queues : Waits(u, c, q) => ch[u] = c /\ u \in Role(q)
    BY DEF WaitInv, QueuesOK, MembersOK
  <2>3. /\ thrclosed[u] = TRUE => closed[ch[u]]
        /\ pc[u] = "recvq" /\ closed[ch[u]] => (thrclosed[u] = TRUE <=> Waits(u, ch[u], "recvq"))
    BY DEF WaitInv, ThrClosedOK
  <2>4. CASE ch[u] = c
    <3>1. ~closed[c] /\ closed'[c]
      BY <1>0 DEF Closes
    <3>2. pc[u] = "recvq" => ~Waits(u, c, "sendq")
      BY <2>0, <3>1 DEF WaitInv, QueuesOK, MembersOK
    <3> QED BY <2>1, <2>3, <2>4, <3>1, <3>2
  <2>5. CASE ch[u] # c
    BY <1>0, <2>0, <2>1, <2>2, <2>3, <2>5
  <2> QED BY <2>4, <2>5
<1> QED BY <1>3, <1>4, <1>5

-----------------------------------------------------------------------------
\* What the parts of StructInv ask of a step of thread t.
LEMMA ControlKept ==
  ASSUME ControlOK, NEW t \in Threads, Others(t), ControlAt(t)'
  PROVE  ControlOK'
BY DEF ControlOK, ControlAt, Others, Signalling

\* The producers that a step of t leaves alone hold what they held.
LEMMA SendersKept ==
  ASSUME SendersOK, NEW t \in Threads, Others(t), closed' = closed,
         \A u \in Producers : u # t => elem'[u] = elem[u] /\ nsent'[u] = nsent[u],
         t \in Producers => SenderAt(t)'
  PROVE  SendersOK'
<1> SUFFICES ASSUME NEW u \in Producers PROVE SenderAt(u)'
  BY DEF SendersOK
<1>1. CASE u = t
  BY <1>1
<1>2. CASE u # t
  <2>1. u \in Threads /\ SenderAt(u)
    BY DEF Threads, SendersOK
  <2>2. pc'[u] = pc[u] /\ ch'[u] = ch[u] /\ elem'[u] = elem[u] /\ nsent'[u] = nsent[u]
    BY <1>2, <2>1 DEF Others
  <2> QED BY <2>1, <2>2 DEF SenderAt
<1> QED BY <1>1, <1>2

\* A step lets nobody new wait for a receiver unless its channel is open.
SendqKept ==
  \A c \in Chans : (closed[c] /\ Len(waiting[c]["sendq"]) = 0) =>
    waiting'[c]["sendq"] = waiting[c]["sendq"]

\* A producer that has sent everything stays done.
LEMMA DoneKept ==
  ASSUME ClosedDone, NEW t \in Threads, Others(t), closed' = closed, SendqKept,
         \A u \in Producers : u # t => nsent'[u] = nsent[u],
         (t \in Producers /\ SenderDone(t)) => SenderDone(t)'
  PROVE  ClosedDone'
<1> SUFFICES ASSUME NEW c \in Chans, closed[c], c \notin EarlyClose
             PROVE  /\ Len(waiting'[c]["sendq"]) = 0
                    /\ \A u \in Producers : SenderDone(u)'
  BY DEF ClosedDone
<1>1. Len(waiting[c]["sendq"]) = 0 /\ \A u \in Producers : SenderDone(u)
  BY DEF ClosedDone
<1>2. ASSUME NEW u \in Producers PROVE SenderDone(u)'
  <2>1. CASE u = t
    BY <1>1, <2>1
  <2>2. CASE u # t
    <3>1. u \in Threads
      BY DEF Threads
    <3>2. pc'[u] = pc[u] /\ nsent'[u] = nsent[u]
      BY <2>2, <3>1 DEF Others
    <3> QED BY <1>1, <3>2 DEF SenderDone, SendCalls
  <2> QED BY <2>1, <2>2
<1> QED BY <1>1, <1>2 DEF SendqKept

\* A direct transfer adds no parked sender.
LEMMA MeetsSendq ==
  ASSUME WaitInv, NEW t \in Threads, NEW q \in Queues, Meets(t, q)
  PROVE  SendqKept
<1> DEFINE c == ch[t]
<1>1. c \in Chans /\ DataOK /\ ListsOK /\ first[c][q] # NULL /\ Dequeue(c, q)
  BY DEF WaitInv, TypeOK, QueuesOK, Meets, AfterMeeting
<1> HIDE DEF c
<1>2. /\ Len(waiting[c][q]) > 0
      /\ \A d \in Chans, r \in Queues : (d # c \/ r # q) => waiting'[d][r] = waiting[d][r]
  BY <1>1, DequeueWaiting
<1>3. "sendq" \in Queues
  BY DEF Queues
<1> QED BY <1>2, <1>3 DEF SendqKept

\* A thread parks on an open channel.
LEMMA ParksSendq ==
  ASSUME WaitInv, NEW t \in Threads, NEW q \in Queues, Parks(t, q)
  PROVE  SendqKept
<1> DEFINE c == ch[t]
<1>1. c \in Chans /\ DataOK /\ Enqueue(c, q, t) /\ ~closed[c]
  BY DEF WaitInv, TypeOK, Parks
<1> HIDE DEF c
<1>2. \A d \in Chans, r \in Queues : (d # c \/ r # q) => waiting'[d][r] = waiting[d][r]
  BY <1>1, EnqueueWaiting
<1>3. "sendq" \in Queues
  BY DEF Queues
<1> QED BY <1>1, <1>2, <1>3 DEF SendqKept

\* What a return of chan_send or chan_recv does to the results.
LEMMA ReturnsEffect ==
  ASSUME TypeOK, DataOK, NEW t \in Threads, NEW ok \in BOOLEAN, Returns(t, ok)
  PROVE  /\ ret' \in [Threads -> [ok : BOOLEAN, ch : Chans, block : BOOLEAN, op : {"send", "recv"}]]
         /\ pc' = [pc EXCEPT ![t] = "idle"] /\ pc'[t] = "idle"
         /\ \A u \in Threads : u # t => pc'[u] = pc[u] /\ ret'[u] = ret[u]
         /\ ret'[t].ok = ok /\ ret'[t].ch = ch[t]
         /\ ret'[t].op = IF pc[t] \in SendCalls THEN "send" ELSE "recv"
         /\ ret'[t].block = TRUE <=> pc[t] \in {"send", "recv", "sendq", "recvq"}
<1> DEFINE b == pc[t] \in {"send", "recv", "sendq", "recvq"}
           o == IF pc[t] \in SendCalls THEN "send" ELSE "recv"
           r == [ok |-> ok, ch |-> ch[t], block |-> b, op |-> o]
<1>1. ret' = [ret EXCEPT ![t] = r] /\ pc' = [pc EXCEPT ![t] = "idle"]
  BY DEF Returns, Goto
<1>2. b \in BOOLEAN /\ ch[t] \in Chans /\ o \in {"send", "recv"}
  BY DEF TypeOK
<1>3. r \in [ok : BOOLEAN, ch : Chans, block : BOOLEAN, op : {"send", "recv"}]
      /\ r.ok = ok /\ r.ch = ch[t] /\ r.block = b /\ r.op = o
  BY <1>2
<1> HIDE DEF r, o
<1>4. /\ ret' \in [Threads -> [ok : BOOLEAN, ch : Chans, block : BOOLEAN, op : {"send", "recv"}]]
      /\ ret'[t] = r /\ \A u \in Threads : u # t => ret'[u] = ret[u]
  BY <1>1, <1>3 DEF DataOK
<1>5. pc'[t] = "idle" /\ \A u \in Threads : u # t => pc'[u] = pc[u]
  BY <1>1 DEF TypeOK
<1>6. ret'[t].ok = ok /\ ret'[t].ch = ch[t] /\ ret'[t].op = o
  BY <1>3, <1>4, Zenon
<1>7. ret'[t].block = TRUE <=> b
  BY <1>3, <1>4, Zenon
<1> QED BY <1>1, <1>4, <1>5, <1>6, <1>7 DEF o

-----------------------------------------------------------------------------
\* Steps that only move their own thread.
SendCall(t) ==
  \/ /\ pc[t] = "idle" /\ ret'[t] = ret[t]
     /\ elem'[t] = <<t, nsent[t] + 1>>
     /\ \/ pc'[t] = "trysend" /\ closed[ch'[t]]
        \/ pc'[t] \in {"send", "trysend_full"} /\ nsent[t] < MaxMsgs
  \/ /\ UNCHANGED <<elem, ch>> /\ ret'[t] = ret[t]
     /\ \/ pc[t] = "trysend_full" /\ pc'[t] = "trysend"
        \/ pc[t] = "send" /\ pc'[t] = "send"
  \/ /\ UNCHANGED <<elem, ch>>
     /\ pc[t] \in SendPCs /\ pc'[t] = "idle"
     /\ ret'[t].ok = FALSE /\ ret'[t].op = "send"

RecvCall(t) ==
  /\ pc[t] \in RecvPCs \cup {"idle"} /\ elem' = elem
  /\ \/ pc'[t] \in RecvPCs /\ ret'[t] = ret[t]
     \/ /\ pc'[t] = "idle" /\ ret'[t].ok = FALSE
        /\ ret'[t].block = TRUE => closed[ret'[t].ch]

Local(t) ==
  /\ Alone(t)
  /\ UNCHANGED <<qlen, recvx, buf, nsent, accepted, delivered, recvd>>
  /\ \A u \in Threads : u # t => elem'[u] = elem[u] /\ into'[u] = into[u]
  /\ \/ t \in Producers /\ SendCall(t)
     \/ t \in Consumers /\ RecvCall(t)

\* What the later parts rest on.
StayInv == IInv /\ StructInv

\* The parts of the invariant, by name.
LEMMA StayWaitInv ==
  ASSUME StayInv
  PROVE  WaitInv /\ TypeOK /\ DataOK /\ ControlOK /\ SendersOK /\ ClosedDone
BY DEF StayInv, IInv, StructInv, WaitInv

\* A call of a producer begins.
LEMMA StartSendLocal ==
  ASSUME StayInv, NEW t \in Producers, NEW c \in Chans, NEW b \in BOOLEAN,
         StartSend(t, c, b), StaysWithClosed
  PROVE  Local(t) /\ DataOK'
<1>0. t \in Threads /\ TypeOK /\ DataOK /\ ControlAt(t) /\ nsent[t] \in 0..MaxMsgs
  BY StayWaitInv DEF Threads, ControlOK, DataOK
<1>1. /\ UNCHANGED <<chanVars, queueVars, thrclosed, sema, into, sig, hist, ret>>
      /\ elem' = [elem EXCEPT ![t] = <<t, nsent[t] + 1>>]
      /\ ch' = [ch EXCEPT ![t] = c] /\ pc[t] = "idle"
      /\ \E p \in SendPCs : pc' = [pc EXCEPT ![t] = p]
                            /\ (p = "trysend" => closed[c])
                            /\ (p # "trysend" => nsent[t] < MaxMsgs)
  <2>1. CASE b
    BY <2>1 DEF StartSend, Goto, SendPCs
  <2>2. CASE ~b /\ closed[c]
    BY <2>2 DEF StartSend, Goto, SendPCs
  <2>3. CASE ~b /\ ~closed[c]
    BY <2>3 DEF StartSend, Goto, SendPCs
  <2> QED BY <2>1, <2>2, <2>3 DEF StartSend
<1>2. /\ pc'[t] \in SendPCs /\ ch'[t] = c /\ elem'[t] = <<t, nsent[t] + 1>>
      /\ pc'[t] = "trysend" => closed[c]
      /\ pc'[t] # "trysend" => nsent[t] < MaxMsgs
      /\ \A u \in Threads : u # t => pc'[u] = pc[u] /\ ch'[u] = ch[u] /\ elem'[u] = elem[u]
  BY <1>0, <1>1 DEF TypeOK, DataOK
<1>3. <<t, nsent[t] + 1>> \in Msgs
  BY <1>0, ChanAssumptions DEF Msgs
<1>4. DataOK'
  <2>1. elem' \in [Threads -> Elems]
    BY <1>0, <1>1, <1>3 DEF DataOK, Elems
  <2> QED BY <1>0, <1>1, <2>1 DEF DataOK, chanVars, queueVars, hist
<1>5. Others(t)
  BY <1>1, <1>2 DEF Others
<1>6. closed[ch[t]] => ch'[t] = ch[t]
  BY <1>0 DEF StaysWithClosed
<1>7. Alone(t)
  BY <1>0, <1>1, <1>2, <1>5, <1>6 DEF Alone, Busy, Queues, SendPCs, queueVars, chanVars, Signalling
<1>8. SendCall(t)
  BY <1>1, <1>2 DEF SendCall, SendPCs
<1> QED BY <1>1, <1>2, <1>4, <1>7, <1>8 DEF Local, chanVars, hist

\* A call of a consumer begins.
LEMMA StartRecvLocal ==
  ASSUME StayInv, NEW t \in Consumers, NEW c \in Chans, NEW b \in BOOLEAN,
         StartRecv(t, c, b), StaysWithClosed
  PROVE  Local(t) /\ DataOK'
<1>0. t \in Threads /\ TypeOK /\ DataOK /\ ControlAt(t)
  BY StayWaitInv DEF Threads, ControlOK
<1>1. /\ UNCHANGED <<chanVars, queueVars, thrclosed, sema, sig, hist, ret, elem, into>>
      /\ ch' = [ch EXCEPT ![t] = c] /\ pc[t] = "idle"
      /\ \E p \in RecvPCs : pc' = [pc EXCEPT ![t] = p]
  <2>1. CASE b
    BY <2>1 DEF StartRecv, Goto, RecvPCs
  <2>2. CASE ~b /\ ~Empty(c)
    BY <2>2 DEF StartRecv, Goto, RecvPCs
  <2>3. CASE ~b /\ Empty(c)
    BY <2>3 DEF StartRecv, Goto, RecvPCs
  <2> QED BY <2>1, <2>2, <2>3 DEF StartRecv
<1>2. /\ pc'[t] \in RecvPCs /\ ch'[t] = c
      /\ \A u \in Threads : u # t => pc'[u] = pc[u] /\ ch'[u] = ch[u]
  BY <1>0, <1>1 DEF TypeOK
<1>4. DataOK'
  BY <1>0, <1>1 DEF DataOK, chanVars, queueVars, hist
<1>5. Others(t)
  BY <1>1, <1>2 DEF Others
<1>6. closed[ch[t]] => ch'[t] = ch[t]
  BY <1>0 DEF StaysWithClosed
<1>7. Alone(t)
  BY <1>0, <1>1, <1>2, <1>5, <1>6 DEF Alone, Busy, Queues, RecvPCs, queueVars, chanVars, Signalling
<1>8. RecvCall(t)
  BY <1>1, <1>2 DEF RecvCall
<1> QED BY <1>1, <1>2, <1>4, <1>7, <1>8 DEF Local, chanVars, hist

\* The fast paths of a producer, and its calls that send nothing.
LEMMA SendLocal ==
  ASSUME StayInv, NEW t \in Threads,
         SendFastPath(t) \/ SendClosed(t) \/ (SendBlocked(t) /\ pc[t] = "trysend")
  PROVE  Local(t) /\ DataOK'
<1>0. TypeOK /\ DataOK /\ ControlAt(t)
  BY StayWaitInv DEF ControlOK
<1>1. /\ UNCHANGED <<chanVars, queueVars, thrclosed, sema, sig, hist, elem, into, ch>>
      /\ pc[t] \in SendPCs
      /\ \/ Returns(t, FALSE)
         \/ ret' = ret /\ pc[t] = "trysend_full" /\ pc' = [pc EXCEPT ![t] = "trysend"]
         \/ ret' = ret /\ pc[t] = "send" /\ pc' = pc
  BY DEF SendFastPath, SendClosed, SendBlocked, Sending, Goto, SendPCs, hist, queueVars
<1>2. t \in Producers /\ pc[t] \notin Busy
  BY <1>0, <1>1 DEF ControlAt, SendPCs, Busy, Queues, Signalling
<1>3. CASE Returns(t, FALSE)
  <2>1. /\ ret' \in [Threads -> [ok : BOOLEAN, ch : Chans, block : BOOLEAN, op : {"send", "recv"}]]
        /\ pc'[t] = "idle" /\ \A u \in Threads : u # t => pc'[u] = pc[u] /\ ret'[u] = ret[u]
        /\ ret'[t].ok = FALSE /\ ret'[t].op = "send"
    BY <1>0, <1>1, <1>3, ReturnsEffect DEF SendPCs, SendCalls
  <2>2. Alone(t)
    BY <1>1, <1>2, <2>1 DEF Alone, Others, Busy, Queues, queueVars, chanVars, Signalling
  <2>3. SendCall(t)
    BY <1>1, <2>1 DEF SendCall
  <2>4. DataOK'
    BY <1>0, <1>1, <2>1 DEF DataOK, chanVars, queueVars, hist
  <2> QED BY <1>1, <1>2, <2>2, <2>3, <2>4 DEF Local, chanVars, hist
<1>4. CASE ret' = ret /\ pc[t] = "trysend_full" /\ pc' = [pc EXCEPT ![t] = "trysend"]
  <2>1. pc'[t] = "trysend" /\ \A u \in Threads : u # t => pc'[u] = pc[u] /\ ret'[u] = ret[u]
    BY <1>0, <1>4 DEF TypeOK
  <2>2. Alone(t)
    BY <1>1, <1>2, <2>1 DEF Alone, Others, Busy, Queues, queueVars, chanVars, Signalling
  <2>3. SendCall(t)
    BY <1>1, <1>4, <2>1 DEF SendCall
  <2>4. DataOK'
    BY <1>0, <1>1, <1>4 DEF DataOK, chanVars, queueVars, hist
  <2> QED BY <1>1, <1>2, <2>2, <2>3, <2>4 DEF Local, chanVars, hist
<1>5. CASE ret' = ret /\ pc[t] = "send" /\ pc' = pc
  <2>2. Alone(t)
    BY <1>1, <1>2, <1>5 DEF Alone, Others, Busy, Queues, queueVars, chanVars, Signalling
  <2>3. SendCall(t)
    BY <1>1, <1>5 DEF SendCall
  <2>4. DataOK'
    BY <1>0, <1>1, <1>5 DEF DataOK, chanVars, queueVars, hist
  <2> QED BY <1>1, <1>2, <2>2, <2>3, <2>4 DEF Local, chanVars, hist
<1> QED BY <1>1, <1>3, <1>4, <1>5

\* The fast paths of a consumer, and its calls that receive nothing.
LEMMA RecvLocal ==
  ASSUME StayInv, NEW t \in Threads,
         \/ RecvFastPath(t) \/ RecvFastPathClosed(t) \/ RecvClosed(t)
         \/ (RecvBlocked(t) /\ pc[t] = "tryrecv")
  PROVE  Local(t) /\ DataOK'
<1>0. TypeOK /\ DataOK /\ ControlAt(t)
  BY StayWaitInv DEF ControlOK
<1>1. /\ UNCHANGED <<chanVars, queueVars, thrclosed, sema, elem, sig, hist, ch>>
      /\ pc[t] \in RecvPCs
      /\ into' = into \/ into' = [into EXCEPT ![t] = Zero]
      /\ \/ Returns(t, FALSE) /\ (pc[t] = "recv" => closed[ch[t]])
         \/ ret' = ret /\ \E p \in RecvPCs : pc' = [pc EXCEPT ![t] = p]
  <2>1. CASE RecvFastPath(t)
    BY <2>1 DEF RecvFastPath, Goto, RecvPCs
  <2>2. CASE RecvFastPathClosed(t)
    BY <2>2 DEF RecvFastPathClosed, Goto, RecvPCs
  <2>3. CASE RecvClosed(t)
    BY <2>3 DEF RecvClosed, Receiving, Drained, RecvPCs
  <2>4. CASE RecvBlocked(t) /\ pc[t] = "tryrecv"
    BY <2>4 DEF RecvBlocked, CanRecv, Receiving, RecvPCs, hist, queueVars
  <2> QED BY <2>1, <2>2, <2>3, <2>4
<1>2. t \in Consumers /\ pc[t] \notin Busy /\ ch[t] \in Chans
  BY <1>0, <1>1 DEF ControlAt, RecvPCs, Busy, Queues, TypeOK, Signalling
<1>3. into' \in [Threads -> Elems] /\ \A u \in Threads : u # t => into'[u] = into[u]
  BY <1>0, <1>1 DEF DataOK, Elems
<1>4. CASE Returns(t, FALSE) /\ (pc[t] = "recv" => closed[ch[t]])
  <2>1. /\ ret' \in [Threads -> [ok : BOOLEAN, ch : Chans, block : BOOLEAN, op : {"send", "recv"}]]
        /\ pc'[t] = "idle" /\ \A u \in Threads : u # t => pc'[u] = pc[u] /\ ret'[u] = ret[u]
        /\ ret'[t].ok = FALSE /\ ret'[t].ch = ch[t]
        /\ ret'[t].block = TRUE <=> pc[t] \in {"send", "recv", "sendq", "recvq"}
    BY <1>0, <1>4, ReturnsEffect
  <2>2. Alone(t)
    BY <1>1, <1>2, <2>1 DEF Alone, Others, Busy, Queues, queueVars, chanVars, Signalling
  <2>3. ret'[t].block = TRUE => closed[ret'[t].ch]
    BY <1>1, <1>4, <2>1 DEF RecvPCs
  <2>4. RecvCall(t)
    BY <1>1, <2>1, <2>3 DEF RecvCall
  <2>5. DataOK'
    BY <1>0, <1>1, <1>3, <2>1 DEF DataOK, chanVars, queueVars, hist
  <2> QED BY <1>1, <1>2, <1>3, <2>2, <2>4, <2>5 DEF Local, chanVars, hist
<1>5. CASE ret' = ret /\ \E p \in RecvPCs : pc' = [pc EXCEPT ![t] = p]
  <2>1. pc'[t] \in RecvPCs /\ \A u \in Threads : u # t => pc'[u] = pc[u] /\ ret'[u] = ret[u]
    BY <1>0, <1>5 DEF TypeOK
  <2>2. Alone(t)
    BY <1>1, <1>2, <2>1 DEF Alone, Others, Busy, Queues, queueVars, chanVars, RecvPCs, Signalling
  <2>3. RecvCall(t)
    BY <1>1, <1>5, <2>1 DEF RecvCall
  <2>4. DataOK'
    BY <1>0, <1>1, <1>3, <1>5 DEF DataOK, chanVars, queueVars, hist
  <2> QED BY <1>1, <1>2, <1>3, <2>2, <2>3, <2>4 DEF Local, chanVars, hist
<1> QED BY <1>1, <1>4, <1>5

\* Such steps keep the structure.
LEMMA LocalStruct ==
  ASSUME StayInv, NEW t \in Threads, Local(t), DataOK'
  PROVE  StructInv'
<1>0. WaitInv /\ TypeOK /\ ControlAt(t) /\ SendersOK /\ ClosedDone /\ Alone(t) /\ ControlOK
  BY StayWaitInv DEF ControlOK, Local
<1>1. QueuesOK' /\ TokensOK' /\ ThrClosedOK'
  BY <1>0, AloneWaits
<1>2. Others(t) /\ closed' = closed /\ nsent' = nsent /\ waiting' = waiting
  BY <1>0 DEF Alone, Local
<1>3. sig'[t] = sig[t] /\ pc[t] \notin Signalling /\ pc'[t] \notin Busy
  BY <1>0 DEF Alone, Busy, Signalling
<1>4. CASE t \in Producers /\ SendCall(t)
  <2>1. pc[t] \in SendPCs \cup {"idle"} /\ pc'[t] \in SendPCs \cup {"idle"}
    BY <1>4 DEF SendCall, SendPCs
  <2>2. ControlAt(t)'
    BY <1>0, <1>3, <1>4, <2>1 DEF ControlAt, Busy, SendPCs, RecvPCs, Queues, Signalling
  <2>3. SenderAt(t)'
    <3>1. SenderAt(t)
      BY <1>0, <1>4 DEF SendersOK
    <3>2. CASE pc[t] = "idle"
      BY <1>2, <1>4, <3>2 DEF SendCall, SenderAt, SendPCs
    <3>3. CASE pc[t] # "idle"
      BY <1>2, <1>4, <3>1, <3>3 DEF SendCall, SenderAt, SendPCs
    <3> QED BY <3>2, <3>3
  <2>4. SenderDone(t) => SenderDone(t)'
    <3>1. nsent[t] \in 0..MaxMsgs /\ MaxMsgs \in Nat
      BY <1>4, ChanAssumptions, StayWaitInv DEF DataOK
    <3> QED BY <1>2, <1>4, <3>1 DEF SenderDone, SendCall, SendPCs, SendCalls
  <2>5. ControlOK'
    BY <1>0, <1>2, <2>2, ControlKept
  <2>6. SendersOK'
    <3>1. \A u \in Producers : u # t => elem'[u] = elem[u] /\ nsent'[u] = nsent[u]
      BY <1>2 DEF Local, Threads
    <3> QED BY <1>0, <1>2, <2>3, <3>1, SendersKept
  <2>7. ClosedDone'
    BY <1>0, <1>2, <2>4, DoneKept DEF SendqKept
  <2> QED BY <1>1, <2>5, <2>6, <2>7 DEF StructInv
<1>5. CASE t \in Consumers /\ RecvCall(t)
  <2>1. SenderAt(t)' /\ (SenderDone(t) => SenderDone(t)')
    BY <1>2, <1>5 DEF RecvCall, SenderAt, SenderDone, SendPCs, RecvPCs, SendCalls
  <2>2. ControlAt(t)'
    BY <1>0, <1>3, <1>5 DEF ControlAt, RecvCall, Busy, SendPCs, RecvPCs, Queues, Signalling
  <2>5. ControlOK'
    BY <1>0, <1>2, <2>2, ControlKept
  <2>6. SendersOK'
    <3>1. \A u \in Producers : u # t => elem'[u] = elem[u] /\ nsent'[u] = nsent[u]
      BY <1>2 DEF Local, Threads
    <3> QED BY <1>0, <1>2, <2>1, <3>1, SendersKept
  <2>7. ClosedDone'
    BY <1>0, <1>2, <2>1, DoneKept DEF SendqKept
  <2> QED BY <1>1, <2>5, <2>6, <2>7 DEF StructInv
<1> QED BY <1>4, <1>5 DEF Local

\* One step of a thread, from what its own part of the invariant asks.
LEMMA ThreadStruct ==
  ASSUME StayInv, NEW t \in Threads, NEW q \in Queues,
         Alone(t) \/ Meets(t, q) \/ Parks(t, q) \/ Wakes(t) \/ Signals(t),
         DataOK', ControlAt(t)',
         \A u \in Producers : u # t => elem'[u] = elem[u] /\ nsent'[u] = nsent[u],
         t \in Producers => SenderAt(t)',
         (t \in Producers /\ SenderDone(t)) => SenderDone(t)'
  PROVE  StructInv'
<1>0. WaitInv /\ ControlOK /\ SendersOK /\ ClosedDone
  BY StayWaitInv
<1>1. Others(t) /\ closed' = closed
  BY DEF Alone, Meets, Parks, Wakes, Signals, Signalling, AfterMeeting
<1>2. QueuesOK' /\ TokensOK' /\ ThrClosedOK'
  BY <1>0, AloneWaits, MeetsWaits, ParksWaits, WakesWaits, SignalsWaits
<1>3. SendqKept
  <2>1. CASE waiting' = waiting
    BY <2>1 DEF SendqKept
  <2>2. CASE Meets(t, q) \/ Parks(t, q)
    BY <1>0, <2>2, MeetsSendq, ParksSendq
  <2> QED BY <2>1, <2>2 DEF Alone, Wakes, Signals, Signalling
<1>4. ControlOK'
  BY <1>0, <1>1, ControlKept
<1>5. SendersOK'
  BY <1>0, <1>1, SendersKept
<1>6. ClosedDone'
  BY <1>0, <1>1, <1>3, DoneKept
<1> QED BY <1>2, <1>4, <1>5, <1>6 DEF StructInv

\* One slot of one ring is written.
LEMMA BufPut ==
  ASSUME DataOK, NEW c \in Chans, NEW i \in 0..(Cap[c] - 1), NEW m \in Elems,
         buf' = [buf EXCEPT ![c][i] = m]
  PROVE  /\ buf' \in [Chans -> UNION {[0..(Cap[d] - 1) -> Elems] : d \in Chans}]
         /\ \A d \in Chans : buf'[d] \in [0..(Cap[d] - 1) -> Elems]
         /\ buf'[c][i] = m
         /\ \A j \in 0..(Cap[c] - 1) : j # i => buf'[c][j] = buf[c][j]
         /\ \A d \in Chans : d # c => buf'[d] = buf[d]
<1> DEFINE f == [buf[c] EXCEPT ![i] = m]
<1>1. buf[c] \in [0..(Cap[c] - 1) -> Elems]
  BY DEF DataOK
<1>2. /\ f \in [0..(Cap[c] - 1) -> Elems] /\ f[i] = m
      /\ \A j \in 0..(Cap[c] - 1) : j # i => f[j] = buf[c][j]
  BY <1>1
<1>3. buf' = [buf EXCEPT ![c] = f]
  OBVIOUS
<1> HIDE DEF f
<1>4. f \in UNION {[0..(Cap[d] - 1) -> Elems] : d \in Chans}
  BY <1>2
<1>5. buf \in [Chans -> UNION {[0..(Cap[d] - 1) -> Elems] : d \in Chans}]
      /\ \A d \in Chans : buf[d] \in [0..(Cap[d] - 1) -> Elems]
  BY DEF DataOK
<1> DEFINE U == UNION {[0..(Cap[d] - 1) -> Elems] : d \in Chans}
<1> HIDE DEF U
<1>6. /\ buf' \in [Chans -> U] /\ buf'[c] = f
      /\ \A d \in Chans : d # c => buf'[d] = buf[d]
  BY <1>3, <1>4, <1>5, Zenon DEF U
<1>7. \A d \in Chans : buf'[d] \in [0..(Cap[d] - 1) -> Elems]
  BY <1>2, <1>5, <1>6
<1> QED BY <1>2, <1>6, <1>7 DEF U

\* A message is appended to one of a family of sequences.
LEMMA AppendAt ==
  ASSUME NEW S, NEW I, NEW f \in [I -> Seq(S)], NEW i \in I, NEW m \in S,
         NEW g, g = [f EXCEPT ![i] = Append(@, m)]
  PROVE  /\ g \in [I -> Seq(S)]
         /\ Len(f[i]) \in Nat /\ Len(g[i]) = Len(f[i]) + 1
         /\ \A k \in 1..Len(f[i]) : g[i][k] = f[i][k]
         /\ g[i][Len(f[i]) + 1] = m
         /\ \A j \in I : j # i => g[j] = f[j]
<1> DEFINE x == Append(f[i], m)
<1>1. /\ x \in Seq(S) /\ Len(f[i]) \in Nat /\ Len(x) = Len(f[i]) + 1
      /\ \A k \in 1..Len(f[i]) : x[k] = f[i][k]
      /\ x[Len(f[i]) + 1] = m
  BY AppendPoints
<1>2. g = [f EXCEPT ![i] = x]
  OBVIOUS
<1> HIDE DEF x
<1> QED BY <1>1, <1>2

\* Where the buffer is written and read.
LEMMA RingIndex ==
  ASSUME IInv, NEW c \in Chans, Cap[c] > 0
  PROVE  sendx[c] \in 0..(Cap[c] - 1) /\ recvx[c] \in 0..(Cap[c] - 1) /\ Cap[c] \in Nat
<1>1. Cap[c] \in Nat /\ sendx[c] \in Nat /\ recvx[c] \in Nat
  BY ChanAssumptions DEF IInv, TypeOK
<1> QED BY <1>1 DEF IInv, RingOK

\* A producer about to send, on an open channel.
LEMMA SenderReady ==
  ASSUME StayInv, NEW t \in Threads, Sending(t), ~closed[ch[t]]
  PROVE  /\ t \in Producers
         /\ elem[t] = <<t, nsent[t] + 1>> /\ elem[t] \in Msgs /\ elem[t] \in Elems
         /\ nsent[t] + 1 \in 0..MaxMsgs
         /\ nsent[t] \in Nat /\ nsent[t] < MaxMsgs /\ MaxMsgs \in Nat
         /\ ch[t] \in Chans /\ pc[t] \notin Busy /\ ~SenderDone(t)
<1>1. TypeOK /\ DataOK /\ ControlAt(t) /\ SendersOK
  BY StayWaitInv DEF ControlOK
<1>2. t \in Producers
  BY <1>1 DEF Sending, ControlAt, SendPCs
<1>3. elem[t] = <<t, nsent[t] + 1>> /\ nsent[t] < MaxMsgs
  BY <1>1, <1>2 DEF SendersOK, SenderAt, Sending, SendPCs
<1>4. nsent[t] \in 0..MaxMsgs /\ MaxMsgs \in Nat
  BY <1>1, <1>2, ChanAssumptions DEF DataOK
<1>5. elem[t] \in Msgs /\ elem[t] \in Elems /\ nsent[t] + 1 \in 0..MaxMsgs
  <2>1. elem[t] \in Msgs
    BY <1>2, <1>3, <1>4 DEF Msgs
  <2> QED BY <1>3, <1>4, <2>1 DEF Elems
<1> QED BY <1>1, <1>2, <1>3, <1>4, <1>5 DEF TypeOK, Sending, Busy, Queues, SenderDone, Signalling, SendCalls

\* The structure after a direct transfer to a parked receiver.
LEMMA SendDirectStruct ==
  ASSUME StayInv, NEW t \in Threads, SendDirect(t)
  PROVE  Meets(t, "recvq") /\ StructInv'
<1> DEFINE c == ch[t]
           f == first[c]["recvq"]
<1>0. WaitInv /\ TypeOK /\ DataOK /\ ControlAt(t) /\ "recvq" \in Queues /\ "sendq" \in Queues
  BY StayWaitInv DEF ControlOK, Queues
<1>1. /\ t \in Producers
      /\ elem[t] = <<t, nsent[t] + 1>> /\ elem[t] \in Msgs /\ elem[t] \in Elems
      /\ nsent[t] + 1 \in 0..MaxMsgs
      /\ nsent[t] \in Nat /\ nsent[t] < MaxMsgs /\ MaxMsgs \in Nat
      /\ c \in Chans /\ pc[t] \notin Busy /\ ~SenderDone(t)
  BY SenderReady DEF SendDirect
<1>2. /\ pc' = [pc EXCEPT ![t] = "sendsignal"] /\ sig' = [sig EXCEPT ![t] = f]
      /\ ret' = ret /\ ch' = ch
  BY DEF SendDirect, Goto
<1>3. pc'[t] = "sendsignal" /\ sig'[t] = f
      /\ \A u \in Threads : u # t => pc'[u] = pc[u] /\ sig'[u] = sig[u]
  BY <1>0, <1>2 DEF TypeOK
<1>4. Meets(t, "recvq")
  BY <1>1, <1>2, <1>3 DEF Meets, Others, SendDirect, chanVars, AfterMeeting
<1>5. /\ waiting' \in [Chans -> [Queues -> Seq(Threads)]]
      /\ f \in Consumers
  <2>1. c \in Chans /\ DataOK /\ ListsOK /\ f # NULL /\ Dequeue(c, "recvq")
    BY <1>0, <1>1 DEF WaitInv, QueuesOK, SendDirect
  <2> HIDE DEF c
  <2>2. waiting' \in [Chans -> [Queues -> Seq(Threads)]] /\ f \in Threads /\ Waits(f, c, "recvq")
    BY <1>0, <2>1, DequeueWaiting
  <2> QED BY <1>0, <2>1, <2>2 DEF WaitInv, QueuesOK, MembersOK, Role
<1>6. into' = [into EXCEPT ![f] = elem[t]] /\ elem' = elem /\ nsent' = [nsent EXCEPT ![t] = @ + 1]
      /\ accepted' = [accepted EXCEPT ![c] = Append(@, elem[t])]
      /\ delivered' = [delivered EXCEPT ![c] = Append(@, elem[t])]
      /\ UNCHANGED <<chanVars, thrclosed, recvd>>
  BY DEF SendDirect, Accept, Deliver
<1>7. DataOK'
  <2>0. into \in [Threads -> Elems] /\ nsent \in [Producers -> 0..MaxMsgs]
    BY <1>0 DEF DataOK
  <2>1. into' \in [Threads -> Elems] /\ nsent' \in [Producers -> 0..MaxMsgs]
    BY <1>1, <1>6, <2>0
  <2>2. accepted' \in [Chans -> Seq(Elems)] /\ delivered' \in [Chans -> Seq(Elems)]
    <3>2. accepted \in [Chans -> Seq(Elems)] /\ delivered \in [Chans -> Seq(Elems)]
      BY <1>0 DEF DataOK
    <3> QED BY <1>1, <1>6, <3>2, AppendAt
  <2> QED BY <1>0, <1>2, <1>5, <1>6, <2>1, <2>2 DEF DataOK, chanVars
<1>8. ControlAt(t)'
  BY <1>1, <1>3, <1>4, NULLAssumption
     DEF ControlAt, Meets, SendPCs, RecvPCs, Queues, Signalling, SendDirect
<1>9. \A u \in Producers : u # t => elem'[u] = elem[u] /\ nsent'[u] = nsent[u]
  BY <1>0, <1>6 DEF DataOK
<1>10. SenderAt(t)'
  BY <1>3 DEF SenderAt, SendPCs
<1> QED BY <1>0, <1>1, <1>4, <1>7, <1>8, <1>9, <1>10, ThreadStruct

\* The structure after a send into the ring.
LEMMA SendBufferStruct ==
  ASSUME StayInv, NEW t \in Threads, SendBuffer(t)
  PROVE  Alone(t) /\ StructInv'
<1> DEFINE c == ch[t]
<1>0. WaitInv /\ IInv /\ TypeOK /\ DataOK /\ ControlAt(t) /\ "recvq" \in Queues
  BY StayWaitInv DEF ControlOK, Queues, StayInv
<1>1. /\ t \in Producers
      /\ elem[t] = <<t, nsent[t] + 1>> /\ elem[t] \in Msgs /\ elem[t] \in Elems
      /\ nsent[t] + 1 \in 0..MaxMsgs
      /\ nsent[t] \in Nat /\ nsent[t] < MaxMsgs /\ MaxMsgs \in Nat
      /\ c \in Chans /\ pc[t] \notin Busy /\ ~SenderDone(t)
  BY SenderReady DEF SendBuffer
<1>2. /\ ret' \in [Threads -> [ok : BOOLEAN, ch : Chans, block : BOOLEAN, op : {"send", "recv"}]]
      /\ pc'[t] = "idle" /\ \A u \in Threads : u # t => pc'[u] = pc[u] /\ ret'[u] = ret[u]
  BY <1>0, ReturnsEffect DEF SendBuffer
<1>3. Alone(t)
  BY <1>1, <1>2 DEF Alone, Others, Busy, Queues, SendBuffer, queueVars, Signalling
<1>4. /\ buf' = [buf EXCEPT ![c][sendx[c]] = elem[t]] /\ nsent' = [nsent EXCEPT ![t] = @ + 1]
      /\ accepted' = [accepted EXCEPT ![c] = Append(@, elem[t])]
      /\ UNCHANGED <<elem, into, delivered, recvd, thrclosed, waiting>>
  BY DEF SendBuffer, Accept, queueVars
<1>5. /\ buf' \in [Chans -> UNION {[0..(Cap[d] - 1) -> Elems] : d \in Chans}]
      /\ \A d \in Chans : buf'[d] \in [0..(Cap[d] - 1) -> Elems]
  <2>1. Cap[c] > 0
    BY <1>0, <1>1, ChanAssumptions DEF SendBuffer, TypeOK
  <2>2. sendx[c] \in 0..(Cap[c] - 1) /\ elem[t] \in Elems
    BY <1>0, <1>1, <2>1, RingIndex DEF Elems
  <2> QED BY <1>0, <1>1, <1>4, <2>2, BufPut
<1>6. DataOK'
  <2>1. nsent \in [Producers -> 0..MaxMsgs] /\ accepted \in [Chans -> Seq(Elems)]
    BY <1>0 DEF DataOK
  <2>2. nsent' \in [Producers -> 0..MaxMsgs]
    BY <1>1, <1>4, <2>1
  <2>3. accepted' \in [Chans -> Seq(Elems)]
    BY <1>1, <1>4, <2>1, AppendAt
  <2> QED BY <1>0, <1>2, <1>4, <1>5, <2>2, <2>3 DEF DataOK
<1>7. ControlAt(t)'
  BY <1>0, <1>2, <1>3 DEF ControlAt, Alone, Busy, SendPCs, RecvPCs, Signalling
<1>8. \A u \in Producers : u # t => elem'[u] = elem[u] /\ nsent'[u] = nsent[u]
  BY <1>0, <1>4 DEF DataOK
<1>9. SenderAt(t)'
  BY <1>2 DEF SenderAt, SendPCs
<1> QED BY <1>0, <1>1, <1>3, <1>6, <1>7, <1>8, <1>9, ThreadStruct

\* The structure after a sender parks.
LEMMA SendParkStruct ==
  ASSUME StayInv, NEW t \in Threads, SendBlocked(t), pc[t] = "send"
  PROVE  Parks(t, "sendq") /\ StructInv'
<1> DEFINE c == ch[t]
<1>0. WaitInv /\ TypeOK /\ DataOK /\ ControlAt(t) /\ "sendq" \in Queues
  BY StayWaitInv DEF ControlOK, Queues
<1>1. /\ t \in Producers
      /\ elem[t] = <<t, nsent[t] + 1>> /\ elem[t] \in Msgs /\ elem[t] \in Elems
      /\ nsent[t] + 1 \in 0..MaxMsgs
      /\ nsent[t] \in Nat /\ nsent[t] < MaxMsgs /\ MaxMsgs \in Nat
      /\ c \in Chans /\ pc[t] \notin Busy /\ ~SenderDone(t)
  BY SenderReady DEF SendBlocked
<1>2. /\ pc' = [pc EXCEPT ![t] = "sendq"] /\ Enqueue(c, "sendq", t)
      /\ nsent' = [nsent EXCEPT ![t] = @ + 1]
      /\ accepted' = [accepted EXCEPT ![c] = Append(@, elem[t])]
      /\ UNCHANGED <<chanVars, ret, ch, sig, sema, thrclosed, elem, into, delivered, recvd>>
      /\ ~closed[c]
  BY DEF SendBlocked, Park, Goto, Accept
<1>3. pc'[t] = "sendq" /\ \A u \in Threads : u # t => pc'[u] = pc[u]
  BY <1>0, <1>2 DEF TypeOK
<1>4. Parks(t, "sendq")
  BY <1>1, <1>2, <1>3 DEF Parks, Others, Role, chanVars
<1>5. waiting' \in [Chans -> [Queues -> Seq(Threads)]]
  BY <1>0, <1>1, <1>2, EnqueueWaiting
<1>6. nsent' \in [Producers -> 0..MaxMsgs] /\ accepted' \in [Chans -> Seq(Elems)]
      /\ nsent'[t] = nsent[t] + 1
  <2>1. nsent \in [Producers -> 0..MaxMsgs] /\ accepted \in [Chans -> Seq(Elems)]
    BY <1>0 DEF DataOK
  <2>2. nsent' \in [Producers -> 0..MaxMsgs] /\ nsent'[t] = nsent[t] + 1
    BY <1>1, <1>2, <2>1
  <2>3. accepted' \in [Chans -> Seq(Elems)]
    BY <1>1, <1>2, <2>1, AppendAt
  <2> QED BY <2>2, <2>3
<1>7. DataOK'
  BY <1>0, <1>2, <1>5, <1>6 DEF DataOK, chanVars
<1>8. ControlAt(t)'
  BY <1>0, <1>1, <1>2, <1>3 DEF ControlAt, Busy, SendPCs, RecvPCs, Signalling
<1>9. \A u \in Producers : u # t => elem'[u] = elem[u] /\ nsent'[u] = nsent[u]
  BY <1>0, <1>2 DEF DataOK
<1>10. SenderAt(t)'
  BY <1>1, <1>2, <1>3, <1>6 DEF SenderAt, SendPCs
<1> QED BY <1>0, <1>1, <1>4, <1>7, <1>8, <1>9, <1>10, ThreadStruct

\* The structure after a parked thread wakes up.
LEMMA WakeStruct ==
  ASSUME StayInv, NEW t \in Threads, WakeSend(t) \/ WakeRecv(t)
  PROVE  Wakes(t) /\ StructInv'
<1>0. WaitInv /\ TypeOK /\ DataOK /\ ControlAt(t) /\ "sendq" \in Queues
  BY StayWaitInv DEF ControlOK, Queues
<1>1. /\ sema[t] > 0 /\ sema' = [sema EXCEPT ![t] = @ - 1]
      /\ pc[t] \in Queues
      /\ UNCHANGED <<chanVars, queueVars, thrclosed, ch, sig, nsent, accepted, delivered>>
      /\ \E ok \in BOOLEAN : Returns(t, ok)
  BY DEF WakeSend, WakeRecv, Awake, hist, Queues
<1>2. /\ ret' \in [Threads -> [ok : BOOLEAN, ch : Chans, block : BOOLEAN, op : {"send", "recv"}]]
      /\ pc'[t] = "idle" /\ \A u \in Threads : u # t => pc'[u] = pc[u] /\ ret'[u] = ret[u]
  BY <1>0, <1>1, ReturnsEffect
<1>3. Wakes(t)
  BY <1>1, <1>2 DEF Wakes, Others, queueVars, chanVars
<1>4. /\ into' \in [Threads -> Elems] /\ recvd' \in [Consumers -> Seq(Elems)]
      /\ elem' = elem
  <2>1. CASE WakeSend(t)
    BY <1>0, <2>1 DEF DataOK, WakeSend, hist
  <2>2. CASE WakeRecv(t) /\ thrclosed[t]
    BY <1>0, <2>2 DEF DataOK, WakeRecv, Elems
  <2>3. CASE WakeRecv(t) /\ ~thrclosed[t]
    <3>1. /\ elem' = elem /\ into' = into /\ t \in Consumers
          /\ recvd' = [recvd EXCEPT ![t] = Append(@, into[t])]
      BY <1>0, <2>3 DEF WakeRecv, Received, ControlAt
    <3>2. into[t] \in Elems /\ recvd \in [Consumers -> Seq(Elems)]
      BY <1>0 DEF DataOK
    <3>3. recvd' \in [Consumers -> Seq(Elems)]
      BY <3>1, <3>2, AppendAt
    <3> QED BY <1>0, <3>1, <3>3 DEF DataOK
  <2> QED BY <2>1, <2>2, <2>3
<1>5. DataOK'
  BY <1>0, <1>1, <1>2, <1>4 DEF DataOK, queueVars, chanVars
<1>7. ControlAt(t)'
  BY <1>0, <1>1, <1>2 DEF ControlAt, Queues, SendPCs, RecvPCs, Signalling
<1>8. \A u \in Producers : u # t => elem'[u] = elem[u] /\ nsent'[u] = nsent[u]
  BY <1>1, <1>4 DEF Threads
<1>9. SenderAt(t)'
  BY <1>2 DEF SenderAt, SendPCs
<1>10. SenderDone(t) => SenderDone(t)'
  BY <1>1, <1>2 DEF SenderDone, SendCalls
<1> QED BY <1>0, <1>3, <1>5, <1>7, <1>8, <1>9, <1>10, ThreadStruct

\* The structure after a partner is signalled.
LEMMA SignalStruct ==
  ASSUME StayInv, NEW t \in Threads, Signal(t)
  PROVE  Signals(t) /\ StructInv'
<1>0. WaitInv /\ TypeOK /\ DataOK /\ ControlAt(t) /\ "sendq" \in Queues
  BY StayWaitInv DEF ControlOK, Queues
<1>1. /\ pc[t] \in Signalling /\ sema' = [sema EXCEPT ![sig[t]] = @ + 1]
      /\ sig' = [sig EXCEPT ![t] = NULL]
      /\ Returns(t, TRUE)
      /\ UNCHANGED <<chanVars, queueVars, thrclosed, elem, into, ch, nsent, accepted, delivered>>
  BY DEF Signal, Wake, Signalling
<1>2. /\ ret' \in [Threads -> [ok : BOOLEAN, ch : Chans, block : BOOLEAN, op : {"send", "recv"}]]
      /\ pc'[t] = "idle" /\ \A u \in Threads : u # t => pc'[u] = pc[u] /\ ret'[u] = ret[u]
  BY <1>0, <1>1, ReturnsEffect
<1>3. sig'[t] = NULL /\ \A u \in Threads : u # t => sig'[u] = sig[u]
  BY <1>0, <1>1 DEF TypeOK
<1>4. Signals(t)
  BY <1>1, <1>2, <1>3 DEF Signals, Others, queueVars, chanVars, Signalling
<1>5. recvd' \in [Consumers -> Seq(Elems)]
  <2>1. CASE pc[t] = "recvsignal"
    <3>1. t \in Consumers /\ into[t] \in Elems /\ recvd \in [Consumers -> Seq(Elems)]
      BY <1>0, <2>1 DEF DataOK, ControlAt
    <3>2. recvd' = [recvd EXCEPT ![t] = Append(@, into[t])]
      BY <2>1 DEF Signal, Received
    <3> QED BY <3>1, <3>2, AppendAt
  <2>2. CASE pc[t] # "recvsignal"
    BY <1>0, <2>2 DEF Signal, DataOK
  <2> QED BY <2>1, <2>2
<1>6. DataOK'
  BY <1>0, <1>1, <1>2, <1>5 DEF DataOK, queueVars, chanVars
<1>7. ControlAt(t)'
  BY <1>0, <1>2, <1>3 DEF ControlAt, SendPCs, RecvPCs, Signalling
<1>8. \A u \in Producers : u # t => elem'[u] = elem[u] /\ nsent'[u] = nsent[u]
  BY <1>1
<1>9. SenderAt(t)'
  BY <1>2 DEF SenderAt, SendPCs
<1>10. SenderDone(t) => SenderDone(t)'
  BY <1>1, <1>2 DEF SenderDone, SendCalls
<1> QED BY <1>0, <1>4, <1>6, <1>7, <1>8, <1>9, <1>10, ThreadStruct

\* A consumer about to receive.
LEMMA ReceiverReady ==
  ASSUME StayInv, NEW t \in Threads, CanRecv(t)
  PROVE  /\ t \in Consumers /\ pc[t] \in RecvPCs
         /\ ch[t] \in Chans /\ pc[t] \notin Busy
         /\ qlen[ch[t]] = 0 => ~closed[ch[t]]
<1>1. TypeOK /\ DataOK /\ ControlAt(t)
  BY StayWaitInv DEF ControlOK
<1> QED BY <1>1
        DEF CanRecv, Receiving, Drained, ControlAt, RecvPCs, TypeOK, Busy, Queues, Signalling

\* The structure after a receive from a parked sender.
LEMMA RecvDirectStruct ==
  ASSUME StayInv, NEW t \in Threads, RecvDirect(t)
  PROVE  Meets(t, "sendq") /\ StructInv'
<1> DEFINE c == ch[t]
           f == first[c]["sendq"]
           i == recvx[c]
<1>0. WaitInv /\ IInv /\ TypeOK /\ DataOK /\ ControlAt(t) /\ "sendq" \in Queues
  BY StayWaitInv DEF ControlOK, Queues, StayInv
<1>1. t \in Consumers /\ pc[t] \in RecvPCs /\ c \in Chans /\ pc[t] \notin Busy
  BY ReceiverReady DEF RecvDirect
<1>2. /\ pc' = [pc EXCEPT ![t] = "recvsignal"] /\ sig' = [sig EXCEPT ![t] = f]
      /\ UNCHANGED <<ret, ch, thrclosed, sema, elem, nsent, accepted, recvd, closed>>
      /\ f # NULL /\ Dequeue(c, "sendq")
  BY DEF RecvDirect, Goto, chanVars
<1>3. pc'[t] = "recvsignal" /\ sig'[t] = f
      /\ \A u \in Threads : u # t => pc'[u] = pc[u] /\ sig'[u] = sig[u]
  BY <1>0, <1>2 DEF TypeOK
<1>4. Meets(t, "sendq")
  BY <1>1, <1>2, <1>3 DEF Meets, Others, AfterMeeting
<1>5. waiting' \in [Chans -> [Queues -> Seq(Threads)]] /\ f \in Threads
  <2>1. c \in Chans /\ DataOK /\ ListsOK /\ f # NULL /\ Dequeue(c, "sendq")
    BY <1>0, <1>1, <1>2 DEF WaitInv, QueuesOK
  <2> HIDE DEF c
  <2> QED BY <1>0, <2>1, DequeueWaiting
<1>6. /\ buf' \in [Chans -> UNION {[0..(Cap[d] - 1) -> Elems] : d \in Chans}]
      /\ \A d \in Chans : buf'[d] \in [0..(Cap[d] - 1) -> Elems]
      /\ delivered' \in [Chans -> Seq(Elems)]
      /\ into' \in [Threads -> Elems]
  <2>0. into \in [Threads -> Elems] /\ elem[f] \in Elems /\ delivered \in [Chans -> Seq(Elems)]
    BY <1>0, <1>5 DEF DataOK
  <2>1. CASE TakeSenders(c)
    <3>1. /\ into' = [into EXCEPT ![t] = elem[f]] /\ buf' = buf
          /\ delivered' = [delivered EXCEPT ![c] = Append(@, elem[f])]
      BY <2>1 DEF RecvDirect, Deliver, chanVars
    <3>2. delivered' \in [Chans -> Seq(Elems)]
      BY <1>1, <2>0, <3>1, AppendAt
    <3> QED BY <1>0, <2>0, <3>1, <3>2 DEF DataOK
  <2>2. CASE ~TakeSenders(c)
    <3>1. /\ into' = [into EXCEPT ![t] = buf[c][i]]
          /\ buf' = [buf EXCEPT ![c][i] = elem[f]]
          /\ delivered' = [delivered EXCEPT ![c] = Append(@, buf[c][i])]
      BY <2>2 DEF RecvDirect, Deliver
    <3>2. Cap[c] > 0
      BY <1>0, <1>1, <1>2, <2>2, ChanAssumptions
         DEF TakeSenders, IInv, SenderBehindFull, TypeOK
    <3>3. i \in 0..(Cap[c] - 1) /\ buf[c][i] \in Elems
      BY <1>0, <1>1, <3>2, RingIndex DEF DataOK
    <3>4. delivered' \in [Chans -> Seq(Elems)]
      BY <1>1, <2>0, <3>1, <3>3, AppendAt
    <3>5. /\ buf' \in [Chans -> UNION {[0..(Cap[d] - 1) -> Elems] : d \in Chans}]
          /\ \A d \in Chans : buf'[d] \in [0..(Cap[d] - 1) -> Elems]
      BY <1>0, <1>1, <2>0, <3>1, <3>3, BufPut
    <3>6. into' \in [Threads -> Elems]
      BY <2>0, <3>1, <3>3
    <3> QED BY <3>4, <3>5, <3>6
  <2> QED BY <2>1, <2>2
<1>7. DataOK'
  BY <1>0, <1>2, <1>5, <1>6 DEF DataOK
<1>8. ControlAt(t)'
  BY <1>1, <1>2, <1>3, <1>5, NULLAssumption
     DEF ControlAt, SendPCs, RecvPCs, Queues, Signalling
<1>9. \A u \in Producers : u # t => elem'[u] = elem[u] /\ nsent'[u] = nsent[u]
  BY <1>2
<1>10. SenderAt(t)' /\ (SenderDone(t) => SenderDone(t)')
  BY <1>2, <1>3 DEF SenderAt, SenderDone, SendPCs, SendCalls
<1> QED BY <1>0, <1>1, <1>4, <1>7, <1>8, <1>9, <1>10, ThreadStruct

\* The structure after a receive from the ring.
LEMMA RecvBufferStruct ==
  ASSUME StayInv, NEW t \in Threads, RecvBuffer(t)
  PROVE  Alone(t) /\ StructInv'
<1> DEFINE c == ch[t]
           i == recvx[c]
<1>0. WaitInv /\ IInv /\ TypeOK /\ DataOK /\ ControlAt(t) /\ "sendq" \in Queues
  BY StayWaitInv DEF ControlOK, Queues, StayInv
<1>1. t \in Consumers /\ pc[t] \in RecvPCs /\ c \in Chans /\ pc[t] \notin Busy
  BY ReceiverReady DEF RecvBuffer
<1>2. /\ ret' \in [Threads -> [ok : BOOLEAN, ch : Chans, block : BOOLEAN, op : {"send", "recv"}]]
      /\ pc'[t] = "idle" /\ \A u \in Threads : u # t => pc'[u] = pc[u] /\ ret'[u] = ret[u]
  BY <1>0, ReturnsEffect DEF RecvBuffer
<1>3. Alone(t)
  BY <1>1, <1>2 DEF Alone, Others, Busy, Queues, RecvBuffer, queueVars, Signalling
<1>4. buf[c][i] \in Elems
  <2>1. Cap[c] > 0
    BY <1>0, <1>1, ChanAssumptions DEF RecvBuffer, IInv, RingOK, TypeOK
  <2> QED BY <1>0, <1>1, <2>1, RingIndex DEF DataOK
<1>5. /\ into' = [into EXCEPT ![t] = buf[c][i]]
      /\ delivered' = [delivered EXCEPT ![c] = Append(@, buf[c][i])]
      /\ recvd' = [recvd EXCEPT ![t] = Append(@, buf[c][i])]
      /\ UNCHANGED <<buf, elem, nsent, accepted, thrclosed, waiting>>
  BY DEF RecvBuffer, Deliver, Received, queueVars
<1>6. DataOK'
  <2>1. delivered \in [Chans -> Seq(Elems)] /\ recvd \in [Consumers -> Seq(Elems)]
        /\ into \in [Threads -> Elems]
    BY <1>0 DEF DataOK
  <2>2. delivered' \in [Chans -> Seq(Elems)]
    BY <1>1, <1>4, <1>5, <2>1, AppendAt
  <2>3. recvd' \in [Consumers -> Seq(Elems)]
    BY <1>1, <1>4, <1>5, <2>1, AppendAt
  <2>4. into' \in [Threads -> Elems]
    BY <1>4, <1>5, <2>1
  <2> QED BY <1>0, <1>2, <1>5, <2>2, <2>3, <2>4 DEF DataOK
<1>7. ControlAt(t)'
  BY <1>0, <1>2, <1>3 DEF ControlAt, Alone, Busy, SendPCs, RecvPCs, Signalling
<1>8. \A u \in Producers : u # t => elem'[u] = elem[u] /\ nsent'[u] = nsent[u]
  BY <1>5
<1>9. SenderAt(t)' /\ (SenderDone(t) => SenderDone(t)')
  BY <1>2, <1>5 DEF SenderAt, SenderDone, SendPCs, SendCalls
<1> QED BY <1>0, <1>1, <1>3, <1>6, <1>7, <1>8, <1>9, ThreadStruct

\* The structure after a receiver parks.
LEMMA RecvParkStruct ==
  ASSUME StayInv, NEW t \in Threads, RecvBlocked(t), pc[t] = "recv"
  PROVE  Parks(t, "recvq") /\ StructInv'
<1> DEFINE c == ch[t]
<1>0. WaitInv /\ TypeOK /\ DataOK /\ ControlAt(t) /\ "recvq" \in Queues
  BY StayWaitInv DEF ControlOK, Queues
<1>1. t \in Consumers /\ pc[t] \in RecvPCs /\ c \in Chans /\ pc[t] \notin Busy /\ ~closed[c]
  BY ReceiverReady DEF RecvBlocked
<1>2. /\ pc' = [pc EXCEPT ![t] = "recvq"] /\ Enqueue(c, "recvq", t)
      /\ UNCHANGED <<chanVars, ret, ch, sig, sema, thrclosed, elem, into, hist>>
  BY DEF RecvBlocked, Park, Goto
<1>3. pc'[t] = "recvq" /\ \A u \in Threads : u # t => pc'[u] = pc[u]
  BY <1>0, <1>2 DEF TypeOK
<1>4. Parks(t, "recvq")
  BY <1>1, <1>2, <1>3 DEF Parks, Others, Role, chanVars
<1>5. waiting' \in [Chans -> [Queues -> Seq(Threads)]]
  BY <1>0, <1>1, <1>2, EnqueueWaiting
<1>6. DataOK'
  BY <1>0, <1>2, <1>5 DEF DataOK, chanVars, hist
<1>7. ControlAt(t)'
  BY <1>0, <1>1, <1>2, <1>3 DEF ControlAt, Busy, SendPCs, RecvPCs, Signalling
<1>8. \A u \in Producers : u # t => elem'[u] = elem[u] /\ nsent'[u] = nsent[u]
  BY <1>2 DEF hist
<1>9. SenderAt(t)' /\ (SenderDone(t) => SenderDone(t)')
  BY <1>2, <1>3 DEF SenderAt, SenderDone, SendPCs, SendCalls, hist
<1> QED BY <1>0, <1>1, <1>4, <1>6, <1>7, <1>8, <1>9, ThreadStruct

\* chan_close follows the links to every thread that waits.
LEMMA CloseEffect ==
  ASSUME StayInv, NEW c \in Chans, Close(c), ~closed[c]
  PROVE  Closes(c) /\ DataOK'
<1>0. TypeOK /\ DataOK /\ QueuesOK
  BY StayWaitInv DEF WaitInv
<1>1. /\ closed' = [closed EXCEPT ![c] = TRUE]
      /\ thrclosed' = [t \in Threads |-> thrclosed[t] \/ t \in ParkedOn(c)]
      /\ sema' = [t \in Threads |-> IF t \in ParkedOn(c) THEN sema[t] + 1 ELSE sema[t]]
      /\ UNCHANGED <<qlen, sendx, recvx, buf, queueVars, elem, into, pc, ch, sig, hist, ret>>
      /\ c \in EarlyClose \/ ProducersDone
  BY DEF Close
<1>2. \A t \in Threads : t \in ParkedOn(c) <=> Waits(t, c, "recvq") \/ Waits(t, c, "sendq")
  BY <1>0, LinkedWaits DEF ParkedOn, Queues
<1>3. ASSUME NEW t \in Threads
      PROVE  /\ thrclosed'[t] = TRUE <=>
                  (thrclosed[t] = TRUE \/ Waits(t, c, "recvq") \/ Waits(t, c, "sendq"))
             /\ (\A q \in Queues : ~Waits(t, c, q)) => sema'[t] = sema[t]
  <2>1. thrclosed'[t] = (thrclosed[t] \/ t \in ParkedOn(c)) /\ thrclosed[t] \in BOOLEAN
    BY <1>0, <1>1, Zenon DEF DataOK
  <2>2. thrclosed'[t] = TRUE <=> (thrclosed[t] = TRUE \/ t \in ParkedOn(c))
    BY <2>1, Zenon
  <2>3. t \notin ParkedOn(c) => sema'[t] = sema[t]
    BY <1>1
  <2> QED BY <1>2, <2>2, <2>3 DEF Queues
<1>4. Closes(c)
  BY <1>1, <1>3 DEF Closes, queueVars, hist
<1>5. thrclosed' \in [Threads -> BOOLEAN]
  BY <1>1, Zenon
<1> QED BY <1>0, <1>1, <1>4, <1>5 DEF DataOK, queueVars, hist

\* The structure after chan_close.
LEMMA CloseStruct ==
  ASSUME StayInv, NEW c \in Chans, Closes(c), DataOK'
  PROVE  StructInv'
<1>0. WaitInv /\ TypeOK /\ DataOK /\ QueuesOK /\ ControlOK /\ SendersOK /\ ClosedDone
  BY StayWaitInv DEF WaitInv
<1>1. QueuesOK' /\ TokensOK' /\ ThrClosedOK'
  BY <1>0, ClosesWaits
<1>2. ControlOK'
  BY <1>0 DEF ControlOK, ControlAt, Closes, Signalling
<1>3. /\ \A d \in Chans : closed[d] => closed'[d]
      /\ \A d \in Chans : closed'[d] => closed[d] \/ d = c
      /\ \A t \in Threads : ch[t] \in Chans
  BY <1>0 DEF Closes, TypeOK
<1>4. SendersOK'
  BY <1>0, <1>3 DEF SendersOK, SenderAt, Closes, Threads
<1>5. ClosedDone'
  <2> SUFFICES ASSUME NEW d \in Chans, closed'[d], d \notin EarlyClose
               PROVE  /\ Len(waiting[d]["sendq"]) = 0
                      /\ \A u \in Producers : SenderDone(u)'
    BY DEF ClosedDone, Closes
  <2>1. \A u \in Producers : SenderDone(u)' <=> SenderDone(u)
    BY DEF SenderDone, Closes, SendCalls
  <2>2. CASE d # c
    BY <1>0, <1>3, <2>1, <2>2 DEF ClosedDone
  <2>3. CASE d = c
    <3>1. \A u \in Producers : SenderDone(u) /\ pc[u] # "sendq"
      BY <2>3 DEF Closes, ProducersDone, SenderDone, SendCalls
    <3>2. "sendq" \in Queues /\ waiting[c]["sendq"] \in Seq(Threads)
      BY <1>0 DEF Queues, DataOK
    <3>3. ASSUME Len(waiting[c]["sendq"]) # 0 PROVE FALSE
      <4>1. 1 \in 1..Len(waiting[c]["sendq"]) /\ waiting[c]["sendq"][1] \in Threads
        BY <3>2, <3>3
      <4>2. Waits(waiting[c]["sendq"][1], c, "sendq")
        BY <4>1 DEF Waits
      <4>3. waiting[c]["sendq"][1] \in Producers /\ pc[waiting[c]["sendq"][1]] = "sendq"
        BY <1>0, <3>2, <4>1, <4>2 DEF QueuesOK, MembersOK, Role, Closes
      <4> QED BY <3>1, <4>3
    <3> QED BY <2>1, <2>3, <3>1, <3>3
  <2> QED BY <2>2, <2>3
<1> QED BY <1>1, <1>2, <1>4, <1>5 DEF StructInv

-----------------------------------------------------------------------------
\* The buffer, by its members.
LEMMA SlotRange ==
  ASSUME IInv, NEW c \in Chans
  PROVE  /\ qlen[c] \in Nat /\ Cap[c] \in Nat /\ qlen[c] <= Cap[c]
         /\ \A i \in 1..Cap[c] : Slot(c, i) \in 0..(Cap[c] - 1)
         /\ \A i, j \in 1..Cap[c] : Slot(c, i) = Slot(c, j) => i = j
         /\ qlen[c] < Cap[c] => Slot(c, qlen[c] + 1) = sendx[c]
         /\ Cap[c] > 0 => Slot(c, 1) = recvx[c]
<1>1. qlen[c] \in Nat /\ Cap[c] \in Nat /\ qlen[c] <= Cap[c] /\ sendx[c] \in Nat /\ recvx[c] \in Nat
  BY ChanAssumptions DEF IInv, TypeOK, RingOK
<1>2. Cap[c] > 0 => /\ sendx[c] < Cap[c] /\ recvx[c] < Cap[c]
                    /\ \/ sendx[c] = recvx[c] + qlen[c]
                       \/ sendx[c] + Cap[c] = recvx[c] + qlen[c]
  BY DEF IInv, RingOK
<1> QED BY <1>1, <1>2 DEF Slot

\* What a step does to a buffer: nothing, a message at the end, the first one
\* taken, or both.
SameBuffer(d) == qlen'[d] = qlen[d] /\ \A k \in 1..qlen[d] : At(d, k)' = At(d, k)

Pushed(c, m) ==
  /\ qlen'[c] = qlen[c] + 1
  /\ \A k \in 1..qlen[c] : At(c, k)' = At(c, k)
  /\ \A k \in 1..(qlen[c] + 1) : k = qlen[c] + 1 => At(c, k)' = m

Popped(c) ==
  /\ qlen[c] > 0 /\ qlen'[c] = qlen[c] - 1
  /\ \A k \in 1..(qlen[c] - 1) : At(c, k)' = At(c, k + 1)

Swapped(c, m) ==
  /\ qlen[c] > 0 /\ qlen'[c] = qlen[c]
  /\ \A k \in 1..(qlen[c] - 1) : At(c, k)' = At(c, k + 1)
  /\ \A k \in 1..qlen[c] : k = qlen[c] => At(c, k)' = m

\* A ring that no step touches is the same.
LEMMA SameBufferStep ==
  ASSUME NEW d \in Chans, qlen'[d] = qlen[d], recvx'[d] = recvx[d], buf'[d] = buf[d]
  PROVE  SameBuffer(d)
BY DEF SameBuffer, At, Slot

\* _chan_send stores at sendx, behind the last message.
LEMMA SendBufferEffect ==
  ASSUME StayInv, NEW t \in Threads, SendBuffer(t), NEW c \in Chans, c = ch[t]
  PROVE  Pushed(c, elem[t]) /\ \A d \in Chans : d # c => SameBuffer(d)
<1>0. IInv /\ TypeOK /\ DataOK /\ elem[t] \in Elems
  BY StayWaitInv, SenderReady DEF StayInv, SendBuffer
<1>1. /\ qlen[c] < Cap[c] /\ recvx' = recvx
      /\ buf' = [buf EXCEPT ![c][sendx[c]] = elem[t]]
      /\ qlen' = [qlen EXCEPT ![c] = @ + 1]
  BY DEF SendBuffer
<1>2. /\ qlen[c] \in Nat /\ Cap[c] \in Nat
      /\ \A i \in 1..Cap[c] : Slot(c, i) \in 0..(Cap[c] - 1)
      /\ \A i, j \in 1..Cap[c] : Slot(c, i) = Slot(c, j) => i = j
      /\ Slot(c, qlen[c] + 1) = sendx[c]
  BY <1>0, <1>1, SlotRange
<1>3. sendx[c] \in 0..(Cap[c] - 1) /\ qlen[c] + 1 \in 1..Cap[c]
  BY <1>1, <1>2
<1>4. /\ buf'[c][sendx[c]] = elem[t]
      /\ \A j \in 0..(Cap[c] - 1) : j # sendx[c] => buf'[c][j] = buf[c][j]
      /\ \A d \in Chans : d # c => buf'[d] = buf[d]
  <2>1. DataOK /\ sendx[c] \in 0..(Cap[c] - 1) /\ elem[t] \in Elems
        /\ buf' = [buf EXCEPT ![c][sendx[c]] = elem[t]]
    BY <1>0, <1>1, <1>3
  <2>2. ASSUME NEW i \in 0..(Cap[c] - 1), i = sendx[c], NEW m \in Elems, m = elem[t]
        PROVE  /\ buf'[c][i] = m
               /\ \A j \in 0..(Cap[c] - 1) : j # i => buf'[c][j] = buf[c][j]
               /\ \A d \in Chans : d # c => buf'[d] = buf[d]
    <3>1. buf' = [buf EXCEPT ![c][i] = m]
      BY <2>1, <2>2
    <3>2. c \in DOMAIN buf /\ i \in DOMAIN buf[c] /\ DOMAIN buf = Chans /\ DOMAIN buf[c] = 0..(Cap[c] - 1)
      BY <2>1 DEF DataOK
    <3>3. buf' = [buf EXCEPT ![c] = [buf[c] EXCEPT ![i] = m]]
      BY <3>1
    <3>4. buf'[c] = [buf[c] EXCEPT ![i] = m] /\ \A d \in Chans : d # c => buf'[d] = buf[d]
      BY <3>2, <3>3, Zenon
    <3> QED BY <3>2, <3>4
  <2> QED BY <2>1, <2>2
<1>5. qlen'[c] = qlen[c] + 1 /\ \A d \in Chans : d # c => qlen'[d] = qlen[d]
  BY <1>0, <1>1 DEF TypeOK
<1>6. \A k \in 1..Cap[c] : At(c, k)' = buf'[c][Slot(c, k)]
  BY <1>1 DEF At, Slot
<1>7. ASSUME NEW k \in 1..qlen[c] PROVE At(c, k)' = At(c, k)
  <2>1. k \in 1..Cap[c] /\ k # qlen[c] + 1
    BY <1>1, <1>2
  <2>2. Slot(c, k) # sendx[c] /\ Slot(c, k) \in 0..(Cap[c] - 1)
    BY <1>2, <1>3, <2>1
  <2> QED BY <1>4, <1>6, <2>1, <2>2 DEF At
<1>8. ASSUME NEW k \in 1..(qlen[c] + 1), k = qlen[c] + 1 PROVE At(c, k)' = elem[t]
  BY <1>2, <1>3, <1>4, <1>6, <1>8
<1> QED BY <1>1, <1>4, <1>5, <1>7, <1>8, SameBufferStep DEF Pushed

\* The slots after the first one has been passed.
LEMMA SlotNext ==
  ASSUME IInv, NEW c \in Chans, Cap[c] > 0, recvx'[c] = After(c, recvx[c])
  PROVE  /\ \A k \in 1..(Cap[c] - 1) : Slot(c, k)' = Slot(c, k + 1)
         /\ \A k \in 1..Cap[c] : k = Cap[c] => Slot(c, k)' = recvx[c]
<1>1. Cap[c] \in Nat /\ recvx[c] \in Nat /\ recvx[c] < Cap[c]
  BY ChanAssumptions DEF IInv, TypeOK, RingOK
<1>2. CASE recvx[c] = Cap[c] - 1
  BY <1>1, <1>2 DEF Slot, After
<1>3. CASE recvx[c] # Cap[c] - 1
  BY <1>1, <1>3 DEF Slot, After
<1> QED BY <1>2, <1>3

\* _chan_recv takes the message at recvx, the oldest one.
LEMMA RecvBufferEffect ==
  ASSUME StayInv, NEW t \in Threads, RecvBuffer(t), NEW c \in Chans, c = ch[t]
  PROVE  /\ Popped(c) /\ buf[c][recvx[c]] = At(c, 1)
         /\ \A d \in Chans : d # c => SameBuffer(d)
<1>0. IInv /\ TypeOK /\ DataOK
  BY StayWaitInv DEF StayInv
<1>1. /\ qlen[c] > 0 /\ buf' = buf
      /\ recvx' = [recvx EXCEPT ![c] = After(c, recvx[c])]
      /\ qlen' = [qlen EXCEPT ![c] = @ - 1]
  BY DEF RecvBuffer
<1>2. /\ qlen[c] \in Nat /\ Cap[c] \in Nat /\ qlen[c] <= Cap[c]
      /\ Cap[c] > 0 => Slot(c, 1) = recvx[c]
  BY <1>0, SlotRange
<1>3. /\ recvx'[c] = After(c, recvx[c]) /\ qlen'[c] = qlen[c] - 1
      /\ \A d \in Chans : d # c => qlen'[d] = qlen[d] /\ recvx'[d] = recvx[d]
  BY <1>0, <1>1 DEF TypeOK
<1>4. ASSUME NEW k \in 1..(qlen[c] - 1) PROVE At(c, k)' = At(c, k + 1)
  <2>1. Cap[c] > 0 /\ k \in 1..(Cap[c] - 1)
    BY <1>1, <1>2
  <2>2. Slot(c, k)' = Slot(c, k + 1)
    BY <1>0, <1>3, <2>1, SlotNext
  <2> QED BY <1>1, <2>2 DEF At
<1>5. Cap[c] > 0
  BY <1>1, <1>2
<1> QED BY <1>1, <1>2, <1>3, <1>4, <1>5, SameBufferStep DEF Popped, At

\* _chan_recv_direct takes the oldest message of a full ring and stores the
\* message of the first parked sender in its slot, which becomes the newest one.
LEMMA RecvSwapEffect ==
  ASSUME StayInv, NEW t \in Threads, RecvDirect(t), NEW c \in Chans, c = ch[t],
         ~TakeSenders(c)
  PROVE  /\ Swapped(c, elem[first[c]["sendq"]]) /\ buf[c][recvx[c]] = At(c, 1)
         /\ \A d \in Chans : d # c => SameBuffer(d)
<1> DEFINE m == elem[first[c]["sendq"]]
<1>0. IInv /\ TypeOK /\ DataOK
  BY StayWaitInv DEF StayInv
<1>1. /\ first[c]["sendq"] # NULL /\ qlen' = qlen
      /\ buf' = [buf EXCEPT ![c][recvx[c]] = m]
      /\ recvx' = [recvx EXCEPT ![c] = After(c, recvx[c])]
  BY DEF RecvDirect
<1>2. /\ qlen[c] \in Nat /\ Cap[c] \in Nat /\ qlen[c] <= Cap[c]
      /\ \A i \in 1..Cap[c] : Slot(c, i) \in 0..(Cap[c] - 1)
      /\ \A i, j \in 1..Cap[c] : Slot(c, i) = Slot(c, j) => i = j
      /\ Cap[c] > 0 => Slot(c, 1) = recvx[c]
  BY <1>0, SlotRange
<1>3. qlen[c] = Cap[c] /\ Cap[c] > 0
  BY <1>0, <1>1, <1>2 DEF IInv, SenderBehindFull, TakeSenders
<1>4. /\ recvx'[c] = After(c, recvx[c]) /\ \A d \in Chans : d # c => recvx'[d] = recvx[d]
      /\ recvx[c] \in 0..(Cap[c] - 1) /\ m \in Elems
  <2>1. first[c]["sendq"] \in Threads
    BY <1>0, <1>1 DEF TypeOK, Queues
  <2> QED BY <1>0, <1>1, <1>3, <2>1, RingIndex DEF TypeOK, DataOK
<1>5. /\ buf'[c][recvx[c]] = m
      /\ \A j \in 0..(Cap[c] - 1) : j # recvx[c] => buf'[c][j] = buf[c][j]
      /\ \A d \in Chans : d # c => buf'[d] = buf[d]
  <2>1. DataOK /\ recvx[c] \in 0..(Cap[c] - 1) /\ m \in Elems
        /\ buf' = [buf EXCEPT ![c][recvx[c]] = m]
    BY <1>0, <1>1, <1>4
  <2>2. ASSUME NEW i \in 0..(Cap[c] - 1), i = recvx[c], NEW x \in Elems, x = m
        PROVE  /\ buf'[c][i] = x
               /\ \A j \in 0..(Cap[c] - 1) : j # i => buf'[c][j] = buf[c][j]
               /\ \A d \in Chans : d # c => buf'[d] = buf[d]
    <3>1. buf' = [buf EXCEPT ![c][i] = x]
      BY <2>1, <2>2
    <3>2. c \in DOMAIN buf /\ i \in DOMAIN buf[c] /\ DOMAIN buf = Chans /\ DOMAIN buf[c] = 0..(Cap[c] - 1)
      BY <2>1 DEF DataOK
    <3>3. buf' = [buf EXCEPT ![c] = [buf[c] EXCEPT ![i] = x]]
      BY <3>1
    <3>4. buf'[c] = [buf[c] EXCEPT ![i] = x] /\ \A d \in Chans : d # c => buf'[d] = buf[d]
      BY <3>2, <3>3, Zenon
    <3> QED BY <3>2, <3>4
  <2> QED BY <2>1, <2>2
<1>6. ASSUME NEW k \in 1..(qlen[c] - 1) PROVE At(c, k)' = At(c, k + 1)
  <2>1. k \in 1..(Cap[c] - 1) /\ k + 1 \in 1..Cap[c] /\ 1 \in 1..Cap[c] /\ k + 1 # 1
    BY <1>2, <1>3
  <2>2. Slot(c, k)' = Slot(c, k + 1)
    BY <1>0, <1>3, <1>4, <2>1, SlotNext
  <2>3. Slot(c, k + 1) # recvx[c] /\ Slot(c, k + 1) \in 0..(Cap[c] - 1)
    BY <1>2, <1>3, <2>1
  <2> QED BY <1>5, <2>2, <2>3 DEF At
<1>7. ASSUME NEW k \in 1..qlen[c], k = qlen[c] PROVE At(c, k)' = m
  <2>1. Slot(c, k)' = recvx[c]
    BY <1>0, <1>2, <1>3, <1>4, <1>7, SlotNext
  <2> QED BY <1>5, <2>1 DEF At
<1>8. \A d \in Chans : d # c => SameBuffer(d)
  BY <1>1, <1>4, <1>5, SameBufferStep
<1>9. buf[c][recvx[c]] = At(c, 1)
  BY <1>2, <1>3 DEF At
<1> QED BY <1>1, <1>3, <1>6, <1>7, <1>8, <1>9 DEF Swapped

-----------------------------------------------------------------------------
\* Messages.  One is out on a channel once it is in the buffer or was received.
Fresh(m) == \A d \in Chans : ~Out(m, d)

\* The steps that put message m out on c, and those that put none out.
Emits(c, m) == \A x : \A d \in Chans : Out(x, d)' <=> (Out(x, d) \/ (d = c /\ x = m))
Silent == \A x : \A d \in Chans : Out(x, d)' <=> Out(x, d)

\* A message is out once, and a sender that is out has sent it.
SentBefore(m) ==
  /\ m \in Msgs
  /\ \/ m[2] <= nsent[m[1]]
     \/ closed[ch[m[1]]] /\ ~Waits(m[1], ch[m[1]], "sendq")

OutSent == \A m : \A c \in Chans : Out(m, c) => SentBefore(m)

BufferApart ==
  /\ \A c, d \in Chans : \A i \in 1..qlen[c], j \in 1..qlen[d] :
       At(c, i) = At(d, j) => c = d /\ i = j
  /\ \A c, d \in Chans : \A i \in 1..qlen[c] : ~Delivered(At(c, i), d)

\* What a sender that waits holds is not out.
ParkedApart ==
  \A c \in Chans, t \in Threads : Waits(t, c, "sendq") =>
    elem[t] \in Msgs /\ elem[t][1] = t /\ Fresh(elem[t])

\* A sender that was served has its message out, and so has one that was told so.
ServedAt(t) ==
  /\ pc[t] = "sendsignal" => Out(elem[t], ch[t])
  /\ pc[t] = "sendq" /\ ~Waits(t, ch[t], "sendq") /\ ~Cancelled(ch[t]) => Out(elem[t], ch[t])

ToldAt(t) ==
  pc[t] = "idle" /\ ret[t].op = "send" /\ ret[t].ok = TRUE /\ ~Cancelled(ret[t].ch) =>
    Out(elem[t], ret[t].ch)

SentOK == \A t \in Producers : ServedAt(t) /\ ToldAt(t)

\* A blocking receive that was refused was told of a closed channel.
RefusedAt(t) ==
  ret[t].op = "recv" /\ ret[t].ok = FALSE /\ ret[t].block = TRUE => closed[ret[t].ch]
RefusedOK == \A t \in Consumers : RefusedAt(t)

\* What is said of messages, and of what a thread was told about them.
MsgInv == OutSent /\ BufferApart /\ ParkedApart /\ SentOK /\ RefusedOK
FlowInv == StayInv /\ MsgInv

\* One more message is delivered.
LEMMA DeliverEffect ==
  ASSUME DataOK, NEW c \in Chans, NEW m \in Elems,
         delivered' = [delivered EXCEPT ![c] = Append(@, m)]
  PROVE  /\ Len(delivered[c]) \in Nat /\ Len(delivered'[c]) = Len(delivered[c]) + 1
         /\ \A k \in 1..Len(delivered[c]) : delivered'[c][k] = delivered[c][k]
         /\ delivered'[c][Len(delivered[c]) + 1] = m
         /\ \A d \in Chans : d # c => delivered'[d] = delivered[d]
         /\ \A x : \A d \in Chans : Delivered(x, d)' <=> (Delivered(x, d) \/ (d = c /\ x = m))
<1> DEFINE n == Len(delivered[c])
<1>1. /\ n \in Nat /\ Len(delivered'[c]) = n + 1
      /\ \A k \in 1..n : delivered'[c][k] = delivered[c][k]
      /\ delivered'[c][n + 1] = m
      /\ \A d \in Chans : d # c => delivered'[d] = delivered[d]
  <2>1. delivered \in [Chans -> Seq(Elems)]
    BY DEF DataOK
  <2> QED BY <2>1, AppendAt
<1>2. ASSUME NEW x PROVE Delivered(x, c)' <=> (Delivered(x, c) \/ x = m)
  <2>1. ASSUME Delivered(x, c)' PROVE Delivered(x, c) \/ x = m
    <3>1. PICK i \in 1..(n + 1) : delivered'[c][i] = x
      BY <1>1, <2>1 DEF Delivered
    <3>2. CASE i = n + 1
      BY <1>1, <3>1, <3>2
    <3>3. CASE i # n + 1
      <4>1. i \in 1..n
        BY <1>1, <3>3
      <4> QED BY <1>1, <3>1, <4>1 DEF Delivered
    <3> QED BY <3>2, <3>3
  <2>2. ASSUME Delivered(x, c) PROVE Delivered(x, c)'
    <3>1. PICK i \in 1..n : delivered[c][i] = x
      BY <2>2 DEF Delivered
    <3>2. i \in 1..Len(delivered'[c]) /\ delivered'[c][i] = x
      BY <1>1, <3>1
    <3> QED BY <3>2 DEF Delivered
  <2>3. ASSUME x = m PROVE Delivered(x, c)'
    <3>1. n + 1 \in 1..Len(delivered'[c]) /\ delivered'[c][n + 1] = x
      BY <1>1, <2>3
    <3> QED BY <3>1 DEF Delivered
  <2> QED BY <2>1, <2>2, <2>3
<1>3. ASSUME NEW x, NEW d \in Chans, d # c PROVE Delivered(x, d)' <=> Delivered(x, d)
  BY <1>1, <1>3 DEF Delivered
<1> QED BY <1>1, <1>2, <1>3

\* The messages in the ring, after each change of it.
LEMMA SameIn ==
  ASSUME NEW d \in Chans, SameBuffer(d), NEW x
  PROVE  InBuffer(x, d)' <=> InBuffer(x, d)
BY DEF SameBuffer, InBuffer

\* A stored message is in the ring.
LEMMA PushedIn ==
  ASSUME IInv, NEW c \in Chans, NEW m, Pushed(c, m), NEW x
  PROVE  InBuffer(x, c)' <=> (InBuffer(x, c) \/ x = m)
<1>1. qlen[c] \in Nat /\ qlen'[c] = qlen[c] + 1
  BY DEF IInv, TypeOK, Pushed
<1>2. ASSUME InBuffer(x, c)' PROVE InBuffer(x, c) \/ x = m
  <2>1. PICK i \in 1..(qlen[c] + 1) : At(c, i)' = x
    BY <1>1, <1>2 DEF InBuffer
  <2>2. CASE i = qlen[c] + 1
    BY <2>1, <2>2 DEF Pushed
  <2>3. CASE i # qlen[c] + 1
    <3>1. i \in 1..qlen[c]
      BY <1>1, <2>3
    <3> QED BY <2>1, <3>1 DEF Pushed, InBuffer
  <2> QED BY <2>2, <2>3
<1>3. ASSUME InBuffer(x, c) PROVE InBuffer(x, c)'
  <2>1. PICK i \in 1..qlen[c] : At(c, i) = x
    BY <1>3 DEF InBuffer
  <2>2. i \in 1..qlen'[c] /\ At(c, i)' = x
    BY <1>1, <2>1 DEF Pushed
  <2> QED BY <2>2 DEF InBuffer
<1>4. ASSUME x = m PROVE InBuffer(x, c)'
  <2>1. \E k \in 1..(qlen[c] + 1) : k = qlen[c] + 1
    BY <1>1
  <2>2. PICK k \in 1..(qlen[c] + 1) : k = qlen[c] + 1
    BY <2>1
  <2>3. k \in 1..qlen'[c] /\ At(c, k)' = x
    BY <1>1, <1>4, <2>2 DEF Pushed
  <2> QED BY <2>3 DEF InBuffer
<1> QED BY <1>2, <1>3, <1>4

\* A message that is taken is no longer in the ring.
LEMMA PoppedIn ==
  ASSUME IInv, BufferApart, NEW c \in Chans, Popped(c), NEW x
  PROVE  /\ InBuffer(x, c)' <=> (InBuffer(x, c) /\ x # At(c, 1))
         /\ InBuffer(At(c, 1), c)
<1>1. qlen[c] \in Nat /\ qlen[c] > 0 /\ qlen'[c] = qlen[c] - 1 /\ 1 \in 1..qlen[c]
  BY DEF IInv, TypeOK, Popped
<1>2. ASSUME InBuffer(x, c)' PROVE InBuffer(x, c) /\ x # At(c, 1)
  <2>1. PICK i \in 1..(qlen[c] - 1) : At(c, i)' = x
    BY <1>1, <1>2 DEF InBuffer
  <2>2. i + 1 \in 1..qlen[c] /\ i + 1 # 1 /\ At(c, i + 1) = x
    BY <1>1, <2>1 DEF Popped
  <2> QED BY <1>1, <2>2 DEF InBuffer, BufferApart
<1>3. ASSUME InBuffer(x, c), x # At(c, 1) PROVE InBuffer(x, c)'
  <2>1. PICK i \in 1..qlen[c] : At(c, i) = x
    BY <1>3 DEF InBuffer
  <2>2. i # 1
    BY <1>3, <2>1
  <2>3. PICK k \in 1..(qlen[c] - 1) : k + 1 = i
    <3>1. i - 1 \in 1..(qlen[c] - 1) /\ (i - 1) + 1 = i
      BY <1>1, <2>1, <2>2
    <3> QED BY <3>1
  <2>4. k \in 1..qlen'[c] /\ At(c, k)' = x
    BY <1>1, <2>1, <2>3 DEF Popped
  <2> QED BY <2>4 DEF InBuffer
<1> QED BY <1>1, <1>2, <1>3 DEF InBuffer

\* One message is taken and another is stored.
LEMMA SwappedIn ==
  ASSUME IInv, BufferApart, NEW c \in Chans, NEW m, Swapped(c, m), NEW x
  PROVE  /\ InBuffer(x, c)' <=> ((InBuffer(x, c) /\ x # At(c, 1)) \/ x = m)
         /\ InBuffer(At(c, 1), c)
<1>1. qlen[c] \in Nat /\ qlen[c] > 0 /\ qlen'[c] = qlen[c] /\ 1 \in 1..qlen[c]
  BY DEF IInv, TypeOK, Swapped
<1>2. ASSUME InBuffer(x, c)' PROVE (InBuffer(x, c) /\ x # At(c, 1)) \/ x = m
  <2>1. PICK i \in 1..qlen[c] : At(c, i)' = x
    BY <1>1, <1>2 DEF InBuffer
  <2>2. CASE i = qlen[c]
    BY <2>1, <2>2 DEF Swapped
  <2>3. CASE i # qlen[c]
    <3>1. i \in 1..(qlen[c] - 1) /\ i + 1 \in 1..qlen[c] /\ i + 1 # 1
      BY <1>1, <2>3
    <3>2. At(c, i + 1) = x
      BY <2>1, <3>1 DEF Swapped
    <3> QED BY <1>1, <3>1, <3>2 DEF InBuffer, BufferApart
  <2> QED BY <2>2, <2>3
<1>3. ASSUME InBuffer(x, c), x # At(c, 1) PROVE InBuffer(x, c)'
  <2>1. PICK i \in 1..qlen[c] : At(c, i) = x
    BY <1>3 DEF InBuffer
  <2>2. i # 1
    BY <1>3, <2>1
  <2>3. PICK k \in 1..(qlen[c] - 1) : k + 1 = i
    <3>1. i - 1 \in 1..(qlen[c] - 1) /\ (i - 1) + 1 = i
      BY <1>1, <2>1, <2>2
    <3> QED BY <3>1
  <2>4. k \in 1..qlen'[c] /\ At(c, k)' = x
    BY <1>1, <2>1, <2>3 DEF Swapped
  <2> QED BY <2>4 DEF InBuffer
<1>4. ASSUME x = m PROVE InBuffer(x, c)'
  <2>1. PICK k \in 1..qlen[c] : k = qlen[c]
    BY <1>1
  <2>2. k \in 1..qlen'[c] /\ At(c, k)' = x
    BY <1>1, <1>4, <2>1 DEF Swapped
  <2> QED BY <2>2 DEF InBuffer
<1> QED BY <1>1, <1>2, <1>3, <1>4 DEF InBuffer

\* The buffers stay apart from each other and from what was received when a
\* step moves the messages of c down by s places, puts a fresh m behind them
\* and delivers nothing that is in a buffer then.
LEMMA ApartStep ==
  ASSUME IInv, BufferApart, NEW c \in Chans, NEW s \in {0, 1}, NEW m,
         \A d \in Chans : d # c => SameBuffer(d),
         \A k \in 1..qlen'[c] :
           \/ k + s \in 1..qlen[c] /\ At(c, k)' = At(c, k + s)
           \/ k + s = qlen[c] + 1 /\ At(c, k)' = m /\ Fresh(m),
         \A x : \A d, e \in Chans : Delivered(x, d)' /\ InBuffer(x, e)' => Delivered(x, d)
  PROVE  BufferApart'
<1> DEFINE Was(d, k, i) == i \in 1..qlen[d] /\ At(d, k)' = At(d, i)
                           /\ i = k + (IF d = c THEN s ELSE 0)
           Is(d, k) == d = c /\ k + s = qlen[c] + 1 /\ At(d, k)' = m /\ Fresh(m)
<1>0. \A d \in Chans : qlen[d] \in Nat
  BY DEF IInv, TypeOK
<1>1. ASSUME NEW d \in Chans, NEW k \in 1..qlen'[d]
      PROVE  Is(d, k) \/ \E i \in 1..qlen[d] : Was(d, k, i)
  <2>1. CASE d = c
    BY <1>1, <2>1
  <2>2. CASE d # c
    BY <1>0, <1>1, <2>2 DEF SameBuffer
  <2> QED BY <2>1, <2>2
<1>2. \A d \in Chans : \A i \in 1..qlen[d] : ~Fresh(At(d, i))
  BY DEF Fresh, Out, InBuffer
<1>5. \A d, e \in Chans : \A i \in 1..qlen[d], j \in 1..qlen[e] :
         At(d, i) = At(e, j) => d = e /\ i = j
  BY Zenon DEF BufferApart
<1>3. ASSUME NEW d \in Chans, NEW e \in Chans, NEW k \in 1..qlen'[d], NEW l \in 1..qlen'[e],
             At(d, k)' = At(e, l)'
      PROVE  d = e /\ k = l
  <2>1. CASE Is(d, k) /\ Is(e, l)
    BY <1>0, <2>1
  <2>2. CASE Is(d, k) /\ \E i \in 1..qlen[e] : Was(e, l, i)
    BY <1>2, <1>3, <2>2
  <2>3. CASE (\E i \in 1..qlen[d] : Was(d, k, i)) /\ Is(e, l)
    BY <1>2, <1>3, <2>3
  <2>4. ASSUME NEW i \in 1..qlen[d], NEW j \in 1..qlen[e], Was(d, k, i), Was(e, l, j)
        PROVE  d = e /\ k = l
    <3>0. At(d, i) = At(e, j)
      BY <1>3, <2>4
    <3>1. d = e /\ i = j
      BY <3>0, <1>5
    <3> QED BY <2>4, <3>1
  <2> QED BY <1>1, <2>1, <2>2, <2>3, <2>4
<1>4. ASSUME NEW d \in Chans, NEW e \in Chans, NEW k \in 1..qlen'[d], Delivered(At(d, k), e)'
      PROVE  FALSE
  <2>1. PICK x : x = At(d, k)'
    OBVIOUS
  <2>2. Delivered(x, e)' /\ InBuffer(x, d)'
    BY <1>4, <2>1 DEF Delivered, InBuffer
  <2>3. Delivered(x, e)
    BY <2>2
  <2>4. CASE Is(d, k)
    BY <2>1, <2>3, <2>4 DEF Fresh, Out
  <2>5. ASSUME NEW i \in 1..qlen[d], Was(d, k, i) PROVE FALSE
    BY <2>1, <2>3, <2>5 DEF BufferApart
  <2> QED BY <1>1, <2>4, <2>5
<1> QED BY <1>3, <1>4 DEF BufferApart

-----------------------------------------------------------------------------
\* What each step puts out.
LEMMA FlowStay ==
  ASSUME FlowInv
  PROVE  /\ StayInv /\ IInv /\ TypeOK /\ DataOK /\ WaitInv /\ QueuesOK /\ ControlOK
         /\ MembersOK /\ ListsOK
         /\ OutSent /\ BufferApart /\ ParkedApart /\ SentOK /\ RefusedOK
BY StayWaitInv DEF FlowInv, MsgInv, StayInv, WaitInv, QueuesOK

\* A sender of a new message.
LEMMA SenderFresh ==
  ASSUME FlowInv, NEW t \in Threads, Sending(t), ~closed[ch[t]]
  PROVE  Fresh(elem[t])
<1>1. /\ elem[t] = <<t, nsent[t] + 1>> /\ nsent[t] \in Nat /\ t \in Producers
  BY FlowStay, SenderReady
<1>2. ASSUME NEW d \in Chans, Out(elem[t], d) PROVE FALSE
  <2>1. SentBefore(elem[t])
    BY <1>2, FlowStay DEF OutSent
  <2>2. elem[t][1] = t /\ elem[t][2] = nsent[t] + 1
    BY <1>1
  <2>3. ~(nsent[t] + 1 <= nsent[t])
    BY <1>1
  <2> QED BY <2>1, <2>2, <2>3 DEF SentBefore
<1> QED BY <1>2 DEF Fresh

\* Rings that no step touches hold what they held.
LEMMA BuffersSame ==
  ASSUME NEW c \in Chans, \A d \in Chans : d # c => SameBuffer(d), NEW x, NEW d \in Chans, d # c
  PROVE  InBuffer(x, d)' <=> InBuffer(x, d)
BY SameIn

\* A step that moves no message puts none out.
LEMMA QuietMessages ==
  ASSUME FlowInv, UNCHANGED <<qlen, recvx, buf, delivered>>
  PROVE  /\ Silent /\ BufferApart'
         /\ \A d \in Chans : SameBuffer(d)
<1>1. \A d \in Chans : SameBuffer(d)
  BY SameBufferStep
<1>2. \A x : \A d \in Chans : Delivered(x, d)' <=> Delivered(x, d)
  BY DEF Delivered
<1>3. Silent
  BY <1>1, <1>2, SameIn DEF Silent, Out
<1>4. BufferApart'
  BY FlowStay DEF BufferApart, At, Slot, Delivered
<1> QED BY <1>1, <1>3, <1>4

\* A message that was not out is received at once.
LEMMA DeliverFresh ==
  ASSUME FlowInv, NEW c \in Chans, NEW m \in Elems, Fresh(m), UNCHANGED <<qlen, recvx, buf>>,
         delivered' = [delivered EXCEPT ![c] = Append(@, m)]
  PROVE  Emits(c, m) /\ BufferApart' /\ \A d \in Chans : SameBuffer(d)
<1>1. DataOK /\ IInv /\ BufferApart
  BY FlowStay
<1>2. \A d \in Chans : SameBuffer(d)
  BY SameBufferStep
<1>3. \A x : \A d \in Chans : Delivered(x, d)' <=> (Delivered(x, d) \/ (d = c /\ x = m))
  BY <1>1, DeliverEffect
<1>4. Emits(c, m)
  BY <1>2, <1>3, SameIn DEF Emits, Out
<1>5. BufferApart'
  <2>1. ~\E d \in Chans : \E k \in 1..qlen[d] : At(d, k) = m
    BY DEF Fresh, Out, InBuffer
  <2>2. \A d \in Chans : \A k \in 1..qlen[d] : At(d, k)' = At(d, k)
    BY <1>2 DEF SameBuffer
  <2>3. ASSUME NEW d \in Chans, NEW e \in Chans, NEW k \in 1..qlen[d] PROVE ~Delivered(At(d, k), e)'
    <3>1. PICK x : x = At(d, k)'
      OBVIOUS
    <3>2. x = At(d, k)
      BY <2>2, <3>1
    <3>3. ~Delivered(x, e) /\ x # m
      BY <1>1, <2>1, <3>2 DEF BufferApart
    <3>4. ~Delivered(x, e)'
      BY <1>3, <3>3
    <3> QED BY <3>1, <3>4 DEF Delivered
  <2> QED BY <1>1, <2>2, <2>3 DEF BufferApart
<1> QED BY <1>2, <1>4, <1>5

\* A message handed to a receiver is delivered, once.
LEMMA SendDirectOut ==
  ASSUME FlowInv, NEW t \in Threads, SendDirect(t), NEW c \in Chans, c = ch[t]
  PROVE  Emits(c, elem[t]) /\ BufferApart' /\ \A d \in Chans : SameBuffer(d)
<1>1. elem[t] \in Elems /\ Fresh(elem[t])
  BY FlowStay, SenderFresh, SenderReady DEF SendDirect
<1>2. /\ UNCHANGED <<qlen, recvx, buf>>
      /\ delivered' = [delivered EXCEPT ![c] = Append(@, elem[t])]
  BY DEF SendDirect, chanVars, Deliver
<1> QED BY <1>1, <1>2, DeliverFresh

\* A message stored in the ring is out, once.
LEMMA SendBufferOut ==
  ASSUME FlowInv, NEW t \in Threads, SendBuffer(t), NEW c \in Chans, c = ch[t]
  PROVE  Emits(c, elem[t]) /\ BufferApart'
<1> DEFINE m == elem[t]
<1>1. Fresh(m) /\ IInv /\ BufferApart /\ StayInv
  BY FlowStay, SenderFresh DEF SendBuffer
<1>2. Pushed(c, m) /\ \A d \in Chans : d # c => SameBuffer(d)
  BY <1>1, SendBufferEffect
<1>3. delivered' = delivered /\ \A x : \A d \in Chans : Delivered(x, d)' <=> Delivered(x, d)
  BY DEF SendBuffer, Delivered
<1> HIDE DEF m
<1>4. Emits(c, m)
  BY <1>1, <1>2, <1>3, PushedIn, BuffersSame DEF Emits, Out
<1>5. BufferApart'
  <2>1. qlen[c] \in Nat /\ qlen'[c] = qlen[c] + 1
    BY <1>1, <1>2 DEF IInv, TypeOK, Pushed
  <2>2. ASSUME NEW k \in 1..qlen'[c]
        PROVE  \/ k + 0 \in 1..qlen[c] /\ At(c, k)' = At(c, k + 0)
               \/ k + 0 = qlen[c] + 1 /\ At(c, k)' = m /\ Fresh(m)
    <3>1. k \in 1..(qlen[c] + 1) /\ k + 0 = k
      BY <2>1
    <3>2. CASE k = qlen[c] + 1
      BY <1>1, <1>2, <3>1, <3>2 DEF Pushed
    <3>3. CASE k # qlen[c] + 1
      <4>1. k \in 1..qlen[c]
        BY <2>1, <3>1, <3>3, SMTT(30)
      <4> QED BY <1>2, <3>1, <4>1 DEF Pushed
    <3> QED BY <3>2, <3>3
  <2> QED BY <1>1, <1>2, <1>3, <2>2, ApartStep
<1> QED BY <1>4, <1>5 DEF m

\* The first sender that waits.
LEMMA FirstSender ==
  ASSUME FlowInv, NEW t \in Threads, RecvDirect(t), NEW c \in Chans, c = ch[t],
         NEW s, s = first[c]["sendq"]
  PROVE  /\ s \in Threads /\ s \in Producers /\ t \in Consumers /\ ch[s] = c
         /\ Waits(s, c, "sendq") /\ (~closed[c] => pc[s] = "sendq")
         /\ elem[s] \in Msgs /\ elem[s] \in Elems /\ elem[s][1] = s /\ Fresh(elem[s])
         /\ \A d \in Chans, r \in Queues, u \in Threads :
              Waits(u, d, r)' <=> (Waits(u, d, r) /\ ~(u = s /\ d = c /\ r = "sendq"))
         /\ Len(waiting[c]["sendq"]) \in Nat /\ Len(waiting[c]["sendq"]) > 0
         /\ s = waiting[c]["sendq"][1]
         /\ Len(waiting'[c]["sendq"]) = Len(waiting[c]["sendq"]) - 1
         /\ \A i \in 1..(Len(waiting[c]["sendq"]) - 1) :
              waiting'[c]["sendq"][i] = waiting[c]["sendq"][i + 1]
         /\ \A d \in Chans, r \in Queues :
              (d # c \/ r # "sendq") => waiting'[d][r] = waiting[d][r]
<1>0. "sendq" \in Queues
  BY DEF Queues
<1>1. DataOK /\ ListsOK /\ first[c]["sendq"] # NULL /\ Dequeue(c, "sendq")
  BY FlowStay DEF RecvDirect
<1>2. /\ s \in Threads /\ Waits(s, c, "sendq")
      /\ \A d \in Chans, r \in Queues, u \in Threads :
           Waits(u, d, r)' <=> (Waits(u, d, r) /\ ~(u = s /\ d = c /\ r = "sendq"))
      /\ Len(waiting[c]["sendq"]) \in Nat /\ Len(waiting[c]["sendq"]) > 0
      /\ s = waiting[c]["sendq"][1]
      /\ Len(waiting'[c]["sendq"]) = Len(waiting[c]["sendq"]) - 1
      /\ \A i \in 1..(Len(waiting[c]["sendq"]) - 1) :
           waiting'[c]["sendq"][i] = waiting[c]["sendq"][i + 1]
      /\ \A d \in Chans, r \in Queues :
           (d # c \/ r # "sendq") => waiting'[d][r] = waiting[d][r]
  BY <1>0, <1>1, DequeueWaiting, SMTT(30)
<1>3. s \in Producers /\ ch[s] = c /\ (~closed[c] => pc[s] = "sendq")
  BY <1>0, <1>2, FlowStay DEF MembersOK, Role
<1>4. elem[s] \in Msgs /\ elem[s][1] = s /\ Fresh(elem[s])
  BY <1>2, FlowStay DEF ParkedApart
<1>5. t \in Consumers
  BY FlowStay, ReceiverReady DEF RecvDirect
<1> QED BY <1>2, <1>3, <1>4, <1>5 DEF Elems

\* A message taken from a sender is delivered, once.
LEMMA RecvTakeOut ==
  ASSUME FlowInv, NEW t \in Threads, RecvDirect(t), NEW c \in Chans, c = ch[t],
         TakeSenders(c), NEW s, s = first[c]["sendq"]
  PROVE  Emits(c, elem[s]) /\ BufferApart' /\ \A d \in Chans : SameBuffer(d)
<1>1. elem[s] \in Elems /\ Fresh(elem[s])
  BY FirstSender
<1>2. /\ UNCHANGED <<qlen, recvx, buf>>
      /\ delivered' = [delivered EXCEPT ![c] = Append(@, elem[s])]
  BY DEF RecvDirect, chanVars, Deliver
<1> QED BY <1>1, <1>2, DeliverFresh

\* With a full ring one message is delivered and a fresh one stored.
LEMMA RecvSwapOut ==
  ASSUME FlowInv, NEW t \in Threads, RecvDirect(t), NEW c \in Chans, c = ch[t],
         ~TakeSenders(c), NEW s, s = first[c]["sendq"]
  PROVE  /\ Emits(c, elem[s]) /\ BufferApart'
         /\ \A d \in Chans : ~Delivered(At(c, 1), d)
<1> DEFINE m == elem[s]
           y == At(c, 1)
<1>1. Fresh(m) /\ DataOK /\ IInv /\ BufferApart /\ StayInv
  BY FlowStay, FirstSender
<1>2. /\ Swapped(c, m) /\ buf[c][recvx[c]] = y
      /\ \A d \in Chans : d # c => SameBuffer(d)
  BY <1>1, RecvSwapEffect
<1>3. delivered' = [delivered EXCEPT ![c] = Append(@, y)]
  BY <1>2 DEF RecvDirect, Deliver
<1>4. y \in Elems
  <2>1. qlen[c] > 0 /\ qlen[c] \in Nat /\ Cap[c] \in Nat /\ qlen[c] <= Cap[c]
        /\ \A i \in 1..Cap[c] : Slot(c, i) \in 0..(Cap[c] - 1)
    BY <1>1, <1>2, SlotRange DEF Swapped
  <2>2. Slot(c, 1) \in 0..(Cap[c] - 1)
    BY <2>1
  <2> QED BY <1>1, <2>2 DEF DataOK, At
<1>5. \A x : \A d \in Chans : Delivered(x, d)' <=> (Delivered(x, d) \/ (d = c /\ x = y))
  BY <1>1, <1>3, <1>4, DeliverEffect
<1>6. \A x : /\ InBuffer(x, c)' <=> ((InBuffer(x, c) /\ x # y) \/ x = m)
             /\ InBuffer(y, c)
  BY <1>1, <1>2, SwappedIn
<1>7. \A x : \A d \in Chans : d # c => (InBuffer(x, d)' <=> InBuffer(x, d))
  BY <1>2, BuffersSame
<1>8. \A d \in Chans : ~Delivered(y, d)
  <2>1. 1 \in 1..qlen[c]
    BY <1>1, <1>2 DEF IInv, TypeOK, Swapped
  <2> QED BY <1>1, <2>1 DEF BufferApart
<1>9. \A d \in Chans : d # c => ~InBuffer(y, d)
  <2>1. 1 \in 1..qlen[c]
    BY <1>1, <1>2 DEF IInv, TypeOK, Swapped
  <2> QED BY <1>1, <2>1 DEF BufferApart, InBuffer
<1>10. y # m
  BY <1>1, <1>6 DEF Fresh, Out
<1> HIDE DEF m, y
<1>11. Emits(c, m)
  BY <1>5, <1>6, <1>7 DEF Emits, Out
<1>12. BufferApart'
  <2>1. qlen[c] \in Nat /\ qlen'[c] = qlen[c]
    BY <1>1, <1>2 DEF IInv, TypeOK, Swapped
  <2>2. ASSUME NEW k \in 1..qlen'[c]
        PROVE  \/ k + 1 \in 1..qlen[c] /\ At(c, k)' = At(c, k + 1)
               \/ k + 1 = qlen[c] + 1 /\ At(c, k)' = m /\ Fresh(m)
    <3>2. CASE k = qlen[c]
      BY <1>1, <1>2, <2>1, <3>2 DEF Swapped
    <3>3. CASE k # qlen[c]
      <4>1. k \in 1..(qlen[c] - 1) /\ k + 1 \in 1..qlen[c]
        BY <2>1, <3>3
      <4> QED BY <1>2, <4>1 DEF Swapped
    <3> QED BY <3>2, <3>3
  <2>3. \A x : \A d, e \in Chans : Delivered(x, d)' /\ InBuffer(x, e)' => Delivered(x, d)
    BY <1>5, <1>6, <1>7, <1>9, <1>10
  <2> QED BY <1>1, <1>2, <2>2, <2>3, ApartStep
<1> QED BY <1>8, <1>11, <1>12 DEF m, y

\* A message taken from the ring was not delivered before.
LEMMA RecvBufferOut ==
  ASSUME FlowInv, NEW t \in Threads, RecvBuffer(t), NEW c \in Chans, c = ch[t]
  PROVE  /\ Silent /\ BufferApart'
         /\ \A d \in Chans : ~Delivered(At(c, 1), d)
<1> DEFINE y == At(c, 1)
<1>1. DataOK /\ IInv /\ BufferApart /\ StayInv
  BY FlowStay
<1>2. /\ Popped(c) /\ buf[c][recvx[c]] = y
      /\ \A d \in Chans : d # c => SameBuffer(d)
  BY <1>1, RecvBufferEffect
<1>3. delivered' = [delivered EXCEPT ![c] = Append(@, y)]
  BY <1>2 DEF RecvBuffer, Deliver
<1>4. y \in Elems
  <2>1. qlen[c] > 0 /\ qlen[c] \in Nat /\ Cap[c] \in Nat /\ qlen[c] <= Cap[c]
        /\ \A i \in 1..Cap[c] : Slot(c, i) \in 0..(Cap[c] - 1)
    BY <1>1, <1>2, SlotRange DEF Popped
  <2>2. Slot(c, 1) \in 0..(Cap[c] - 1)
    BY <2>1
  <2> QED BY <1>1, <2>2 DEF DataOK, At
<1>5. \A x : \A d \in Chans : Delivered(x, d)' <=> (Delivered(x, d) \/ (d = c /\ x = y))
  BY <1>1, <1>3, <1>4, DeliverEffect
<1>6. \A x : /\ InBuffer(x, c)' <=> (InBuffer(x, c) /\ x # y)
             /\ InBuffer(y, c)
  BY <1>1, <1>2, PoppedIn
<1>7. \A x : \A d \in Chans : d # c => (InBuffer(x, d)' <=> InBuffer(x, d))
  BY <1>2, BuffersSame
<1>8. 1 \in 1..qlen[c]
  BY <1>1, <1>2 DEF IInv, TypeOK, Popped
<1>9. \A d \in Chans : ~Delivered(y, d) /\ (d # c => ~InBuffer(y, d))
  BY <1>1, <1>8 DEF BufferApart, InBuffer
<1> HIDE DEF y
<1>11. Silent
  BY <1>5, <1>6, <1>7 DEF Silent, Out
<1>12. BufferApart'
  <2>1. qlen[c] \in Nat /\ qlen'[c] = qlen[c] - 1
    BY <1>1, <1>2 DEF IInv, TypeOK, Popped
  <2>2. ASSUME NEW k \in 1..qlen'[c]
        PROVE  k + 1 \in 1..qlen[c] /\ At(c, k)' = At(c, k + 1)
    <3>1. k \in 1..(qlen[c] - 1) /\ k + 1 \in 1..qlen[c]
      BY <2>1
    <3> QED BY <1>2, <3>1 DEF Popped
  <2>3. \A x : \A d, e \in Chans : Delivered(x, d)' /\ InBuffer(x, e)' => Delivered(x, d)
    BY <1>5, <1>6, <1>7, <1>9
  <2> QED BY <1>1, <1>2, <2>2, <2>3, ApartStep
<1> QED BY <1>9, <1>11, <1>12 DEF y

-----------------------------------------------------------------------------
\* What the parts of MsgInv ask of a step of thread t that puts m out on c or
\* nothing at all.
LEMMA ThreadMsg ==
  ASSUME FlowInv, NEW t \in Threads, Others(t), closed' = closed,
         closed[ch[t]] => ch'[t] = ch[t],
         \A u \in Producers : nsent'[u] \in Nat /\ nsent[u] <= nsent'[u],
         NEW c \in Chans, NEW m, Silent \/ (Emits(c, m) /\ SentBefore(m)'),
         \A u \in Threads, d \in Chans : Waits(u, d, "sendq")' =>
           \/ Waits(u, d, "sendq") /\ elem'[u] = elem[u] /\ (Silent \/ m[1] # u)
           \/ /\ Silent /\ (Waits(u, d, "sendq") \/ ~closed[ch[u]])
              /\ elem'[u] \in Msgs /\ elem'[u][1] = u
              /\ \A e \in Chans : ~Out(elem'[u], e),
         \A u \in Producers : u # t =>
           /\ elem'[u] = elem[u]
           /\ \A d \in Chans : Waits(u, d, "sendq") =>
                Waits(u, d, "sendq")' \/ \A x : x = elem[u] => Out(x, d)',
         t \in Producers => ServedAt(t)' /\ ToldAt(t)',
         t \in Consumers => RefusedAt(t)',
         BufferApart'
  PROVE  MsgInv'
<1>0. OutSent /\ ParkedApart /\ SentOK /\ RefusedOK /\ TypeOK /\ DataOK
  BY FlowStay
<1>1. \A u \in Threads : closed[ch[u]] => ch'[u] = ch[u]
  BY DEF Others
<1>2. \A u \in Producers : nsent[u] \in Nat
  BY <1>0, ChanAssumptions DEF DataOK
<1>3. ASSUME NEW x, SentBefore(x) PROVE SentBefore(x)'
  <2>1. PICK u : u = x[1]
    OBVIOUS
  <2>2. u \in Producers /\ u \in Threads /\ x \in Msgs /\ x[2] \in Nat /\ ch[u] \in Chans
    BY <1>0, <1>3, <2>1, ChanAssumptions DEF SentBefore, Msgs, Threads, TypeOK
  <2>3. CASE x[2] <= nsent[u]
    <3>1. x[2] <= nsent'[u]
      BY <1>2, <2>2, <2>3
    <3> QED BY <2>1, <2>2, <3>1 DEF SentBefore
  <2>4. CASE closed[ch[u]] /\ ~Waits(u, ch[u], "sendq")
    <3>1. ch'[u] = ch[u]
      BY <1>1, <2>2, <2>4
    <3>2. PICK d \in Chans : d = ch[u]
      BY <2>2
    <3>3. ~Waits(u, d, "sendq")'
      BY <2>2, <2>4, <3>2
    <3>4. ~Waits(u, ch[u], "sendq")' /\ closed'[ch'[u]]
      BY <2>4, <3>1, <3>2, <3>3 DEF Waits
    <3> QED BY <2>1, <2>2, <3>4 DEF SentBefore
  <2> QED BY <1>3, <2>1, <2>3, <2>4 DEF SentBefore
<1>4. OutSent'
  <2> SUFFICES ASSUME NEW x, NEW d \in Chans, Out(x, d)' PROVE SentBefore(x)'
    BY DEF OutSent
  <2>1. CASE Silent
    BY <1>0, <1>3, <2>1 DEF Silent, OutSent
  <2>2. CASE Emits(c, m) /\ SentBefore(m)'
    <3>1. Out(x, d) \/ x = m
      BY <2>2 DEF Emits
    <3>2. Out(x, d) => SentBefore(x)'
      BY <1>0, <1>3 DEF OutSent
    <3>3. x = m => SentBefore(x)'
      BY <2>2 DEF SentBefore
    <3> QED BY <3>1, <3>2, <3>3
  <2> QED BY <2>1, <2>2
<1>5. ParkedApart'
  <2> SUFFICES ASSUME NEW d \in Chans, NEW u \in Threads, Waits(u, d, "sendq")'
               PROVE  elem'[u] \in Msgs /\ elem'[u][1] = u /\ Fresh(elem[u])'
    BY DEF ParkedApart
  <2>1. PICK x : x = elem'[u]
    OBVIOUS
  <2>2. x \in Msgs /\ x[1] = u /\ \A e \in Chans : ~Out(x, e)
    BY <1>0, <2>1 DEF ParkedApart, Fresh
  <2>3. Silent \/ (Emits(c, m) /\ x # m)
    BY <2>1, <2>2
  <2>4. \A e \in Chans : ~Out(x, e)'
    BY <2>2, <2>3 DEF Silent, Emits
  <2>5. Fresh(elem[u])'
    BY <2>1, <2>4 DEF Fresh, Out, Delivered, InBuffer
  <2> QED BY <2>1, <2>2, <2>5
<1>6. \A x : \A d \in Chans : Out(x, d) => Out(x, d)'
  BY DEF Silent, Emits
<1>7. SentOK'
  <2> SUFFICES ASSUME NEW u \in Producers, u # t PROVE ServedAt(u)' /\ ToldAt(u)'
    BY DEF SentOK
  <2>1. u \in Threads
    BY DEF Threads
  <2>2. /\ pc'[u] = pc[u] /\ ch'[u] = ch[u] /\ ret'[u] = ret[u] /\ elem'[u] = elem[u]
    BY <2>1 DEF Others
  <2>3. PICK x, d, e : x = elem[u] /\ d = ch[u] /\ e = ret[u].ch
    OBVIOUS
  <2>4. d \in Chans /\ e \in Chans
    BY <1>0, <2>1, <2>3 DEF TypeOK, DataOK
  <2>5. /\ ServedAt(u) /\ ToldAt(u)
        /\ Waits(u, d, "sendq") => Waits(u, d, "sendq")' \/ Out(x, d)'
        /\ Out(x, d) => Out(x, d)'
        /\ Out(x, e) => Out(x, e)'
    BY <1>0, <1>6, <2>3, <2>4 DEF SentOK
  <2>6. ServedAt(u)'
    <3>1. /\ pc[u] = "sendsignal" => Out(x, d)
          /\ pc[u] = "sendq" /\ ~Waits(u, d, "sendq") /\ ~Cancelled(d) => Out(x, d)
      BY <2>3, <2>5 DEF ServedAt
    <3>2. /\ pc'[u] = "sendsignal" => Out(x, d)'
          /\ pc'[u] = "sendq" /\ ~Waits(u, d, "sendq")' /\ ~Cancelled(d)' => Out(x, d)'
      BY <2>2, <2>5, <3>1 DEF Cancelled
    <3>3. (Out(elem[u], ch[u])' <=> Out(x, d)') /\ (Waits(u, ch[u], "sendq")' <=> Waits(u, d, "sendq")')
          /\ (Cancelled(ch[u])' <=> Cancelled(d)')
      BY <2>2, <2>3 DEF Out, Delivered, InBuffer, Waits, Cancelled, At, Slot
    <3> QED BY <3>2, <3>3 DEF ServedAt
  <2>7. ToldAt(u)'
    <3>1. pc[u] = "idle" /\ ret[u].op = "send" /\ ret[u].ok = TRUE /\ ~Cancelled(e) => Out(x, e)
      BY <2>3, <2>5 DEF ToldAt
    <3>2. pc'[u] = "idle" /\ ret'[u].op = "send" /\ ret'[u].ok = TRUE /\ ~Cancelled(e)' => Out(x, e)'
      BY <2>2, <2>5, <3>1 DEF Cancelled
    <3>3. (Out(elem[u], ret[u].ch)' <=> Out(x, e)')
          /\ (Cancelled(ret[u].ch)' <=> Cancelled(e)') /\ elem'[u] = x
      BY <2>2, <2>3 DEF Out, Delivered, InBuffer, Cancelled, At, Slot
    <3> QED BY <3>2, <3>3 DEF ToldAt
  <2> QED BY <2>6, <2>7
<1>8. RefusedOK'
  <2> SUFFICES ASSUME NEW u \in Consumers, u # t PROVE RefusedAt(u)'
    BY DEF RefusedOK
  <2>1. ret'[u] = ret[u] /\ RefusedAt(u)
    BY <1>0 DEF Others, Threads, RefusedOK
  <2> QED BY <2>1 DEF RefusedAt
<1> QED BY <1>4, <1>5, <1>7, <1>8 DEF MsgInv

\* Steps that leave the queues and the messages alone.
LEMMA QuietMsg ==
  ASSUME FlowInv, NEW t \in Threads, Others(t), closed' = closed,
         closed[ch[t]] => ch'[t] = ch[t],
         UNCHANGED <<waiting, nsent, qlen, recvx, buf, delivered>>,
         \A u \in Threads : u # t => elem'[u] = elem[u],
         t \in Producers => /\ elem'[t] = elem[t] \/ (elem'[t] = <<t, nsent[t] + 1>> /\ elem'[t] \in Msgs)
                            /\ ServedAt(t)' /\ ToldAt(t)',
         t \in Consumers => RefusedAt(t)'
  PROVE  MsgInv'
<1>0. TypeOK /\ DataOK /\ MembersOK /\ OutSent /\ ParkedApart /\ "sendq" \in Queues
  BY FlowStay DEF Queues
<1>1. Silent /\ BufferApart'
  BY QuietMessages
<1>2. \A u \in Threads, d \in Chans : Waits(u, d, "sendq")' <=> Waits(u, d, "sendq")
  BY DEF Waits
<1>3. \A u \in Producers : nsent[u] \in Nat /\ nsent'[u] \in Nat /\ nsent[u] <= nsent'[u]
  BY <1>0, ChanAssumptions DEF DataOK
<1>4. ASSUME NEW u \in Threads, NEW d \in Chans, Waits(u, d, "sendq")
      PROVE  \/ elem'[u] = elem[u]
             \/ elem'[u] \in Msgs /\ elem'[u][1] = u /\ \A e \in Chans : ~Out(elem'[u], e)
  <2>1. u \in Producers /\ ch[u] = d
    BY <1>0, <1>4 DEF MembersOK, Role
  <2>2. CASE u # t
    BY <2>2
  <2>3. CASE u = t /\ elem'[t] = <<t, nsent[t] + 1>> /\ elem'[t] \in Msgs
    <3>1. PICK x : x = <<u, nsent[u] + 1>>
      OBVIOUS
    <3>2. x[1] = u /\ x[2] = nsent[u] + 1 /\ ~(nsent[u] + 1 <= nsent[u])
      BY <1>3, <2>1, <3>1
    <3>3. ~SentBefore(x)
      BY <1>4, <2>1, <3>2 DEF SentBefore
    <3>4. \A e \in Chans : ~Out(x, e)
      BY <1>0, <3>3 DEF OutSent
    <3> QED BY <2>3, <3>1, <3>2, <3>4
  <2> QED BY <2>1, <2>2, <2>3
<1>5. PICK c \in Chans : TRUE
  BY <1>0 DEF TypeOK
<1>6. PICK m : m = 0
  OBVIOUS
<1>7. Silent \/ (Emits(c, m) /\ SentBefore(m)')
  BY <1>1
<1>8. \A u \in Threads, d \in Chans : Waits(u, d, "sendq")' =>
         \/ Waits(u, d, "sendq") /\ elem'[u] = elem[u] /\ (Silent \/ m[1] # u)
         \/ /\ Silent /\ (Waits(u, d, "sendq") \/ ~closed[ch[u]])
            /\ elem'[u] \in Msgs /\ elem'[u][1] = u
            /\ \A e \in Chans : ~Out(elem'[u], e)
  BY <1>1, <1>2, <1>4
<1>9. \A u \in Producers : u # t =>
         /\ elem'[u] = elem[u]
         /\ \A d \in Chans : Waits(u, d, "sendq") =>
              Waits(u, d, "sendq")' \/ \A x : x = elem[u] => Out(x, d)'
  BY <1>2 DEF Threads
<1>10. t \in Producers => ServedAt(t)' /\ ToldAt(t)'
  OBVIOUS
<1>11. \A u \in Producers : nsent'[u] \in Nat /\ nsent[u] <= nsent'[u]
  BY <1>3
<1> QED BY <1>1, <1>5, <1>7, <1>8, <1>9, <1>10, <1>11, ThreadMsg

\* The messages after a step that moves only its own thread.
LEMMA LocalMsg ==
  ASSUME FlowInv, NEW t \in Threads, Local(t)
  PROVE  MsgInv'
<1>0. /\ TypeOK /\ DataOK /\ SentOK /\ RefusedOK /\ Alone(t)
  BY FlowStay DEF Local
<1>1. /\ Others(t) /\ closed' = closed /\ (closed[ch[t]] => ch'[t] = ch[t])
      /\ UNCHANGED <<waiting, nsent, qlen, recvx, buf, delivered>>
      /\ \A u \in Threads : u # t => elem'[u] = elem[u]
      /\ pc'[t] \notin Busy
  BY <1>0 DEF Local, Alone
<1>2. ASSUME t \in Producers
      PROVE  /\ elem'[t] = elem[t] \/ (elem'[t] = <<t, nsent[t] + 1>> /\ elem'[t] \in Msgs)
             /\ ServedAt(t)' /\ ToldAt(t)'
  <2>1. SendCall(t) \/ RecvCall(t)
    BY DEF Local
  <2>2. nsent[t] \in 0..MaxMsgs /\ MaxMsgs \in Nat
    BY <1>0, <1>2, ChanAssumptions DEF DataOK
  <2>3. <<t, nsent[t] + 1>> \in Msgs
    BY <1>2, <2>2 DEF Msgs
  <2>4. elem'[t] = elem[t] \/ (elem'[t] = <<t, nsent[t] + 1>> /\ elem'[t] \in Msgs)
    BY <2>1, <2>3 DEF SendCall, RecvCall
  <2>5. ServedAt(t)'
    BY <1>1 DEF ServedAt, Busy, Queues, Signalling
  <2>6. pc'[t] = "idle" => ret'[t].ok = FALSE
    BY <2>1 DEF SendCall, RecvCall, RecvPCs
  <2>7. ToldAt(t)'
    BY <2>6, Zenon DEF ToldAt
  <2> QED BY <2>4, <2>5, <2>7
<1>3. ASSUME t \in Consumers PROVE RefusedAt(t)'
  <2>1. SendCall(t) \/ RecvCall(t)
    BY DEF Local
  <2>2. RefusedAt(t)
    BY <1>0, <1>3 DEF RefusedOK
  <2>3. \/ ret'[t] = ret[t]
        \/ ret'[t].op = "send"
        \/ ret'[t].block = TRUE => closed[ret'[t].ch]
    BY <2>1 DEF SendCall, RecvCall
  <2> QED BY <1>1, <2>2, <2>3 DEF RefusedAt
<1> QED BY <1>1, <1>2, <1>3, QuietMsg

\* The messages after a receiver parks.
LEMMA RecvParkMsg ==
  ASSUME FlowInv, NEW t \in Threads, RecvBlocked(t), pc[t] = "recv"
  PROVE  MsgInv'
<1>0. /\ TypeOK /\ DataOK /\ SentOK /\ RefusedOK /\ ParkedApart
      /\ t \in Consumers
  BY FlowStay, ReceiverReady DEF RecvBlocked
<1>1. Parks(t, "recvq") /\ StayInv
  BY FlowStay, RecvParkStruct
<1>2. /\ UNCHANGED <<nsent, qlen, recvx, buf, delivered, elem, ret, closed, ch>>
      /\ Enqueue(ch[t], "recvq", t) /\ Others(t) /\ pc'[t] = "recvq"
  BY <1>1 DEF RecvBlocked, Park, chanVars, hist, Parks
<1>3. Silent /\ BufferApart'
  BY <1>2, QuietMessages
<1>4. \A u \in Threads, d \in Chans : Waits(u, d, "sendq")' <=> Waits(u, d, "sendq")
  <2>1. \A d \in Chans : waiting'[d]["sendq"] = waiting[d]["sendq"]
    <3>1. ch[t] \in Chans /\ "recvq" \in Queues /\ "sendq" \in Queues
      BY <1>0 DEF TypeOK, Queues
    <3> QED BY <1>0, <1>2, <3>1, EnqueueWaiting
  <2> QED BY <2>1 DEF Waits
<1>5. \A u \in Producers : nsent'[u] \in Nat /\ nsent[u] <= nsent'[u]
  BY <1>0, <1>2, ChanAssumptions DEF DataOK
<1>6. RefusedAt(t)'
  BY <1>0, <1>2 DEF RefusedOK, RefusedAt
<1>7. PICK c \in Chans : TRUE
  BY <1>0 DEF TypeOK
<1>8. PICK m : m = 0
  OBVIOUS
<1>9. Silent \/ (Emits(c, m) /\ SentBefore(m)')
  BY <1>3
<1>10. \A u \in Threads, d \in Chans : Waits(u, d, "sendq")' =>
         \/ Waits(u, d, "sendq") /\ elem'[u] = elem[u] /\ (Silent \/ m[1] # u)
         \/ /\ Silent /\ (Waits(u, d, "sendq") \/ ~closed[ch[u]])
            /\ elem'[u] \in Msgs /\ elem'[u][1] = u
            /\ \A e \in Chans : ~Out(elem'[u], e)
  BY <1>2, <1>3, <1>4
<1>11. \A u \in Producers : u # t =>
         /\ elem'[u] = elem[u]
         /\ \A d \in Chans : Waits(u, d, "sendq") =>
              Waits(u, d, "sendq")' \/ \A x : x = elem[u] => Out(x, d)'
  BY <1>2, <1>4 DEF Threads
<1>12. closed' = closed /\ (closed[ch[t]] => ch'[t] = ch[t])
  BY <1>2
<1>13. ServedAt(t)' /\ ToldAt(t)'
  BY <1>2 DEF ServedAt, ToldAt
<1> QED BY <1>2, <1>3, <1>5, <1>6, <1>7, <1>9, <1>10, <1>11, <1>12, <1>13, ThreadMsg

\* The messages after a sender parks: what it holds is not out.
LEMMA SendParkMsg ==
  ASSUME FlowInv, NEW t \in Threads, SendBlocked(t), pc[t] = "send"
  PROVE  MsgInv'
<1>0. /\ TypeOK /\ DataOK /\ StayInv /\ Fresh(elem[t]) /\ ~closed[ch[t]]
      /\ t \in Producers /\ elem[t] = <<t, nsent[t] + 1>> /\ elem[t] \in Msgs
      /\ nsent[t] \in Nat
  BY FlowStay, SenderReady, SenderFresh DEF SendBlocked
<1>1. Parks(t, "sendq")
  BY <1>0, SendParkStruct
<1>2. /\ UNCHANGED <<qlen, recvx, buf, delivered, elem, ret, closed, ch>>
      /\ nsent' = [nsent EXCEPT ![t] = @ + 1]
      /\ Enqueue(ch[t], "sendq", t) /\ Others(t) /\ pc'[t] = "sendq"
  BY <1>1 DEF SendBlocked, Park, chanVars, hist, Parks
<1>3. Silent /\ BufferApart'
  BY <1>2, QuietMessages
<1>4. \A u \in Threads, d \in Chans :
        Waits(u, d, "sendq")' <=> (Waits(u, d, "sendq") \/ (u = t /\ d = ch[t]))
  <2>1. ch[t] \in Chans /\ "recvq" \in Queues /\ "sendq" \in Queues
    BY <1>0 DEF TypeOK, Queues
  <2> QED BY <1>0, <1>2, <2>1, EnqueueWaiting
<1>5. ASSUME NEW u \in Producers PROVE nsent'[u] \in Nat /\ nsent[u] <= nsent'[u]
  <2>1. nsent \in [Producers -> 0..MaxMsgs] /\ MaxMsgs \in Nat
    BY <1>0, ChanAssumptions DEF DataOK
  <2>2. nsent[u] \in Nat /\ (u = t => nsent'[u] = nsent[u] + 1) /\ (u # t => nsent'[u] = nsent[u])
    BY <1>0, <1>2, <2>1
  <2> QED BY <2>2
<1>6. ServedAt(t)' /\ ToldAt(t)'
  <2>1. PICK d \in Chans : d = ch[t]
    BY <1>0 DEF TypeOK
  <2>2. Waits(t, d, "sendq")'
    BY <1>4, <2>1
  <2>3. Waits(t, ch[t], "sendq")'
    BY <1>2, <2>1, <2>2 DEF Waits
  <2> QED BY <1>2, <2>3 DEF ServedAt, ToldAt
<1>7. elem'[t][1] = t /\ \A e \in Chans : ~Out(elem'[t], e)
  BY <1>0, <1>2 DEF Fresh
<1>8. PICK c \in Chans : TRUE
  BY <1>0 DEF TypeOK
<1>9. PICK m : m = 0
  OBVIOUS
<1>10. Silent \/ (Emits(c, m) /\ SentBefore(m)')
  BY <1>3
<1>11. \A u \in Threads, d \in Chans : Waits(u, d, "sendq")' =>
         \/ Waits(u, d, "sendq") /\ elem'[u] = elem[u] /\ (Silent \/ m[1] # u)
         \/ /\ Silent /\ (Waits(u, d, "sendq") \/ ~closed[ch[u]])
            /\ elem'[u] \in Msgs /\ elem'[u][1] = u
            /\ \A e \in Chans : ~Out(elem'[u], e)
  BY <1>0, <1>2, <1>3, <1>4, <1>7
<1>12. \A u \in Producers : u # t =>
         /\ elem'[u] = elem[u]
         /\ \A d \in Chans : Waits(u, d, "sendq") =>
              Waits(u, d, "sendq")' \/ \A x : x = elem[u] => Out(x, d)'
  BY <1>2, <1>4 DEF Threads
<1>13. closed' = closed /\ (closed[ch[t]] => ch'[t] = ch[t])
  BY <1>2
<1>14. t \in Consumers => RefusedAt(t)'
  BY <1>2, FlowStay DEF RefusedOK, RefusedAt
<1> QED BY <1>2, <1>3, <1>5, <1>6, <1>8, <1>10, <1>11, <1>12, <1>13, <1>14, ThreadMsg

\* The messages after a wake-up: a sender that is told so has its message out.
LEMMA WakeMsg ==
  ASSUME FlowInv, NEW t \in Threads, WakeSend(t) \/ WakeRecv(t)
  PROVE  MsgInv'
<1>0. /\ TypeOK /\ DataOK /\ StayInv /\ SentOK /\ ControlOK /\ WaitInv /\ ClosedDone
  BY FlowStay, StayWaitInv
<1>1. Wakes(t)
  BY <1>0, WakeStruct
<1>2. /\ Others(t) /\ UNCHANGED <<waiting, nsent, qlen, recvx, buf, delivered, closed, ch>>
      /\ pc[t] \in Queues /\ pc'[t] = "idle" /\ sema[t] > 0
  BY <1>1 DEF Wakes, WakeSend, WakeRecv, chanVars, queueVars, hist
<1>3. CASE WakeSend(t)
  <2>1. elem' = elem /\ pc[t] = "sendq" /\ t \in Producers
    BY <1>0, <1>3 DEF WakeSend, ControlOK, ControlAt
  <2>2. ret'[t].ok = TRUE /\ ret'[t].ch = ch[t] /\ ret'[t].op = "send"
    BY <1>0, <1>3, <2>1, ReturnsEffect DEF WakeSend, SendCalls
  <2>3. ServedAt(t)'
    BY <1>2 DEF ServedAt
  <2>4. ASSUME ~Cancelled(ch[t]) PROVE Out(elem[t], ch[t])
    <3>1. ch[t] \in Chans
      BY <1>0 DEF TypeOK
    <3>2. ~closed[ch[t]]
      BY <1>0, <2>1, <2>4, <3>1 DEF Cancelled, ClosedDone, SenderDone, SendCalls
    <3>3. sema[t] # 0
      BY <1>0, <1>2 DEF TypeOK
    <3>4. ~Waits(t, ch[t], "sendq")
      BY <1>0, <2>1, <3>2, <3>3 DEF WaitInv, TokensOK, Served
    <3> QED BY <1>0, <2>1, <2>4, <3>4 DEF SentOK, ServedAt
  <2>5. ToldAt(t)'
    <3>1. PICK x, d : x = elem[t] /\ d = ch[t]
      OBVIOUS
    <3>2. ~Cancelled(d)' => Out(x, d)'
      BY <1>2, <2>4, <3>1 DEF Cancelled, Out, Delivered, InBuffer, At, Slot
    <3>3. elem'[t] = x /\ ret'[t].ch = d
      BY <2>1, <2>2, <3>1
    <3> QED BY <3>2, <3>3 DEF ToldAt, Cancelled, Out, Delivered, InBuffer, At, Slot
  <2>6. RefusedAt(t)'
    BY <2>2, Zenon DEF RefusedAt
  <2> QED BY <1>2, <2>1, <2>3, <2>5, <2>6, QuietMsg
<1>4. CASE WakeRecv(t)
  <2>1. pc[t] = "recvq" /\ elem' = elem
    BY <1>4 DEF WakeRecv
  <2>2. ServedAt(t)' /\ ToldAt(t)'
    <3>1. ret'[t].op = "recv"
      BY <1>0, <1>4, <2>1, ReturnsEffect DEF WakeRecv, SendCalls
    <3> QED BY <1>2, <3>1 DEF ServedAt, ToldAt
  <2>3. RefusedAt(t)'
    <3>1. CASE thrclosed[t]
      <4>1. ret'[t].ch = ch[t]
        BY <1>0, <1>4, ReturnsEffect DEF WakeRecv
      <4>2. thrclosed[t] = TRUE
        BY <1>0, <3>1, Zenon DEF DataOK
      <4>3. closed[ch[t]]
        BY <1>0, <4>2 DEF WaitInv, ThrClosedOK
      <4> QED BY <1>2, <4>1, <4>3 DEF RefusedAt
    <3>2. CASE ~thrclosed[t]
      <4>1. ret'[t].ok = TRUE
        BY <1>0, <1>4, <3>2, ReturnsEffect DEF WakeRecv
      <4> QED BY <4>1, Zenon DEF RefusedAt
    <3> QED BY <3>1, <3>2
  <2> QED BY <1>2, <2>1, <2>2, <2>3, QuietMsg
<1> QED BY <1>3, <1>4

\* The messages after a signal.
LEMMA SignalMsg ==
  ASSUME FlowInv, NEW t \in Threads, Signal(t)
  PROVE  MsgInv'
<1>0. /\ TypeOK /\ DataOK /\ StayInv /\ SentOK
  BY FlowStay
<1>1. Signals(t)
  BY <1>0, SignalStruct
<1>2. /\ Others(t) /\ UNCHANGED <<waiting, nsent, qlen, recvx, buf, delivered, closed, ch, elem>>
      /\ pc[t] \in Signalling /\ pc'[t] = "idle"
  BY <1>1 DEF Signals, Signal, chanVars, queueVars, hist
<1>3. /\ ret'[t].ok = TRUE /\ ret'[t].ch = ch[t]
      /\ pc[t] = "recvsignal" => ret'[t].op = "recv"
  BY <1>0, ReturnsEffect DEF Signal, SendCalls
<1>4. ASSUME t \in Producers PROVE ServedAt(t)' /\ ToldAt(t)'
  <2>1. ServedAt(t)'
    BY <1>2 DEF ServedAt
  <2>2. CASE pc[t] = "recvsignal"
    BY <1>3, <2>1, <2>2 DEF ToldAt
  <2>3. CASE pc[t] = "sendsignal"
    <3>0. Out(elem[t], ch[t])
      BY <1>0, <1>4, <2>3 DEF SentOK, ServedAt
    <3>1. PICK x, d : x = elem[t] /\ d = ch[t]
      OBVIOUS
    <3>2. Out(x, d)'
      BY <1>2, <3>0, <3>1 DEF Out, Delivered, InBuffer, At, Slot
    <3>3. elem'[t] = x /\ ret'[t].ch = d
      BY <1>2, <1>3, <3>1
    <3>4. ToldAt(t)'
      BY <3>2, <3>3 DEF ToldAt, Out, Delivered, InBuffer, At, Slot
    <3> QED BY <2>1, <3>4
  <2> QED BY <1>2, <2>2, <2>3 DEF Signalling
<1>5. RefusedAt(t)'
  BY <1>3, Zenon DEF RefusedAt
<1> QED BY <1>2, <1>4, <1>5, QuietMsg

\* The first receiver that waits, and what a sender hands to it.
LEMMA FirstReceiver ==
  ASSUME StayInv, NEW t \in Threads, SendDirect(t), NEW c \in Chans, c = ch[t],
         NEW r, r = first[c]["recvq"]
  PROVE  /\ r \in Threads /\ r \in Consumers /\ r # t /\ t \in Producers
         /\ ch[r] = c /\ pc[r] = "recvq" /\ Waits(r, c, "recvq") /\ ~closed[c]
         /\ into'[r] = elem[t] /\ \A u \in Threads : u # r => into'[u] = into[u]
         /\ elem' = elem
         /\ \A d \in Chans, q \in Queues, u \in Threads :
              Waits(u, d, q)' <=> (Waits(u, d, q) /\ ~(u = r /\ d = c /\ q = "recvq"))
         /\ \A d \in Chans, q \in Queues :
              (d # c \/ q # "recvq") => waiting'[d][q] = waiting[d][q]
<1>0. "recvq" \in Queues /\ "sendq" \in Queues /\ "recvq" # "sendq"
  BY DEF Queues
<1>1. DataOK /\ ListsOK /\ MembersOK /\ first[c]["recvq"] # NULL /\ Dequeue(c, "recvq") /\ ~closed[c]
  BY StayWaitInv DEF WaitInv, QueuesOK, SendDirect
<1>2. /\ r \in Threads /\ Waits(r, c, "recvq")
      /\ \A d \in Chans, q \in Queues, u \in Threads :
           Waits(u, d, q)' <=> (Waits(u, d, q) /\ ~(u = r /\ d = c /\ q = "recvq"))
      /\ \A d \in Chans, q \in Queues :
           (d # c \/ q # "recvq") => waiting'[d][q] = waiting[d][q]
  BY <1>0, <1>1, DequeueWaiting
<1>3. r \in Consumers /\ ch[r] = c /\ pc[r] = "recvq"
  BY <1>0, <1>1, <1>2 DEF MembersOK, Role
<1>4. r # t /\ t \in Producers /\ elem[t] \in Elems
  BY <1>3, SenderReady DEF SendDirect, Busy, Queues
<1>5. into' = [into EXCEPT ![r] = elem[t]] /\ into \in [Threads -> Elems] /\ elem' = elem
  BY <1>1 DEF SendDirect, DataOK
<1>6. into'[r] = elem[t] /\ \A u \in Threads : u # r => into'[u] = into[u]
  BY <1>2, <1>5
<1> QED BY <1>1, <1>2, <1>3, <1>4, <1>5, <1>6

\* The two steps of a sender that put its message out.
LEMMA SendMsg ==
  ASSUME FlowInv, NEW t \in Threads, SendDirect(t) \/ SendBuffer(t)
  PROVE  MsgInv'
<1>0. /\ TypeOK /\ DataOK /\ StayInv /\ WaitInv /\ MembersOK
      /\ "sendq" \in Queues /\ "recvq" \in Queues
  BY FlowStay DEF Queues
<1>1. PICK c \in Chans : c = ch[t]
  BY <1>0 DEF TypeOK
<1>2. PICK m : m = elem[t]
  OBVIOUS
<1>3. /\ t \in Producers /\ ~closed[ch[t]]
      /\ m = <<t, nsent[t] + 1>> /\ m \in Msgs /\ nsent[t] \in Nat /\ pc[t] \notin Queues
  BY <1>0, <1>2, SenderReady DEF SendDirect, SendBuffer, Busy, Signalling
<1>4. m[1] = t /\ m[2] = nsent[t] + 1
  BY <1>3
<1>5. Emits(c, m) /\ BufferApart'
  BY <1>1, <1>2, SendDirectOut, SendBufferOut
<1>6. /\ Others(t) /\ closed' = closed /\ ch'[t] = ch[t]
      /\ nsent' = [nsent EXCEPT ![t] = @ + 1]
      /\ \A u \in Producers : elem'[u] = elem[u]
      /\ \A u \in Threads, d \in Chans : Waits(u, d, "sendq")' <=> Waits(u, d, "sendq")
  <2>1. CASE SendDirect(t)
    <3>1. Meets(t, "recvq")
      BY <1>0, <2>1, SendDirectStruct
    <3>2. PICK r : r = first[c]["recvq"]
      OBVIOUS
    <3>3. /\ elem' = elem
          /\ \A d \in Chans, q \in Queues, u \in Threads :
               Waits(u, d, q)' <=> (Waits(u, d, q) /\ ~(u = r /\ d = c /\ q = "recvq"))
      BY <1>0, <1>1, <2>1, <3>2, FirstReceiver
    <3> QED BY <1>0, <2>1, <3>1, <3>3 DEF Meets, SendDirect, Threads, AfterMeeting
  <2>2. CASE SendBuffer(t)
    <3>1. Alone(t)
      BY <1>0, <2>2, SendBufferStruct
    <3> QED BY <2>2, <3>1 DEF Alone, SendBuffer, Waits
  <2> QED BY <2>1, <2>2
<1>7. ASSUME NEW u \in Producers PROVE nsent'[u] \in Nat /\ nsent[u] <= nsent'[u]
                                       /\ (u = t => nsent'[u] = nsent[u] + 1)
  <2>1. nsent \in [Producers -> 0..MaxMsgs] /\ MaxMsgs \in Nat
    BY <1>0, ChanAssumptions DEF DataOK
  <2>2. nsent[u] \in Nat /\ (u = t => nsent'[u] = nsent[u] + 1) /\ (u # t => nsent'[u] = nsent[u])
    BY <1>6, <2>1
  <2> QED BY <2>2
<1>8. SentBefore(m)'
  BY <1>3, <1>4, <1>7 DEF SentBefore
<1>9. \A d \in Chans : ~Waits(t, d, "sendq")
  BY <1>0, <1>3, NotWaiting
<1>10. Silent \/ (Emits(c, m) /\ SentBefore(m)')
  BY <1>5, <1>8
<1>11. \A u \in Threads, d \in Chans : Waits(u, d, "sendq")' =>
         \/ Waits(u, d, "sendq") /\ elem'[u] = elem[u] /\ (Silent \/ m[1] # u)
         \/ /\ Silent /\ (Waits(u, d, "sendq") \/ ~closed[ch[u]])
            /\ elem'[u] \in Msgs /\ elem'[u][1] = u
            /\ \A e \in Chans : ~Out(elem'[u], e)
  <2>1. \A u \in Threads, d \in Chans : Waits(u, d, "sendq") => u \in Producers /\ u # t
    BY <1>0, <1>9 DEF MembersOK, Role
  <2> QED BY <1>4, <1>6, <2>1
<1>12. \A u \in Producers : u # t =>
         /\ elem'[u] = elem[u]
         /\ \A d \in Chans : Waits(u, d, "sendq") =>
              Waits(u, d, "sendq")' \/ \A x : x = elem[u] => Out(x, d)'
  BY <1>6 DEF Threads
<1>13. ServedAt(t)' /\ ToldAt(t)'
  <2>1. Out(m, c)'
    BY <1>5 DEF Emits
  <2>2. elem'[t] = m /\ ch'[t] = c
    BY <1>1, <1>2, <1>3, <1>6
  <2>3. Out(elem[t], ch[t])'
    BY <2>1, <2>2 DEF Out, Delivered, InBuffer, At, Slot
  <2>4. CASE SendDirect(t)
    <3>1. pc'[t] = "sendsignal" /\ ret' = ret
      BY <1>0, <2>4 DEF SendDirect, Goto, TypeOK
    <3> QED BY <2>3, <3>1 DEF ServedAt, ToldAt
  <2>5. CASE SendBuffer(t)
    <3>1. pc'[t] = "idle" /\ ret'[t].ch = c
      BY <1>0, <1>1, <2>5, ReturnsEffect DEF SendBuffer
    <3>2. Out(elem[t], ret[t].ch)'
      BY <2>1, <2>2, <3>1 DEF Out, Delivered, InBuffer, At, Slot
    <3> QED BY <3>1, <3>2 DEF ServedAt, ToldAt
  <2> QED BY <2>4, <2>5
<1>14. /\ closed' = closed /\ (closed[ch[t]] => ch'[t] = ch[t])
       /\ \A u \in Producers : nsent'[u] \in Nat /\ nsent[u] <= nsent'[u]
  BY <1>6, <1>7
<1>15. t \in Consumers => RefusedAt(t)'
  <2>1. CASE SendDirect(t)
    <3>1. ret' = ret
      BY <2>1 DEF SendDirect
    <3> QED BY <1>6, <3>1, FlowStay DEF RefusedOK, RefusedAt
  <2>2. CASE SendBuffer(t)
    <3>1. ret'[t].ok = TRUE
      BY <1>0, <2>2, ReturnsEffect DEF SendBuffer
    <3> QED BY <3>1, Zenon DEF RefusedAt
  <2> QED BY <2>1, <2>2
<1> QED BY <1>5, <1>6, <1>10, <1>11, <1>12, <1>13, <1>14, <1>15, ThreadMsg

\* The steps of a receiver that take a message.
LEMMA RecvDirectMsg ==
  ASSUME FlowInv, NEW t \in Threads, RecvDirect(t)
  PROVE  MsgInv'
<1>0. /\ TypeOK /\ DataOK /\ StayInv /\ MembersOK /\ RefusedOK /\ SendersOK /\ "sendq" \in Queues
  BY FlowStay, StayWaitInv DEF Queues
<1>1. PICK c \in Chans : c = ch[t]
  BY <1>0 DEF TypeOK
<1>2. PICK s : s = first[c]["sendq"]
  OBVIOUS
<1>3. PICK m : m = elem[s]
  OBVIOUS
<1>4. /\ s \in Threads /\ s \in Producers /\ t \in Consumers /\ ch[s] = c
      /\ Waits(s, c, "sendq") /\ (~closed[c] => pc[s] = "sendq")
      /\ m \in Msgs /\ m[1] = s
      /\ \A d \in Chans, r \in Queues, u \in Threads :
           Waits(u, d, r)' <=> (Waits(u, d, r) /\ ~(u = s /\ d = c /\ r = "sendq"))
  BY <1>1, <1>2, <1>3, FirstSender
<1>5. Emits(c, m) /\ BufferApart'
  BY <1>1, <1>2, <1>3, RecvTakeOut, RecvSwapOut
<1>6. /\ Meets(t, "sendq") /\ Others(t) /\ closed' = closed /\ ch'[t] = ch[t] /\ nsent' = nsent
      /\ ret' = ret /\ ch' = ch /\ pc'[t] = "recvsignal"
  <2>1. Meets(t, "sendq")
    BY <1>0, RecvDirectStruct
  <2> QED BY <2>1 DEF Meets, RecvDirect, AfterMeeting
<1>7. elem' = elem
  BY DEF RecvDirect
<1>8. SentBefore(m)'
  <2>1. CASE closed[c]
    <3>1. ~Waits(s, c, "sendq")' /\ closed'[c] /\ ch'[s] = c
      BY <1>0, <1>4, <1>6, <2>1
    <3>2. ~Waits(s, ch[s], "sendq")'
      BY <3>1 DEF Waits
    <3> QED BY <1>4, <3>1, <3>2 DEF SentBefore
  <2>2. CASE ~closed[c]
    <3>1. m = <<s, nsent[s]>> /\ nsent[s] \in 0..MaxMsgs /\ MaxMsgs \in Nat
      BY <1>0, <1>3, <1>4, <2>2, ChanAssumptions DEF SendersOK, SenderAt, DataOK
    <3>2. m[2] = nsent[s] /\ nsent'[s] = nsent[s] /\ nsent[s] <= nsent[s]
      BY <1>6, <3>1
    <3> QED BY <1>4, <3>2 DEF SentBefore
  <2> QED BY <2>1, <2>2
<1>9. Silent \/ (Emits(c, m) /\ SentBefore(m)')
  BY <1>5, <1>8
<1>10. \A u \in Threads, d \in Chans : Waits(u, d, "sendq")' =>
         \/ Waits(u, d, "sendq") /\ elem'[u] = elem[u] /\ (Silent \/ m[1] # u)
         \/ /\ Silent /\ (Waits(u, d, "sendq") \/ ~closed[ch[u]])
            /\ elem'[u] \in Msgs /\ elem'[u][1] = u
            /\ \A e \in Chans : ~Out(elem'[u], e)
  <2> SUFFICES ASSUME NEW u \in Threads, NEW d \in Chans, Waits(u, d, "sendq")'
               PROVE  Waits(u, d, "sendq") /\ elem'[u] = elem[u] /\ m[1] # u
    OBVIOUS
  <2>1. Waits(u, d, "sendq") /\ ~(u = s /\ d = c)
    BY <1>0, <1>4
  <2>2. ch[u] = d
    BY <1>0, <2>1 DEF MembersOK
  <2> QED BY <1>4, <1>7, <2>1, <2>2
<1>11. \A u \in Producers : u # t =>
         /\ elem'[u] = elem[u]
         /\ \A d \in Chans : Waits(u, d, "sendq") =>
              Waits(u, d, "sendq")' \/ \A x : x = elem[u] => Out(x, d)'
  <2> SUFFICES ASSUME NEW u \in Producers, u # t, NEW d \in Chans, Waits(u, d, "sendq")
               PROVE  Waits(u, d, "sendq")' \/ \A x : x = elem[u] => Out(x, d)'
    BY <1>7 DEF Threads
  <2>1. Waits(u, d, "sendq")' \/ (u = s /\ d = c)
    BY <1>0, <1>4 DEF Threads
  <2>2. Out(m, c)'
    BY <1>5 DEF Emits
  <2> QED BY <1>3, <2>1, <2>2
<1>12. RefusedAt(t)'
  BY <1>0, <1>4, <1>6 DEF RefusedOK, RefusedAt
<1>13. /\ closed[ch[t]] => ch'[t] = ch[t]
       /\ \A u \in Producers : nsent'[u] \in Nat /\ nsent[u] <= nsent'[u]
  BY <1>0, <1>6, ChanAssumptions DEF DataOK
<1>14. ServedAt(t)' /\ ToldAt(t)'
  BY <1>6 DEF ServedAt, ToldAt
<1> QED BY <1>5, <1>6, <1>9, <1>10, <1>11, <1>12, <1>13, <1>14, ThreadMsg

\* The messages after a receive from the ring.
LEMMA RecvBufferMsg ==
  ASSUME FlowInv, NEW t \in Threads, RecvBuffer(t)
  PROVE  MsgInv'
<1>0. /\ TypeOK /\ DataOK /\ StayInv
  BY FlowStay
<1>1. PICK c \in Chans : c = ch[t]
  BY <1>0 DEF TypeOK
<1>2. Silent /\ BufferApart'
  BY <1>1, RecvBufferOut
<1>3. /\ Others(t) /\ closed' = closed /\ ch' = ch /\ nsent' = nsent /\ waiting' = waiting
      /\ pc[t] \in RecvPCs
  <2>1. Alone(t) /\ pc[t] \in RecvPCs
    BY <1>0, RecvBufferStruct, ReceiverReady DEF RecvBuffer
  <2> QED BY <2>1 DEF Alone, RecvBuffer
<1>4. elem' = elem
  BY DEF RecvBuffer
<1>5. \A u \in Threads, d \in Chans : Waits(u, d, "sendq")' <=> Waits(u, d, "sendq")
  BY <1>3 DEF Waits
<1>6. RefusedAt(t)'
  <2>1. ret'[t].ok = TRUE
    BY <1>0, ReturnsEffect DEF RecvBuffer
  <2> QED BY <2>1, Zenon DEF RefusedAt
<1>7. PICK m : m = 0
  OBVIOUS
<1>8. Silent \/ (Emits(c, m) /\ SentBefore(m)')
  BY <1>2
<1>9. \A u \in Threads, d \in Chans : Waits(u, d, "sendq")' =>
         \/ Waits(u, d, "sendq") /\ elem'[u] = elem[u] /\ (Silent \/ m[1] # u)
         \/ /\ Silent /\ (Waits(u, d, "sendq") \/ ~closed[ch[u]])
            /\ elem'[u] \in Msgs /\ elem'[u][1] = u
            /\ \A e \in Chans : ~Out(elem'[u], e)
  BY <1>2, <1>4, <1>5
<1>10. \A u \in Producers : u # t =>
         /\ elem'[u] = elem[u]
         /\ \A d \in Chans : Waits(u, d, "sendq") =>
              Waits(u, d, "sendq")' \/ \A x : x = elem[u] => Out(x, d)'
  BY <1>4, <1>5 DEF Threads
<1>11. /\ closed[ch[t]] => ch'[t] = ch[t]
       /\ \A u \in Producers : nsent'[u] \in Nat /\ nsent[u] <= nsent'[u]
  BY <1>0, <1>3, ChanAssumptions DEF DataOK
<1>12. ServedAt(t)' /\ ToldAt(t)'
  <2>1. pc'[t] = "idle" /\ ret'[t].op = "recv"
    BY <1>0, <1>3, ReturnsEffect DEF RecvBuffer, RecvPCs, SendCalls
  <2> QED BY <2>1 DEF ServedAt, ToldAt
<1> QED BY <1>1, <1>2, <1>3, <1>6, <1>8, <1>9, <1>10, <1>11, <1>12, ThreadMsg

\* Closing a channel puts nothing out.
LEMMA CloseMsg ==
  ASSUME FlowInv, UNCHANGED <<qlen, recvx, buf, delivered, waiting, ch, pc, ret, nsent, elem>>,
         \A d \in Chans : closed[d] => closed'[d]
  PROVE  MsgInv'
<1>0. TypeOK /\ DataOK /\ OutSent /\ ParkedApart /\ SentOK /\ RefusedOK
  BY FlowStay
<1>1. Silent /\ BufferApart'
  BY QuietMessages
<1>2. /\ UNCHANGED <<waiting, ch, pc, ret, nsent, elem>>
      /\ \A d \in Chans : closed[d] => closed'[d]
  OBVIOUS
<1>3. \A u \in Threads, d \in Chans : Waits(u, d, "sendq")' <=> Waits(u, d, "sendq")
  BY <1>2 DEF Waits
<1>4. ASSUME NEW x, SentBefore(x) PROVE SentBefore(x)'
  <2>1. PICK u : u = x[1]
    OBVIOUS
  <2>2. u \in Threads /\ ch[u] \in Chans
    BY <1>0, <1>4, <2>1 DEF SentBefore, Msgs, Threads, TypeOK
  <2> QED BY <1>2, <1>4, <2>1, <2>2 DEF SentBefore, Waits
<1>5. OutSent'
  BY <1>0, <1>1, <1>4 DEF OutSent, Silent
<1>6. ParkedApart'
  <2> SUFFICES ASSUME NEW d \in Chans, NEW u \in Threads, Waits(u, d, "sendq")'
               PROVE  elem'[u] \in Msgs /\ elem'[u][1] = u /\ Fresh(elem[u])'
    BY DEF ParkedApart
  <2>1. PICK x : x = elem[u]
    OBVIOUS
  <2>2. x \in Msgs /\ x[1] = u /\ \A e \in Chans : ~Out(x, e)'
    BY <1>0, <1>1, <1>3, <2>1 DEF ParkedApart, Fresh, Silent
  <2>3. elem'[u] = x
    BY <1>2, <2>1
  <2>4. Fresh(elem[u])'
    BY <2>2, <2>3 DEF Fresh, Out, Delivered, InBuffer
  <2> QED BY <2>2, <2>3, <2>4
<1>7. SentOK'
  <2> SUFFICES ASSUME NEW u \in Producers PROVE ServedAt(u)' /\ ToldAt(u)'
    BY DEF SentOK
  <2>1. u \in Threads
    BY DEF Threads
  <2>2. PICK x, d, e : x = elem[u] /\ d = ch[u] /\ e = ret[u].ch
    OBVIOUS
  <2>3. d \in Chans /\ e \in Chans
    BY <1>0, <2>1, <2>2 DEF TypeOK, DataOK
  <2>4. /\ ServedAt(u) /\ ToldAt(u) /\ (Waits(u, d, "sendq")' <=> Waits(u, d, "sendq"))
        /\ (Out(x, d)' <=> Out(x, d)) /\ (Out(x, e)' <=> Out(x, e))
        /\ (~Cancelled(d)' => ~Cancelled(d)) /\ (~Cancelled(e)' => ~Cancelled(e))
    BY <1>0, <1>1, <1>2, <1>3, <2>1, <2>3 DEF SentOK, Silent, Cancelled
  <2>5. ServedAt(u)'
    <3>1. /\ pc[u] = "sendsignal" => Out(x, d)'
          /\ pc[u] = "sendq" /\ ~Waits(u, d, "sendq")' /\ ~Cancelled(d)' => Out(x, d)'
      BY <2>2, <2>4 DEF ServedAt
    <3>2. pc'[u] = pc[u] /\ elem'[u] = x /\ ch'[u] = d
      BY <1>2, <2>2
    <3> QED BY <3>1, <3>2 DEF ServedAt, Out, Delivered, InBuffer, Waits, Cancelled, At, Slot
  <2>6. ToldAt(u)'
    <3>1. pc[u] = "idle" /\ ret[u].op = "send" /\ ret[u].ok = TRUE /\ ~Cancelled(e)' => Out(x, e)'
      BY <2>2, <2>4 DEF ToldAt
    <3>2. pc'[u] = pc[u] /\ elem'[u] = x /\ ret'[u] = ret[u] /\ ret'[u].ch = e
      BY <1>2, <2>2
    <3> QED BY <3>1, <3>2 DEF ToldAt, Out, Delivered, InBuffer, Cancelled, At, Slot
  <2> QED BY <2>5, <2>6
<1>8. RefusedOK'
  <2> SUFFICES ASSUME NEW u \in Consumers PROVE RefusedAt(u)'
    BY DEF RefusedOK
  <2>1. ret[u].ch \in Chans /\ RefusedAt(u) /\ ret' = ret
    BY <1>0, <1>2 DEF RefusedOK, DataOK, Threads
  <2> QED BY <1>2, <2>1 DEF RefusedAt
<1> QED BY <1>1, <1>5, <1>6, <1>7, <1>8 DEF MsgInv

-----------------------------------------------------------------------------
\* Order.  A is the line of D, then B, then P; a, d, q and p are their lengths.
InLine(D, d, B, q, P, i) ==
  IF i <= d THEN D[i] ELSE IF i <= d + q THEN B[i - d] ELSE P[i - d - q]

Line(A, a, D, d, B, q, P, p) ==
  a = d + q + p /\ \A i \in 1..a : A[i] = InLine(D, d, B, q, P, i)

\* Y is X with m at the end of its n elements, X without its first one, or X.
Longer(X, Y, n, m) == Y[n + 1] = m /\ \A k \in 1..n : Y[k] = X[k]
Shifted(X, Y, n) == \A k \in 1..(n - 1) : Y[k] = X[k + 1]
SameUpTo(X, Y, n) == \A k \in 1..n : Y[k] = X[k]

\* A line with the same elements.
LEMMA LineSame ==
  ASSUME NEW a \in Nat, NEW d \in Nat, NEW q \in Nat, NEW p \in Nat,
         NEW A, NEW D, NEW B, NEW P, NEW B2, NEW P2,
         Line(A, a, D, d, B, q, P, p), SameUpTo(B, B2, q), SameUpTo(P, P2, p)
  PROVE  Line(A, a, D, d, B2, q, P2, p)
BY DEF Line, InLine, SameUpTo

\* A message goes through an empty line.
LEMMA LineThrough ==
  ASSUME NEW a \in Nat, NEW d \in Nat, NEW A, NEW D, NEW B, NEW P, NEW A2, NEW D2, NEW B2, NEW P2,
         NEW m, Line(A, a, D, d, B, 0, P, 0), Longer(A, A2, a, m), Longer(D, D2, d, m)
  PROVE  Line(A2, a + 1, D2, d + 1, B2, 0, P2, 0)
BY DEF Line, InLine, Longer

\* It goes into the buffer when nobody is parked.
LEMMA LineStore ==
  ASSUME NEW a \in Nat, NEW d \in Nat, NEW q \in Nat,
         NEW A, NEW D, NEW B, NEW P, NEW A2, NEW B2, NEW P2, NEW m,
         Line(A, a, D, d, B, q, P, 0), Longer(A, A2, a, m), Longer(B, B2, q, m)
  PROVE  Line(A2, a + 1, D, d, B2, q + 1, P2, 0)
BY DEF Line, InLine, Longer

\* A sender parks.
LEMMA LinePark ==
  ASSUME NEW a \in Nat, NEW d \in Nat, NEW q \in Nat, NEW p \in Nat,
         NEW A, NEW D, NEW B, NEW P, NEW A2, NEW B2, NEW P2, NEW m,
         Line(A, a, D, d, B, q, P, p), Longer(A, A2, a, m), Longer(P, P2, p, m),
         SameUpTo(B, B2, q)
  PROVE  Line(A2, a + 1, D, d, B2, q, P2, p + 1)
BY DEF Line, InLine, SameUpTo, Longer

\* A parked sender's message is received past an empty buffer.
LEMMA LineTake ==
  ASSUME NEW a \in Nat, NEW d \in Nat, NEW p \in Nat, p > 0,
         NEW A, NEW D, NEW B, NEW P, NEW D2, NEW B2, NEW P2,
         Line(A, a, D, d, B, 0, P, p), Longer(D, D2, d, P[1]), Shifted(P, P2, p)
  PROVE  Line(A, a, D2, d + 1, B2, 0, P2, p - 1)
BY DEF Line, InLine, Longer, Shifted

\* The first message of the buffer is received, and a parked one takes its place.
LEMMA LineSwap ==
  ASSUME NEW a \in Nat, NEW d \in Nat, NEW q \in Nat, NEW p \in Nat, q > 0, p > 0,
         NEW A, NEW D, NEW B, NEW P, NEW D2, NEW B2, NEW P2,
         Line(A, a, D, d, B, q, P, p), Longer(D, D2, d, B[1]),
         Shifted(B, B2, q), B2[q] = P[1], Shifted(P, P2, p)
  PROVE  Line(A, a, D2, d + 1, B2, q, P2, p - 1)
BY DEF Line, InLine, Longer, Shifted

\* The first message of the buffer is received.
LEMMA LineLeave ==
  ASSUME NEW a \in Nat, NEW d \in Nat, NEW q \in Nat, NEW p \in Nat, q > 0,
         NEW A, NEW D, NEW B, NEW P, NEW D2, NEW B2, NEW P2,
         Line(A, a, D, d, B, q, P, p), Longer(D, D2, d, B[1]), Shifted(B, B2, q),
         SameUpTo(P, P2, p)
  PROVE  Line(A, a, D2, d + 1, B2, q - 1, P2, p)
BY SMTT(30) DEF Line, InLine, Longer, Shifted, SameUpTo

InOrder(c) ==
  Line(accepted[c], Len(accepted[c]), delivered[c], Len(delivered[c]),
       Buffered(c), qlen[c], ParkedMsgs(c), Len(waiting[c]["sendq"]))

OrderInv == \A c \in Chans : ~Cancelled(c) => InOrder(c)
LineInv == FlowInv /\ OrderInv

\* The messages of a channel by position.
LEMMA Members ==
  ASSUME NEW c \in Chans
  PROVE  /\ \A k \in 1..qlen[c] : Buffered(c)[k] = At(c, k)
         /\ \A k \in 1..qlen'[c] : Buffered(c)'[k] = At(c, k)'
         /\ \A k \in 1..Len(waiting[c]["sendq"]) : ParkedMsgs(c)[k] = elem[waiting[c]["sendq"][k]]
         /\ \A k \in 1..Len(waiting'[c]["sendq"]) :
              ParkedMsgs(c)'[k] = elem'[waiting'[c]["sendq"][k]]
BY DEF Buffered, ParkedMsgs, At, Slot

\* The lengths of a line are naturals.
LEMMA Lengths ==
  ASSUME StayInv, NEW c \in Chans
  PROVE  /\ Len(accepted[c]) \in Nat /\ Len(delivered[c]) \in Nat /\ qlen[c] \in Nat
         /\ Len(waiting[c]["sendq"]) \in Nat
<1>1. DataOK /\ TypeOK /\ "sendq" \in Queues
  BY StayWaitInv DEF Queues
<1>2. accepted[c] \in Seq(Elems) /\ delivered[c] \in Seq(Elems) /\ waiting[c]["sendq"] \in Seq(Threads)
  BY <1>1 DEF DataOK
<1> QED BY <1>1, <1>2 DEF TypeOK

\* A step leaves the messages of parked senders alone.
KeepsHeld == \A u \in Producers : elem'[u] = elem[u] \/ pc[u] \notin Queues

\* A parked sender keeps its message.
LEMMA HeldSame ==
  ASSUME StayInv, KeepsHeld, NEW c \in Chans, ~Cancelled(c), NEW i \in 1..Len(waiting[c]["sendq"])
  PROVE  elem'[waiting[c]["sendq"][i]] = elem[waiting[c]["sendq"][i]]
<1>1. PICK u : u = waiting[c]["sendq"][i]
  OBVIOUS
<1>2. "sendq" \in Queues /\ ClosedDone /\ MembersOK /\ DataOK
  BY StayWaitInv DEF Queues, WaitInv, QueuesOK
<1>3. Waits(u, c, "sendq") /\ Len(waiting[c]["sendq"]) # 0 /\ u \in Threads
  <2>1. waiting[c]["sendq"] \in Seq(Threads) /\ i \in 1..Len(waiting[c]["sendq"])
    BY <1>2 DEF DataOK
  <2>2. u \in Threads /\ Len(waiting[c]["sendq"]) # 0
    BY <1>1, <2>1
  <2> QED BY <1>1, <2>1, <2>2 DEF Waits
<1>4. ~closed[c]
  BY <1>2, <1>3 DEF Cancelled, ClosedDone
<1>5. u \in Producers /\ pc[u] = "sendq"
  BY <1>2, <1>3, <1>4 DEF MembersOK, Role
<1> QED BY <1>1, <1>2, <1>5 DEF KeepsHeld

\* A step that has nothing to do with c.
Unmoved(c) ==
  /\ accepted'[c] = accepted[c] /\ delivered'[c] = delivered[c] /\ SameBuffer(c)
  /\ waiting'[c]["sendq"] = waiting[c]["sendq"]

\* The order on a channel that a step has nothing to do with.
LEMMA UnmovedOrder ==
  ASSUME StayInv, KeepsHeld, NEW c \in Chans, ~Cancelled(c), InOrder(c), Unmoved(c)
  PROVE  InOrder(c)'
<1>1. PICK B, P, B2, P2 : B = Buffered(c) /\ P = ParkedMsgs(c) /\ B2 = Buffered(c)'
                          /\ P2 = ParkedMsgs(c)'
  OBVIOUS
<1>2. SameUpTo(B, B2, qlen[c])
  BY <1>1, Members DEF SameUpTo, Unmoved, SameBuffer
<1>3. SameUpTo(P, P2, Len(waiting[c]["sendq"]))
  BY <1>1, Members, HeldSame DEF SameUpTo, Unmoved
<1>4. Line(accepted[c], Len(accepted[c]), delivered[c], Len(delivered[c]),
           B2, qlen[c], P2, Len(waiting[c]["sendq"]))
  BY <1>1, <1>2, <1>3, Lengths, LineSame DEF InOrder
<1> QED BY <1>1, <1>4 DEF InOrder, Unmoved, SameBuffer

\* A thread's step on its own channel.
LEMMA ThreadOrder ==
  ASSUME StayInv, OrderInv, closed' = closed, KeepsHeld, NEW c \in Chans,
         \A d \in Chans : d # c => Unmoved(d),
         ~Cancelled(c) /\ InOrder(c) => InOrder(c)'
  PROVE  OrderInv'
<1> SUFFICES ASSUME NEW d \in Chans, ~Cancelled(d)' PROVE InOrder(d)'
  BY DEF OrderInv
<1>1. ~Cancelled(d) /\ InOrder(d)
  BY DEF OrderInv, Cancelled
<1> QED BY <1>1, UnmovedOrder

\* The order after a step that moves no message.
LEMMA QuietOrder ==
  ASSUME StayInv, OrderInv, KeepsHeld, UNCHANGED <<accepted, delivered, qlen, recvx, buf>>,
         \A d \in Chans : waiting'[d]["sendq"] = waiting[d]["sendq"],
         \A d \in Chans : closed[d] => closed'[d]
  PROVE  OrderInv'
<1> SUFFICES ASSUME NEW d \in Chans, ~Cancelled(d)' PROVE InOrder(d)'
  BY DEF OrderInv
<1>1. ~Cancelled(d) /\ InOrder(d)
  BY DEF OrderInv, Cancelled
<1>2. Unmoved(d)
  BY SameBufferStep DEF Unmoved
<1> QED BY <1>1, <1>2, UnmovedOrder

\* A message is appended to the history of one channel.
LEMMA AcceptLonger ==
  ASSUME DataOK, NEW c \in Chans, NEW m \in Elems,
         accepted' = [accepted EXCEPT ![c] = Append(@, m)]
  PROVE  /\ Longer(accepted[c], accepted'[c], Len(accepted[c]), m)
         /\ Len(accepted'[c]) = Len(accepted[c]) + 1
         /\ \A d \in Chans : d # c => accepted'[d] = accepted[d]
<1>1. accepted \in [Chans -> Seq(Elems)]
  BY DEF DataOK
<1>2. /\ Len(accepted'[c]) = Len(accepted[c]) + 1
      /\ \A k \in 1..Len(accepted[c]) : accepted'[c][k] = accepted[c][k]
      /\ accepted'[c][Len(accepted[c]) + 1] = m
      /\ \A d \in Chans : d # c => accepted'[d] = accepted[d]
  BY <1>1, AppendAt
<1> QED BY <1>2 DEF Longer

\* chan_recv delivers behind what was delivered.
LEMMA DeliverLonger ==
  ASSUME DataOK, NEW c \in Chans, NEW m \in Elems,
         delivered' = [delivered EXCEPT ![c] = Append(@, m)]
  PROVE  /\ Longer(delivered[c], delivered'[c], Len(delivered[c]), m)
         /\ Len(delivered'[c]) = Len(delivered[c]) + 1
         /\ \A d \in Chans : d # c => delivered'[d] = delivered[d]
<1>1. delivered \in [Chans -> Seq(Elems)]
  BY DEF DataOK
<1>2. /\ Len(delivered'[c]) = Len(delivered[c]) + 1
      /\ \A k \in 1..Len(delivered[c]) : delivered'[c][k] = delivered[c][k]
      /\ delivered'[c][Len(delivered[c]) + 1] = m
      /\ \A d \in Chans : d # c => delivered'[d] = delivered[d]
  BY <1>1, AppendAt
<1> QED BY <1>2 DEF Longer

\* A sender hands its message to a receiver: nothing is buffered, nobody parked.
LEMMA SendDirectOrder ==
  ASSUME LineInv, NEW t \in Threads, SendDirect(t)
  PROVE  OrderInv'
<1>0. StayInv /\ OrderInv /\ FlowInv /\ IInv /\ TypeOK /\ DataOK /\ ListsOK /\ "sendq" \in Queues
      /\ "recvq" \in Queues
  BY FlowStay DEF LineInv, Queues
<1>1. PICK c \in Chans : c = ch[t]
  BY <1>0 DEF TypeOK
<1>2. PICK m, r : m = elem[t] /\ r = first[c]["recvq"]
  OBVIOUS
<1>3. /\ ~closed[c] /\ closed' = closed /\ elem' = elem
      /\ \A d \in Chans, q \in Queues : (d # c \/ q # "recvq") => waiting'[d][q] = waiting[d][q]
  <2>1. closed' = closed
    BY DEF SendDirect, chanVars
  <2> QED BY <1>0, <1>1, <1>2, <2>1, FirstReceiver
<1>4. KeepsHeld
  BY <1>3 DEF KeepsHeld
<1>5. /\ m \in Elems /\ first[c]["recvq"] # NULL
      /\ accepted' = [accepted EXCEPT ![c] = Append(@, m)]
      /\ delivered' = [delivered EXCEPT ![c] = Append(@, m)]
  BY <1>0, <1>1, <1>2, SenderReady DEF SendDirect, Accept, Deliver
<1>6. qlen[c] = 0 /\ first[c]["sendq"] = NULL
  BY <1>0, <1>1, <1>3, <1>5 DEF IInv, NoMissedMeeting
<1>7. Len(waiting[c]["sendq"]) = 0
  BY <1>0, <1>6 DEF ListsOK, ListAt
<1>8. \A d \in Chans : SameBuffer(d) /\ waiting'[d]["sendq"] = waiting[d]["sendq"]
  BY <1>0, <1>1, <1>3, SendDirectOut
<1>9. /\ Longer(accepted[c], accepted'[c], Len(accepted[c]), m)
      /\ Len(accepted'[c]) = Len(accepted[c]) + 1
      /\ Longer(delivered[c], delivered'[c], Len(delivered[c]), m)
      /\ Len(delivered'[c]) = Len(delivered[c]) + 1
      /\ \A d \in Chans : d # c => accepted'[d] = accepted[d] /\ delivered'[d] = delivered[d]
  BY <1>0, <1>5, AcceptLonger, DeliverLonger
<1>10. ASSUME InOrder(c) PROVE InOrder(c)'
  <2>1. PICK B, P, B2, P2 : B = Buffered(c) /\ P = ParkedMsgs(c) /\ B2 = Buffered(c)'
                            /\ P2 = ParkedMsgs(c)'
    OBVIOUS
  <2>2. Line(accepted[c], Len(accepted[c]), delivered[c], Len(delivered[c]), B, 0, P, 0)
    BY <1>6, <1>7, <1>10, <2>1 DEF InOrder
  <2>3. Line(accepted'[c], Len(accepted[c]) + 1, delivered'[c], Len(delivered[c]) + 1, B2, 0, P2, 0)
    BY <1>0, <1>9, <2>2, Lengths, LineThrough
  <2>4. qlen'[c] = 0 /\ Len(waiting'[c]["sendq"]) = 0
    BY <1>6, <1>7, <1>8 DEF SameBuffer
  <2> QED BY <1>9, <2>1, <2>3, <2>4 DEF InOrder
<1> QED BY <1>0, <1>3, <1>4, <1>8, <1>9, <1>10, ThreadOrder DEF Unmoved

\* A send into the ring puts its message at the end of the line: nobody is parked.
LEMMA SendBufferOrder ==
  ASSUME LineInv, NEW t \in Threads, SendBuffer(t)
  PROVE  OrderInv'
<1>0. StayInv /\ OrderInv /\ FlowInv /\ IInv /\ TypeOK /\ DataOK /\ ListsOK /\ "sendq" \in Queues
  BY FlowStay DEF LineInv, Queues
<1>1. PICK c \in Chans : c = ch[t]
  BY <1>0 DEF TypeOK
<1>2. PICK m : m = elem[t]
  OBVIOUS
<1>3. ~closed[c] /\ closed' = closed /\ waiting' = waiting /\ elem' = elem /\ delivered' = delivered
  BY <1>1 DEF SendBuffer, queueVars
<1>4. KeepsHeld
  BY <1>3 DEF KeepsHeld
<1>5. m \in Elems /\ accepted' = [accepted EXCEPT ![c] = Append(@, m)] /\ qlen[c] < Cap[c]
  BY <1>0, <1>1, <1>2, SenderReady DEF SendBuffer, Accept
<1>6. first[c]["sendq"] = NULL /\ qlen[c] \in Nat /\ Cap[c] \in Nat
  BY <1>0, <1>1, <1>3, <1>5, ChanAssumptions DEF IInv, NoMissedMeeting, TypeOK
<1>7. Len(waiting[c]["sendq"]) = 0
  BY <1>0, <1>6 DEF ListsOK, ListAt
<1>8. Pushed(c, m) /\ \A d \in Chans : d # c => SameBuffer(d)
  BY <1>0, <1>1, <1>2, SendBufferEffect
<1>9. /\ Longer(accepted[c], accepted'[c], Len(accepted[c]), m)
      /\ Len(accepted'[c]) = Len(accepted[c]) + 1
      /\ \A d \in Chans : d # c => accepted'[d] = accepted[d]
  BY <1>0, <1>5, AcceptLonger, DeliverLonger
<1>10. ASSUME InOrder(c) PROVE InOrder(c)'
  <2>1. PICK B, P, B2, P2 : B = Buffered(c) /\ P = ParkedMsgs(c) /\ B2 = Buffered(c)'
                            /\ P2 = ParkedMsgs(c)'
    OBVIOUS
  <2>2. Line(accepted[c], Len(accepted[c]), delivered[c], Len(delivered[c]), B, qlen[c], P, 0)
    BY <1>7, <1>10, <2>1 DEF InOrder
  <2>3. Longer(B, B2, qlen[c], m) /\ qlen'[c] = qlen[c] + 1
    <3>1. qlen'[c] = qlen[c] + 1 /\ qlen[c] + 1 \in 1..qlen'[c]
      BY <1>6, <1>8 DEF Pushed
    <3>2. \A k \in 1..qlen[c] : k \in 1..qlen'[c] /\ At(c, k)' = At(c, k)
      BY <1>6, <1>8, <3>1 DEF Pushed
    <3>3. \A k \in 1..qlen'[c] : k = qlen[c] + 1 => B2[k] = m
      BY <1>8, <2>1, <3>1, Members DEF Pushed
    <3>4. \A k \in 1..qlen[c] : B2[k] = B[k]
      BY <2>1, <3>2, Members
    <3> QED BY <3>1, <3>3, <3>4 DEF Longer
  <2>4. Line(accepted'[c], Len(accepted[c]) + 1, delivered[c], Len(delivered[c]), B2, qlen[c] + 1, P2, 0)
    BY <1>0, <1>9, <2>2, <2>3, Lengths, LineStore
  <2> QED BY <1>3, <1>7, <1>9, <2>1, <2>3, <2>4 DEF InOrder
<1> QED BY <1>0, <1>3, <1>4, <1>8, <1>9, <1>10, ThreadOrder DEF Unmoved

\* A sender parks behind the senders that are parked.
LEMMA SendParkOrder ==
  ASSUME LineInv, NEW t \in Threads, SendBlocked(t), pc[t] = "send"
  PROVE  OrderInv'
<1>0. StayInv /\ OrderInv /\ FlowInv /\ IInv /\ TypeOK /\ DataOK /\ "sendq" \in Queues
  BY FlowStay DEF LineInv, Queues
<1>1. PICK c \in Chans : c = ch[t]
  BY <1>0 DEF TypeOK
<1>2. PICK m : m = elem[t]
  OBVIOUS
<1>3. /\ ~closed[c] /\ UNCHANGED <<closed, elem, delivered, qlen, recvx, buf>>
      /\ accepted' = [accepted EXCEPT ![c] = Append(@, m)] /\ Enqueue(c, "sendq", t)
  BY <1>1, <1>2 DEF SendBlocked, chanVars, Park, Accept
<1>4. KeepsHeld /\ \A d \in Chans : SameBuffer(d)
  BY <1>3, SameBufferStep DEF KeepsHeld
<1>5. m \in Elems
  BY <1>0, <1>1, <1>2, <1>3, SenderReady DEF SendBlocked
<1>6. /\ Len(waiting'[c]["sendq"]) = Len(waiting[c]["sendq"]) + 1
      /\ Len(waiting[c]["sendq"]) \in Nat
      /\ \A i \in 1..Len(waiting[c]["sendq"]) : waiting'[c]["sendq"][i] = waiting[c]["sendq"][i]
      /\ waiting'[c]["sendq"][Len(waiting[c]["sendq"]) + 1] = t
      /\ \A d \in Chans : d # c => waiting'[d]["sendq"] = waiting[d]["sendq"]
  BY <1>0, <1>3, EnqueueWaiting
<1>9. /\ Longer(accepted[c], accepted'[c], Len(accepted[c]), m)
      /\ Len(accepted'[c]) = Len(accepted[c]) + 1
      /\ \A d \in Chans : d # c => accepted'[d] = accepted[d]
  BY <1>0, <1>3, <1>5, AcceptLonger, DeliverLonger
<1>10. ASSUME InOrder(c) PROVE InOrder(c)'
  <2> DEFINE p == Len(waiting[c]["sendq"])
  <2>1. PICK B, P, B2, P2 : B = Buffered(c) /\ P = ParkedMsgs(c) /\ B2 = Buffered(c)'
                            /\ P2 = ParkedMsgs(c)'
    OBVIOUS
  <2>2. Line(accepted[c], Len(accepted[c]), delivered[c], Len(delivered[c]), B, qlen[c], P, p)
    BY <1>10, <2>1 DEF InOrder
  <2>3. SameUpTo(B, B2, qlen[c]) /\ qlen'[c] = qlen[c]
    BY <1>4, <2>1, Members DEF SameUpTo, SameBuffer
  <2>4. Longer(P, P2, p, m)
    <3>1. \A k \in 1..(p + 1) : P2[k] = elem[waiting'[c]["sendq"][k]]
      BY <1>3, <1>6, <2>1, Members
    <3>2. \A k \in 1..p : P[k] = elem[waiting[c]["sendq"][k]]
      BY <2>1, Members
    <3>3. p + 1 \in 1..(p + 1) /\ \A k \in 1..p : k \in 1..(p + 1)
      BY <1>6
    <3>4. P2[p + 1] = m
      BY <1>2, <1>6, <3>1, <3>3
    <3>5. \A k \in 1..p : P2[k] = P[k]
      BY <1>6, <3>1, <3>2, <3>3, SMTT(30)
    <3> QED BY <3>4, <3>5 DEF Longer
  <2>5. Line(accepted'[c], Len(accepted[c]) + 1, delivered[c], Len(delivered[c]), B2, qlen[c], P2, p + 1)
    BY <1>0, <1>9, <2>2, <2>3, <2>4, Lengths, LinePark
  <2> QED BY <1>3, <1>6, <1>9, <2>1, <2>3, <2>5 DEF InOrder
<1> QED BY <1>0, <1>3, <1>4, <1>6, <1>9, <1>10, ThreadOrder DEF Unmoved

\* A receive from a parked sender takes the head of the line.
LEMMA RecvDirectOrder ==
  ASSUME LineInv, NEW t \in Threads, RecvDirect(t)
  PROVE  OrderInv'
<1>0. StayInv /\ OrderInv /\ FlowInv /\ IInv /\ TypeOK /\ DataOK /\ "sendq" \in Queues
  BY FlowStay DEF LineInv, Queues
<1>1. PICK c \in Chans : c = ch[t]
  BY <1>0 DEF TypeOK
<1>2. PICK s : s = first[c]["sendq"]
  OBVIOUS
<1>3. PICK m : m = elem[s]
  OBVIOUS
<1> DEFINE p == Len(waiting[c]["sendq"])
<1>4. /\ s \in Threads /\ m \in Elems
      /\ p \in Nat /\ p > 0 /\ s = waiting[c]["sendq"][1]
      /\ Len(waiting'[c]["sendq"]) = p - 1
      /\ \A i \in 1..(p - 1) : waiting'[c]["sendq"][i] = waiting[c]["sendq"][i + 1]
      /\ \A d \in Chans : d # c => waiting'[d]["sendq"] = waiting[d]["sendq"]
  BY <1>0, <1>1, <1>2, <1>3, FirstSender, SMTT(30)
<1>5. closed' = closed /\ accepted' = accepted /\ elem' = elem
  BY DEF RecvDirect, chanVars
<1>6. KeepsHeld
  BY <1>5 DEF KeepsHeld
<1>7. PICK B, P, B2, P2 : B = Buffered(c) /\ P = ParkedMsgs(c) /\ B2 = Buffered(c)'
                          /\ P2 = ParkedMsgs(c)'
  OBVIOUS
<1>8. P[1] = m /\ (~Cancelled(c) => Shifted(P, P2, p))
  <2>1. 1 \in 1..p /\ \A k \in 1..(p - 1) : k + 1 \in 1..p
    BY <1>4
  <2>2. P[1] = m
    BY <1>3, <1>4, <1>7, <2>1, Members
  <2>3. ASSUME ~Cancelled(c), NEW k \in 1..(p - 1) PROVE P2[k] = P[k + 1]
    <3>1. P2[k] = elem'[waiting[c]["sendq"][k + 1]]
      BY <1>4, <1>7, Members, SMTT(30)
    <3>2. elem'[waiting[c]["sendq"][k + 1]] = elem[waiting[c]["sendq"][k + 1]]
      BY <1>0, <1>6, <2>1, <2>3, HeldSame
    <3>3. P[k + 1] = elem[waiting[c]["sendq"][k + 1]]
      BY <1>7, <2>1, Members
    <3> QED BY <3>1, <3>2, <3>3
  <2> QED BY <2>2, <2>3 DEF Shifted
<1>9. CASE TakeSenders(c)
  <2>1. /\ delivered' = [delivered EXCEPT ![c] = Append(@, m)]
        /\ qlen[c] = 0 /\ UNCHANGED <<qlen, recvx, buf>>
    BY <1>1, <1>2, <1>3, <1>9 DEF RecvDirect, Deliver, chanVars, TakeSenders
  <2>2. /\ Longer(delivered[c], delivered'[c], Len(delivered[c]), P[1])
        /\ Len(delivered'[c]) = Len(delivered[c]) + 1
        /\ \A d \in Chans : d # c => delivered'[d] = delivered[d]
    BY <1>0, <1>4, <1>8, <2>1, AcceptLonger, DeliverLonger
  <2>3. ASSUME ~Cancelled(c), InOrder(c) PROVE InOrder(c)'
    <3>1. Line(accepted[c], Len(accepted[c]), delivered[c], Len(delivered[c]), B, 0, P, p)
      BY <1>7, <2>1, <2>3 DEF InOrder
    <3>2. Line(accepted[c], Len(accepted[c]), delivered'[c], Len(delivered[c]) + 1, B2, 0, P2, p - 1)
      BY <1>0, <1>4, <1>8, <2>2, <2>3, <3>1, Lengths, LineTake
    <3> QED BY <1>4, <1>5, <1>7, <2>1, <2>2, <3>2 DEF InOrder
  <2>4. \A d \in Chans : SameBuffer(d)
    BY <2>1, SameBufferStep
  <2> QED BY <1>0, <1>4, <1>5, <1>6, <2>2, <2>3, <2>4, ThreadOrder DEF Unmoved
<1>10. CASE ~TakeSenders(c)
  <2>1. /\ Swapped(c, m) /\ buf[c][recvx[c]] = At(c, 1)
        /\ \A d \in Chans : d # c => SameBuffer(d)
    BY <1>0, <1>1, <1>2, <1>3, <1>10, RecvSwapEffect
  <2>2. qlen[c] \in Nat /\ qlen[c] > 0 /\ qlen'[c] = qlen[c] /\ 1 \in 1..qlen[c]
    BY <1>0, <2>1, SMTT(30) DEF Swapped, TypeOK
  <2>3. B[1] = At(c, 1) /\ delivered' = [delivered EXCEPT ![c] = Append(@, B[1])]
    BY <1>1, <1>2, <1>7, <1>10, <2>1, <2>2, Members DEF RecvDirect, Deliver
  <2>4. B[1] \in Elems
    <3>1. qlen[c] <= Cap[c] /\ Cap[c] \in Nat
          /\ \A i \in 1..Cap[c] : Slot(c, i) \in 0..(Cap[c] - 1)
      BY <1>0, SlotRange
    <3>2. Slot(c, 1) \in 0..(Cap[c] - 1)
      BY <2>2, <3>1
    <3> QED BY <1>0, <2>3, <3>2 DEF DataOK, At
  <2>5. /\ Longer(delivered[c], delivered'[c], Len(delivered[c]), B[1])
        /\ Len(delivered'[c]) = Len(delivered[c]) + 1
        /\ \A d \in Chans : d # c => delivered'[d] = delivered[d]
    BY <1>0, <2>3, <2>4, AcceptLonger, DeliverLonger
  <2>6. Shifted(B, B2, qlen[c]) /\ B2[qlen[c]] = P[1]
    <3>1. \A k \in 1..(qlen[c] - 1) : k \in 1..qlen[c] /\ k + 1 \in 1..qlen[c]
      BY <2>2
    <3>2. \A k \in 1..(qlen[c] - 1) : B2[k] = B[k + 1]
      BY <1>7, <2>1, <2>2, <3>1, Members DEF Swapped
    <3>3. \A k \in 1..qlen[c] : k = qlen[c] => B2[k] = m
      BY <1>7, <2>1, <2>2, Members DEF Swapped
    <3> QED BY <1>8, <2>2, <3>2, <3>3 DEF Shifted
  <2>7. ASSUME ~Cancelled(c), InOrder(c) PROVE InOrder(c)'
    <3>1. Line(accepted[c], Len(accepted[c]), delivered[c], Len(delivered[c]), B, qlen[c], P, p)
      BY <1>7, <2>7 DEF InOrder
    <3>2. Line(accepted[c], Len(accepted[c]), delivered'[c], Len(delivered[c]) + 1, B2, qlen[c], P2, p - 1)
      BY <1>0, <1>4, <1>8, <2>2, <2>5, <2>6, <2>7, <3>1, Lengths, LineSwap
    <3> QED BY <1>4, <1>5, <1>7, <2>2, <2>5, <3>2 DEF InOrder
  <2> QED BY <1>0, <1>4, <1>5, <1>6, <2>1, <2>5, <2>7, ThreadOrder DEF Unmoved
<1> QED BY <1>9, <1>10

\* A receive from the ring takes the head of the line.
LEMMA RecvBufferOrder ==
  ASSUME LineInv, NEW t \in Threads, RecvBuffer(t)
  PROVE  OrderInv'
<1>0. StayInv /\ OrderInv /\ FlowInv /\ IInv /\ TypeOK /\ DataOK
  BY FlowStay DEF LineInv
<1>1. PICK c \in Chans : c = ch[t]
  BY <1>0 DEF TypeOK
<1>2. closed' = closed /\ accepted' = accepted /\ waiting' = waiting /\ elem' = elem
  BY DEF RecvBuffer, queueVars
<1>3. KeepsHeld
  BY <1>2 DEF KeepsHeld
<1>4. PICK B, P, B2, P2 : B = Buffered(c) /\ P = ParkedMsgs(c) /\ B2 = Buffered(c)'
                          /\ P2 = ParkedMsgs(c)'
  OBVIOUS
<1>5. Popped(c) /\ buf[c][recvx[c]] = At(c, 1) /\ \A d \in Chans : d # c => SameBuffer(d)
  BY <1>0, <1>1, RecvBufferEffect
<1>6. qlen[c] \in Nat /\ qlen[c] > 0 /\ qlen'[c] = qlen[c] - 1 /\ 1 \in 1..qlen[c]
  BY <1>0, <1>5 DEF Popped, TypeOK
<1>7. B[1] = At(c, 1) /\ delivered' = [delivered EXCEPT ![c] = Append(@, B[1])]
  BY <1>1, <1>4, <1>5, <1>6, Members DEF RecvBuffer, Deliver
<1>8. B[1] \in Elems
  <2>1. qlen[c] <= Cap[c] /\ Cap[c] \in Nat
        /\ \A i \in 1..Cap[c] : Slot(c, i) \in 0..(Cap[c] - 1)
    BY <1>0, SlotRange
  <2>2. Slot(c, 1) \in 0..(Cap[c] - 1)
    BY <1>6, <2>1
  <2> QED BY <1>0, <1>7, <2>2 DEF DataOK, At
<1>9. /\ Longer(delivered[c], delivered'[c], Len(delivered[c]), B[1])
      /\ Len(delivered'[c]) = Len(delivered[c]) + 1
      /\ \A d \in Chans : d # c => delivered'[d] = delivered[d]
  BY <1>0, <1>7, <1>8, AcceptLonger, DeliverLonger
<1>10. Shifted(B, B2, qlen[c])
  <2>1. \A k \in 1..(qlen[c] - 1) : k + 1 \in 1..qlen[c]
    BY <1>6
  <2> QED BY <1>4, <1>5, <1>6, <2>1, Members DEF Popped, Shifted
<1>11. ASSUME ~Cancelled(c), InOrder(c) PROVE InOrder(c)'
  <2> DEFINE p == Len(waiting[c]["sendq"])
  <2>1. SameUpTo(P, P2, p)
    BY <1>0, <1>2, <1>3, <1>4, <1>11, Members, HeldSame DEF SameUpTo
  <2>2. Line(accepted[c], Len(accepted[c]), delivered[c], Len(delivered[c]), B, qlen[c], P, p)
    BY <1>4, <1>11 DEF InOrder
  <2>3. Line(accepted[c], Len(accepted[c]), delivered'[c], Len(delivered[c]) + 1, B2, qlen[c] - 1, P2, p)
    BY <1>0, <1>6, <1>9, <1>10, <2>1, <2>2, Lengths, LineLeave
  <2> QED BY <1>2, <1>4, <1>6, <1>9, <2>3 DEF InOrder
<1> QED BY <1>0, <1>2, <1>3, <1>5, <1>9, <1>11, ThreadOrder DEF Unmoved

-----------------------------------------------------------------------------
\* Hands.  Consumer t has x as its i-th message, returned or about to be.
HandAt(t, i, x) ==
  \/ i \in 1..Len(recvd[t]) /\ recvd[t][i] = x
  \/ i = Len(recvd[t]) + 1 /\ InHand(t) /\ x = into[t]

\* Every message that was delivered is in one hand, once, and no other is.
HandsInv ==
  /\ \A t \in Consumers, i \in Nat : \A x : HandAt(t, i, x) => \E c \in Chans : Delivered(x, c)
  /\ \A c \in Chans : \A x : Delivered(x, c) => \E t \in Consumers, i \in Nat : HandAt(t, i, x)
  /\ \A t, u \in Consumers, i, j \in Nat : \A x :
       HandAt(t, i, x) /\ HandAt(u, j, x) => t = u /\ i = j

\* A member of a sequence has a position.
LEMMA RangeWaits ==
  ASSUME NEW S, NEW s \in Seq(S), NEW x
  PROVE  x \in Range(s) <=> \E i \in 1..Len(s) : s[i] = x
BY DEF Range

\* A hand with nothing in it, or with what was transferred directly.
InHandOf(t) == pc[t] = "recvsignal" \/ (pc[t] = "recvq" /\ ~Waits(t, ch[t], "recvq"))

\* InHand, by what the structure says of the thread.
LEMMA HandOf ==
  ASSUME TypeOK, DataOK, NEW t \in Threads
  PROVE  InHand(t) <=> InHandOf(t)
<1>1. waiting[ch[t]]["recvq"] \in Seq(Threads)
  BY DEF TypeOK, DataOK, Queues
<1>2. t \in Range(waiting[ch[t]]["recvq"]) <=> Waits(t, ch[t], "recvq")
  BY <1>1, RangeWaits DEF Waits
<1> QED BY <1>2 DEF InHand, InHandOf

\* The same in the next state.
LEMMA HandOfNext ==
  ASSUME TypeOK', DataOK', NEW t \in Threads
  PROVE  InHand(t)' <=> InHandOf(t)'
<1>1. waiting'[ch'[t]]["recvq"] \in Seq(Threads)
  BY DEF TypeOK, DataOK, Queues
<1>2. t \in Range(waiting'[ch'[t]]["recvq"]) <=>
        \E i \in 1..Len(waiting'[ch'[t]]["recvq"]) : waiting'[ch'[t]]["recvq"][i] = t
  BY <1>1, RangeWaits
<1> QED BY <1>2 DEF InHand, InHandOf, Waits

\* A step that leaves the hand of u alone.
KeepsHand(u) == \A i \in Nat : \A x : HandAt(u, i, x)' <=> HandAt(u, i, x)

\* A consumer that a step leaves alone holds what it held.
LEMMA HandKept ==
  ASSUME TypeOK, DataOK, TypeOK', DataOK', NEW u \in Consumers,
         recvd'[u] = recvd[u], InHandOf(u)' <=> InHandOf(u), InHandOf(u) => into'[u] = into[u]
  PROVE  KeepsHand(u)
<1>1. u \in Threads
  BY DEF Threads
<1>2. (InHand(u) <=> InHandOf(u)) /\ (InHand(u)' <=> InHandOf(u)')
  BY <1>1, HandOf, HandOfNext
<1> QED BY <1>2 DEF KeepsHand, HandAt

\* What was in the hand is returned.
LEMMA HandReturned ==
  ASSUME TypeOK, DataOK, TypeOK', DataOK', NEW u \in Consumers,
         recvd' = [recvd EXCEPT ![u] = Append(@, into[u])], InHandOf(u), ~InHandOf(u)'
  PROVE  KeepsHand(u) /\ \A v \in Consumers : v # u => recvd'[v] = recvd[v]
<1>1. u \in Threads /\ recvd \in [Consumers -> Seq(Elems)] /\ into[u] \in Elems
  BY DEF Threads, DataOK
<1>2. (InHand(u) <=> InHandOf(u)) /\ (InHand(u)' <=> InHandOf(u)')
  BY <1>1, HandOf, HandOfNext
<1>3. /\ Len(recvd[u]) \in Nat /\ Len(recvd'[u]) = Len(recvd[u]) + 1
      /\ \A k \in 1..Len(recvd[u]) : recvd'[u][k] = recvd[u][k]
      /\ recvd'[u][Len(recvd[u]) + 1] = into[u]
      /\ \A v \in Consumers : v # u => recvd'[v] = recvd[v]
  BY <1>1, AppendAt
<1>4. ASSUME NEW i \in Nat, NEW x PROVE HandAt(u, i, x)' <=> HandAt(u, i, x)
  <2>1. HandAt(u, i, x)' <=> i \in 1..(Len(recvd[u]) + 1) /\ recvd'[u][i] = x
    BY <1>2, <1>3 DEF HandAt
  <2>2. i \in 1..(Len(recvd[u]) + 1) <=> i \in 1..Len(recvd[u]) \/ i = Len(recvd[u]) + 1
    BY <1>3
  <2> QED BY <1>2, <1>3, <2>1, <2>2 DEF HandAt
<1> QED BY <1>3, <1>4 DEF KeepsHand

\* A step that changes no hand delivers nothing.
LEMMA HandsSame ==
  ASSUME HandsInv, \A u \in Consumers : KeepsHand(u),
         \A c \in Chans : \A x : Delivered(x, c)' <=> Delivered(x, c)
  PROVE  HandsInv'
BY DEF HandsInv, KeepsHand

\* A message that was not delivered before comes into the hand of u.
Gains(u, m) ==
  \E k \in Nat : \A i \in Nat : \A x : HandAt(u, i, x)' <=> (HandAt(u, i, x) \/ (i = k /\ x = m))

\* A step that delivers one fresh message into one hand.
LEMMA HandsGain ==
  ASSUME HandsInv, NEW u \in Consumers, NEW m, NEW c \in Chans, Gains(u, m),
         \A v \in Consumers : v # u => KeepsHand(v),
         \A d \in Chans : ~Delivered(m, d),
         \A x : \A d \in Chans : Delivered(x, d)' <=> (Delivered(x, d) \/ (d = c /\ x = m))
  PROVE  HandsInv'
<1>1. PICK k \in Nat : \A i \in Nat : \A x : HandAt(u, i, x)' <=> (HandAt(u, i, x) \/ (i = k /\ x = m))
  BY DEF Gains
<1>2. ASSUME NEW v \in Consumers, NEW i \in Nat, NEW x
      PROVE  HandAt(v, i, x)' <=> (HandAt(v, i, x) \/ (v = u /\ i = k /\ x = m))
  BY <1>1 DEF KeepsHand
<1>3. \A v \in Consumers, i \in Nat : ~HandAt(v, i, m)
  BY DEF HandsInv
<1>4. \A v \in Consumers, i \in Nat : \A x : HandAt(v, i, x)' => \E d \in Chans : Delivered(x, d)'
  BY <1>2 DEF HandsInv
<1>5. \A d \in Chans : \A x : Delivered(x, d)' => \E v \in Consumers, i \in Nat : HandAt(v, i, x)'
  <2> SUFFICES ASSUME NEW d \in Chans, NEW x, Delivered(x, d)'
               PROVE  \E v \in Consumers, i \in Nat : HandAt(v, i, x)'
    OBVIOUS
  <2>1. CASE Delivered(x, d)
    <3>1. PICK v \in Consumers, i \in Nat : HandAt(v, i, x)
      BY <2>1 DEF HandsInv
    <3> QED BY <1>2, <3>1
  <2>2. CASE x = m
    BY <1>1, <2>2
  <2> QED BY <2>1, <2>2
<1>6. \A v, w \in Consumers, i, j \in Nat : \A x :
        HandAt(v, i, x)' /\ HandAt(w, j, x)' => v = w /\ i = j
  <2> SUFFICES ASSUME NEW v \in Consumers, NEW w \in Consumers, NEW i \in Nat, NEW j \in Nat, NEW x,
                      HandAt(v, i, x)', HandAt(w, j, x)'
               PROVE  v = w /\ i = j
    OBVIOUS
  <2>1. /\ HandAt(v, i, x) \/ (v = u /\ i = k /\ x = m)
        /\ HandAt(w, j, x) \/ (w = u /\ j = k /\ x = m)
    BY <1>2
  <2> QED BY <1>3, <2>1 DEF HandsInv
<1> QED BY <1>4, <1>5, <1>6 DEF HandsInv

\* A direct transfer into an empty hand.
LEMMA HandFilled ==
  ASSUME TypeOK, DataOK, TypeOK', DataOK', NEW u \in Consumers, NEW m,
         recvd' = recvd, ~InHandOf(u), InHandOf(u)', into'[u] = m
  PROVE  Gains(u, m)
<1>1. u \in Threads
  BY DEF Threads
<1>2. (InHand(u) <=> InHandOf(u)) /\ (InHand(u)' <=> InHandOf(u)')
  BY <1>1, HandOf, HandOfNext
<1>3. recvd[u] \in Seq(Elems)
  BY DEF DataOK
<1>4. PICK k \in Nat : k = Len(recvd[u]) + 1
  BY <1>3
<1>5. \A i \in Nat : \A x : HandAt(u, i, x)' <=> (HandAt(u, i, x) \/ (i = k /\ x = m))
  BY <1>2, <1>4 DEF HandAt
<1> QED BY <1>4, <1>5 DEF Gains

\* A message that is returned at once.
LEMMA HandPassed ==
  ASSUME TypeOK, DataOK, TypeOK', DataOK', NEW u \in Consumers, NEW m \in Elems,
         recvd' = [recvd EXCEPT ![u] = Append(@, m)], ~InHandOf(u), ~InHandOf(u)'
  PROVE  Gains(u, m) /\ \A v \in Consumers : v # u => recvd'[v] = recvd[v]
<1>1. u \in Threads /\ recvd \in [Consumers -> Seq(Elems)]
  BY DEF Threads, DataOK
<1>2. (InHand(u) <=> InHandOf(u)) /\ (InHand(u)' <=> InHandOf(u)')
  BY <1>1, HandOf, HandOfNext
<1>3. /\ Len(recvd[u]) \in Nat /\ Len(recvd'[u]) = Len(recvd[u]) + 1
      /\ \A k \in 1..Len(recvd[u]) : recvd'[u][k] = recvd[u][k]
      /\ recvd'[u][Len(recvd[u]) + 1] = m
      /\ \A v \in Consumers : v # u => recvd'[v] = recvd[v]
  BY <1>1, AppendAt
<1>4. PICK k \in Nat : k = Len(recvd[u]) + 1
  BY <1>3
<1>5. ASSUME NEW i \in Nat, NEW x PROVE HandAt(u, i, x)' <=> (HandAt(u, i, x) \/ (i = k /\ x = m))
  <2>1. HandAt(u, i, x)' <=> i \in 1..(Len(recvd[u]) + 1) /\ recvd'[u][i] = x
    BY <1>2, <1>3 DEF HandAt
  <2>2. i \in 1..(Len(recvd[u]) + 1) <=> i \in 1..Len(recvd[u]) \/ i = Len(recvd[u]) + 1
    BY <1>3
  <2> QED BY <1>2, <1>3, <1>4, <2>1, <2>2 DEF HandAt
<1> QED BY <1>3, <1>4, <1>5 DEF Gains

AllInv == LineInv /\ HandsInv

\* The parts of the invariant, by name.
LEMMA AllStay ==
  ASSUME AllInv
  PROVE  /\ LineInv /\ HandsInv /\ FlowInv /\ StayInv /\ IInv /\ TypeOK /\ DataOK /\ WaitInv
         /\ ControlOK /\ MembersOK /\ ListsOK /\ TokensOK /\ ThrClosedOK
         /\ "sendq" \in Queues /\ "recvq" \in Queues /\ "sendq" # "recvq"
BY FlowStay DEF AllInv, LineInv, WaitInv, Queues

\* The hands of the consumers that are not the one that steps.
LEMMA OtherHand ==
  ASSUME TypeOK, DataOK, TypeOK', DataOK', NEW t \in Threads, Others(t),
         NEW u \in Consumers, u # t, recvd'[u] = recvd[u], into'[u] = into[u],
         \A d \in Chans : Waits(u, d, "recvq")' <=> Waits(u, d, "recvq")
  PROVE  KeepsHand(u)
<1>1. u \in Threads
  BY DEF Threads
<1>2. pc'[u] = pc[u] /\ ch'[u] = ch[u]
  BY <1>1 DEF Others
<1>3. PICK d \in Chans : d = ch[u]
  BY <1>1 DEF TypeOK
<1>4. InHandOf(u) <=> pc[u] = "recvsignal" \/ (pc[u] = "recvq" /\ ~Waits(u, d, "recvq"))
  BY <1>3 DEF InHandOf
<1>5. InHandOf(u)' <=> pc[u] = "recvsignal" \/ (pc[u] = "recvq" /\ ~Waits(u, d, "recvq")')
  BY <1>2, <1>3 DEF InHandOf, Waits
<1> QED BY <1>3, <1>4, <1>5, HandKept

\* Steps of t that leave the wait queue of the receivers alone.
LEMMA QuietHands ==
  ASSUME AllInv, TypeOK', DataOK', NEW t \in Threads, Others(t),
         \A u \in Consumers : u # t => recvd'[u] = recvd[u] /\ into'[u] = into[u],
         \A u \in Threads, d \in Chans : u # t =>
           (Waits(u, d, "recvq")' <=> Waits(u, d, "recvq")),
         delivered' = delivered, t \in Consumers => KeepsHand(t)
  PROVE  HandsInv'
<1>1. \A u \in Consumers : KeepsHand(u)
  BY AllStay, OtherHand DEF Threads
<1>2. \A c \in Chans : \A x : Delivered(x, c)' <=> Delivered(x, c)
  BY DEF Delivered
<1> QED BY <1>1, <1>2, AllStay, HandsSame

\* The hands after a step that moves only its own thread.
LEMMA LocalHands ==
  ASSUME AllInv, TypeOK', DataOK', NEW t \in Threads, Local(t)
  PROVE  HandsInv'
<1>1. /\ Others(t) /\ waiting' = waiting /\ delivered' = delivered /\ recvd' = recvd
      /\ \A u \in Threads : u # t => into'[u] = into[u]
  BY DEF Local, Alone
<1>2. \A u \in Threads, d \in Chans : Waits(u, d, "recvq")' <=> Waits(u, d, "recvq")
  BY <1>1 DEF Waits
<1>3. ~InHandOf(t) /\ ~InHandOf(t)'
  BY DEF Local, Alone, Busy, Queues, InHandOf, Signalling
<1>4. t \in Consumers => KeepsHand(t)
  BY <1>1, <1>3, AllStay, HandKept
<1> QED BY <1>1, <1>2, <1>4, QuietHands DEF Threads

\* The hands after a thread parks.
LEMMA ParkHands ==
  ASSUME AllInv, TypeOK', DataOK', NEW t \in Threads,
         \/ SendBlocked(t) /\ pc[t] = "send"
         \/ RecvBlocked(t) /\ pc[t] = "recv"
  PROVE  HandsInv'
<1>0. PICK c \in Chans : c = ch[t]
  BY AllStay DEF TypeOK
<1>1. PICK q \in Queues : Parks(t, q)
  BY AllStay, SendParkStruct, RecvParkStruct
<1>2. /\ Others(t) /\ delivered' = delivered /\ recvd' = recvd /\ into' = into
      /\ Enqueue(c, q, t) /\ ch'[t] = c /\ pc[t] \notin Busy /\ pc'[t] = q /\ t \in Role(q)
  BY <1>0, <1>1 DEF Parks, SendBlocked, RecvBlocked, hist
<1>3. \A d \in Chans, r \in Queues, u \in Threads :
        Waits(u, d, r)' <=> (Waits(u, d, r) \/ (u = t /\ d = c /\ r = q))
  BY <1>2, AllStay, EnqueueWaiting
<1>4. \A u \in Threads, d \in Chans : u # t =>
        (Waits(u, d, "recvq")' <=> Waits(u, d, "recvq"))
  BY <1>3, AllStay
<1>5. ~InHandOf(t)
  BY <1>2 DEF InHandOf, Busy, Queues, Signalling
<1>6. ~InHandOf(t)'
  <2>1. CASE q = "recvq"
    <3>1. Waits(t, c, "recvq")'
      BY <1>3, <2>1, AllStay
    <3>2. Waits(t, ch[t], "recvq")'
      BY <1>2, <3>1 DEF Waits
    <3> QED BY <1>2, <2>1, <3>2 DEF InHandOf
  <2>2. CASE q = "sendq"
    BY <1>2, <2>2 DEF InHandOf
  <2> QED BY <2>1, <2>2 DEF Queues
<1>7. t \in Consumers => KeepsHand(t)
  BY <1>2, <1>5, <1>6, AllStay, HandKept
<1> QED BY <1>2, <1>4, <1>7, QuietHands DEF Threads

\* The hands after a send into the ring.
LEMMA SendBufferHands ==
  ASSUME AllInv, TypeOK', DataOK', NEW t \in Threads, SendBuffer(t)
  PROVE  HandsInv'
<1>1. Alone(t)
  BY AllStay, SendBufferStruct
<1>2. /\ Others(t) /\ waiting' = waiting /\ delivered' = delivered /\ recvd' = recvd /\ into' = into
  BY <1>1 DEF Alone, SendBuffer
<1>3. \A u \in Threads, d \in Chans : Waits(u, d, "recvq")' <=> Waits(u, d, "recvq")
  BY <1>2 DEF Waits
<1>4. ~InHandOf(t) /\ ~InHandOf(t)'
  BY <1>1 DEF Alone, Busy, Queues, InHandOf, Signalling
<1>5. t \in Consumers => KeepsHand(t)
  BY <1>2, <1>4, AllStay, HandKept
<1> QED BY <1>2, <1>3, <1>5, QuietHands DEF Threads

\* The hands after a signal: the receiver returns with what it held.
LEMMA SignalHands ==
  ASSUME AllInv, TypeOK', DataOK', NEW t \in Threads, Signal(t)
  PROVE  HandsInv'
<1>1. Signals(t)
  BY AllStay, SignalStruct
<1>2. /\ Others(t) /\ waiting' = waiting /\ delivered' = delivered /\ into' = into
      /\ pc[t] \in Signalling /\ pc'[t] = "idle"
  BY <1>1 DEF Signals, Signal, Signalling
<1>3. \A u \in Threads, d \in Chans : Waits(u, d, "recvq")' <=> Waits(u, d, "recvq")
  BY <1>2 DEF Waits
<1>4. CASE pc[t] = "recvsignal"
  <2>1. InHandOf(t) /\ ~InHandOf(t)'
    BY <1>2, <1>4 DEF InHandOf
  <2>2. t \in Consumers /\ recvd' = [recvd EXCEPT ![t] = Append(@, into[t])]
    BY <1>4, AllStay DEF Signal, Received, ControlOK, ControlAt
  <2>3. KeepsHand(t) /\ \A u \in Consumers : u # t => recvd'[u] = recvd[u]
    BY <2>1, <2>2, AllStay, HandReturned
  <2> QED BY <1>2, <1>3, <2>3, QuietHands DEF Threads
<1>5. CASE pc[t] = "sendsignal"
  <2>1. ~InHandOf(t) /\ ~InHandOf(t)' /\ recvd' = recvd
    BY <1>2, <1>5 DEF InHandOf, Signal
  <2>2. t \in Consumers => KeepsHand(t)
    BY <1>2, <2>1, AllStay, HandKept
  <2> QED BY <1>2, <1>3, <2>1, <2>2, QuietHands DEF Threads
<1> QED BY <1>2, <1>4, <1>5 DEF Signalling

\* The hands after a wake-up: a served receiver returns what was transferred.
LEMMA WakeHands ==
  ASSUME AllInv, TypeOK', DataOK', NEW t \in Threads, WakeSend(t) \/ WakeRecv(t)
  PROVE  HandsInv'
<1>0. PICK c \in Chans : c = ch[t]
  BY AllStay DEF TypeOK
<1>1. Wakes(t)
  BY AllStay, WakeStruct
<1>2. /\ Others(t) /\ waiting' = waiting /\ delivered' = delivered
      /\ pc'[t] = "idle" /\ sema[t] # 0 /\ ~InHandOf(t)'
  <2>1. sema[t] # 0
    <3>1. sema[t] \in Nat /\ sema[t] > 0
      BY <1>1, AllStay DEF Wakes, TypeOK
    <3> QED BY <3>1
  <2>2. ~InHandOf(t)'
    BY <1>1 DEF Wakes, InHandOf
  <2> QED BY <1>1, <2>1, <2>2 DEF Wakes, WakeSend, WakeRecv, hist
<1>3. \A u \in Threads, d \in Chans : Waits(u, d, "recvq")' <=> Waits(u, d, "recvq")
  BY <1>2 DEF Waits
<1>4. CASE WakeSend(t)
  <2>1. into' = into /\ recvd' = recvd /\ ~InHandOf(t)
    BY <1>4 DEF WakeSend, hist, InHandOf
  <2>2. t \in Consumers => KeepsHand(t)
    BY <1>2, <2>1, AllStay, HandKept
  <2> QED BY <1>2, <1>3, <2>1, <2>2, QuietHands DEF Threads
<1>5. CASE WakeRecv(t)
  <2>1. /\ t \in Consumers /\ pc[t] = "recvq"
        /\ \A u \in Threads : u # t => into'[u] = into[u]
    BY <1>5, AllStay DEF WakeRecv, ControlOK, ControlAt, DataOK, Signalling
  <2>2. CASE thrclosed[t]
    <3>1. thrclosed[t] = TRUE
      BY <2>2, AllStay, Zenon DEF DataOK
    <3>2. Waits(t, c, "recvq")
      BY <1>0, <2>1, <3>1, AllStay DEF ThrClosedOK
    <3>3. ~InHandOf(t) /\ recvd' = recvd
      BY <1>0, <1>5, <2>1, <2>2, <3>2 DEF InHandOf, WakeRecv
    <3>4. KeepsHand(t)
      BY <1>2, <2>1, <3>3, AllStay, HandKept
    <3> QED BY <1>2, <1>3, <2>1, <3>3, <3>4, QuietHands DEF Threads
  <2>3. CASE ~thrclosed[t]
    <3>1. thrclosed[t] # TRUE
      BY <2>3, Zenon
    <3>2. ~Waits(t, c, "recvq")
      <4>1. CASE closed[c]
        BY <1>0, <2>1, <3>1, <4>1, AllStay DEF ThrClosedOK
      <4>2. CASE ~closed[c]
        BY <1>0, <1>2, <2>1, <4>2, AllStay DEF TokensOK, Served
      <4> QED BY <4>1, <4>2
    <3>3. InHandOf(t) /\ recvd' = [recvd EXCEPT ![t] = Append(@, into[t])]
      BY <1>0, <1>5, <2>1, <2>3, <3>2 DEF InHandOf, WakeRecv, Received
    <3>4. KeepsHand(t) /\ \A u \in Consumers : u # t => recvd'[u] = recvd[u]
      BY <1>2, <2>1, <3>3, AllStay, HandReturned
    <3> QED BY <1>2, <1>3, <2>1, <3>4, QuietHands DEF Threads
  <2> QED BY <2>2, <2>3
<1> QED BY <1>4, <1>5

\* The hands after chan_close: a receiver that it wakes was served nothing.
LEMMA CloseHands ==
  ASSUME AllInv, TypeOK', DataOK', NEW c \in Chans, Closes(c)
  PROVE  HandsInv'
<1>1. UNCHANGED <<waiting, ch, pc, into, recvd, delivered>>
  BY DEF Closes
<1>2. \A u \in Consumers : KeepsHand(u)
  <2> SUFFICES ASSUME NEW u \in Consumers PROVE KeepsHand(u)
    OBVIOUS
  <2>1. InHandOf(u)' <=> InHandOf(u)
    BY <1>1 DEF InHandOf, Waits
  <2> QED BY <1>1, <2>1, AllStay, HandKept
<1>3. \A d \in Chans : \A x : Delivered(x, d)' <=> Delivered(x, d)
  BY <1>1 DEF Delivered
<1> QED BY <1>2, <1>3, AllStay, HandsSame

\* A direct transfer to a receiver that waits.
LEMMA SendDirectHands ==
  ASSUME AllInv, TypeOK', DataOK', NEW t \in Threads, SendDirect(t)
  PROVE  HandsInv'
<1>1. PICK c \in Chans : c = ch[t]
  BY AllStay DEF TypeOK
<1>2. PICK m, r : m = elem[t] /\ r = first[c]["recvq"]
  OBVIOUS
<1>3. /\ r \in Threads /\ r \in Consumers /\ r # t /\ ch[r] = c
      /\ pc[r] = "recvq" /\ Waits(r, c, "recvq") /\ into'[r] = m
      /\ \A u \in Threads : u # r => into'[u] = into[u]
      /\ \A d \in Chans, q \in Queues, u \in Threads :
           Waits(u, d, q)' <=> (Waits(u, d, q) /\ ~(u = r /\ d = c /\ q = "recvq"))
  BY <1>1, <1>2, AllStay, FirstReceiver
<1>4. m \in Elems /\ Fresh(m)
  BY <1>1, <1>2, AllStay, SenderReady, SenderFresh DEF SendDirect
<1>5. Others(t) /\ pc[t] \notin Busy /\ pc'[t] = "sendsignal"
  BY AllStay, SendDirectStruct DEF Meets, AfterMeeting
<1>6. recvd' = recvd /\ delivered' = [delivered EXCEPT ![c] = Append(@, m)]
  BY <1>1, <1>2 DEF SendDirect, Deliver
<1>7. /\ \A x : \A d \in Chans : Delivered(x, d)' <=> (Delivered(x, d) \/ (d = c /\ x = m))
      /\ \A d \in Chans : ~Delivered(m, d)
  BY <1>4, <1>6, AllStay, DeliverEffect DEF Fresh, Out
<1>8. Gains(r, m)
  <2>1. ~InHandOf(r)
    BY <1>3 DEF InHandOf
  <2>2. ~Waits(r, c, "recvq")'
    BY <1>3, AllStay
  <2>3. pc'[r] = "recvq" /\ ch'[r] = c
    BY <1>3, <1>5 DEF Others
  <2>4. InHandOf(r)'
    BY <2>2, <2>3 DEF InHandOf, Waits
  <2> QED BY <1>3, <1>6, <2>1, <2>4, AllStay, HandFilled
<1>9. ASSUME NEW u \in Consumers, u # r PROVE KeepsHand(u)
  <2>1. u \in Threads /\ \A d \in Chans : Waits(u, d, "recvq")' <=> Waits(u, d, "recvq")
    BY <1>3, <1>9, AllStay DEF Threads
  <2>2. CASE u = t
    <3>1. ~InHandOf(t) /\ ~InHandOf(t)'
      BY <1>5 DEF InHandOf, Busy, Queues, Signalling
    <3> QED BY <1>6, <2>2, <3>1, AllStay, HandKept
  <2>3. CASE u # t
    BY <1>3, <1>5, <1>6, <1>9, <2>1, <2>3, AllStay, OtherHand
  <2> QED BY <2>2, <2>3
<1> QED BY <1>3, <1>7, <1>8, <1>9, AllStay, HandsGain

\* A direct transfer from a sender that waits.
LEMMA RecvDirectHands ==
  ASSUME AllInv, TypeOK', DataOK', NEW t \in Threads, RecvDirect(t)
  PROVE  HandsInv'
<1>1. PICK c \in Chans : c = ch[t]
  BY AllStay DEF TypeOK
<1>2. PICK s : s = first[c]["sendq"]
  OBVIOUS
<1>3. /\ t \in Consumers /\ elem[s] \in Elems /\ Fresh(elem[s])
      /\ \A d \in Chans, q \in Queues, u \in Threads :
           Waits(u, d, q)' <=> (Waits(u, d, q) /\ ~(u = s /\ d = c /\ q = "sendq"))
  BY <1>1, <1>2, AllStay, FirstSender
<1>4. Meets(t, "sendq")
  BY AllStay, RecvDirectStruct
<1>5. /\ Others(t) /\ pc[t] \notin Busy /\ pc'[t] = "recvsignal" /\ recvd' = recvd
      /\ \A u \in Threads : u # t => into'[u] = into[u]
  BY <1>4, AllStay DEF Meets, RecvDirect, DataOK, AfterMeeting
<1>6. PICK m \in Elems :
        /\ into'[t] = m /\ delivered' = [delivered EXCEPT ![c] = Append(@, m)]
        /\ \A d \in Chans : ~Delivered(m, d)
  <2>0. into \in [Threads -> Elems]
    BY AllStay DEF DataOK
  <2>1. CASE TakeSenders(c)
    <3>1. into' = [into EXCEPT ![t] = elem[s]] /\ delivered' = [delivered EXCEPT ![c] = Append(@, elem[s])]
      BY <1>1, <1>2, <2>1 DEF RecvDirect, Deliver
    <3> QED BY <1>3, <2>0, <3>1 DEF Fresh, Out
  <2>2. CASE ~TakeSenders(c)
    <3>1. PICK m : m = buf[c][recvx[c]]
      OBVIOUS
    <3>2. into' = [into EXCEPT ![t] = m] /\ delivered' = [delivered EXCEPT ![c] = Append(@, m)]
      BY <1>1, <1>2, <2>2, <3>1 DEF RecvDirect, Deliver
    <3>3. m = At(c, 1) /\ \A d \in Chans : ~Delivered(At(c, 1), d)
      BY <1>1, <1>2, <2>2, <3>1, AllStay, RecvSwapEffect, RecvSwapOut
    <3>4. PICK x : x = At(c, 1)
      OBVIOUS
    <3>5. \A d \in Chans : ~Delivered(m, d)
      BY <3>3 DEF Delivered
    <3>6. m \in Elems
      BY <2>0, <3>2, <1>5 DEF DataOK
    <3> QED BY <2>0, <3>2, <3>5, <3>6
  <2> QED BY <2>1, <2>2
<1>7. \A x : \A d \in Chans : Delivered(x, d)' <=> (Delivered(x, d) \/ (d = c /\ x = m))
  BY <1>6, AllStay, DeliverEffect
<1>8. Gains(t, m)
  <2>1. ~InHandOf(t) /\ InHandOf(t)'
    BY <1>5 DEF InHandOf, Busy, Queues, Signalling
  <2> QED BY <1>3, <1>5, <1>6, <2>1, AllStay, HandFilled
<1>9. ASSUME NEW u \in Consumers, u # t PROVE KeepsHand(u)
  <2>1. u \in Threads /\ \A d \in Chans : Waits(u, d, "recvq")' <=> Waits(u, d, "recvq")
    BY <1>3, AllStay DEF Threads
  <2> QED BY <1>5, <1>9, <2>1, AllStay, OtherHand
<1> QED BY <1>3, <1>6, <1>7, <1>8, <1>9, AllStay, HandsGain

\* The hands after a receive from the ring.
LEMMA RecvBufferHands ==
  ASSUME AllInv, TypeOK', DataOK', NEW t \in Threads, RecvBuffer(t)
  PROVE  HandsInv'
<1>1. PICK c \in Chans : c = ch[t]
  BY AllStay DEF TypeOK
<1>2. PICK m : m = buf[c][recvx[c]]
  OBVIOUS
<1>3. Alone(t) /\ t \in Consumers
  BY AllStay, RecvBufferStruct, ReceiverReady DEF RecvBuffer
<1>4. /\ Others(t) /\ waiting' = waiting /\ pc[t] \notin Busy /\ pc'[t] \notin Busy
      /\ \A u \in Threads : u # t => into'[u] = into[u]
      /\ into'[t] = m
      /\ recvd' = [recvd EXCEPT ![t] = Append(@, m)]
      /\ delivered' = [delivered EXCEPT ![c] = Append(@, m)]
  BY <1>1, <1>2, <1>3, AllStay DEF Alone, RecvBuffer, Received, Deliver, DataOK
<1>5. m \in Elems
  BY <1>4 DEF DataOK
<1>6. m = At(c, 1) /\ \A d \in Chans : ~Delivered(At(c, 1), d)
  BY <1>1, <1>2, AllStay, RecvBufferEffect, RecvBufferOut
<1>7. /\ \A x : \A d \in Chans : Delivered(x, d)' <=> (Delivered(x, d) \/ (d = c /\ x = m))
      /\ \A d \in Chans : ~Delivered(m, d)
  <2>1. \A d \in Chans : ~Delivered(m, d)
    BY <1>6 DEF Delivered
  <2> QED BY <1>4, <1>5, <2>1, AllStay, DeliverEffect
<1>8. Gains(t, m) /\ \A u \in Consumers : u # t => recvd'[u] = recvd[u]
  <2>1. ~InHandOf(t) /\ ~InHandOf(t)'
    BY <1>4 DEF InHandOf, Busy, Queues, Signalling
  <2> QED BY <1>3, <1>4, <1>5, <2>1, AllStay, HandPassed
<1>9. ASSUME NEW u \in Consumers, u # t PROVE KeepsHand(u)
  <2>1. u \in Threads /\ \A d \in Chans : Waits(u, d, "recvq")' <=> Waits(u, d, "recvq")
    BY <1>4 DEF Threads, Waits
  <2> QED BY <1>4, <1>8, <1>9, <2>1, AllStay, OtherHand
<1> QED BY <1>3, <1>7, <1>8, <1>9, AllStay, HandsGain

-----------------------------------------------------------------------------
\* The initial state satisfies all of it.
LEMMA InitStruct ==
  ASSUME Init
  PROVE  StructInv
<1>1. DataOK
  <2>1. \A c \in Chans : Cap[c] \in Nat
    BY ChanAssumptions
  <2>2. waiting \in [Chans -> [Queues -> Seq(Threads)]]
    BY DEF Init
  <2>3. elem \in [Threads -> Elems] /\ into \in [Threads -> Elems] /\ nsent \in [Producers -> 0..MaxMsgs]
        /\ thrclosed \in [Threads -> BOOLEAN]
    BY ChanAssumptions DEF Init, Elems
  <2>4. accepted \in [Chans -> Seq(Elems)] /\ delivered \in [Chans -> Seq(Elems)]
        /\ recvd \in [Consumers -> Seq(Elems)]
    BY DEF Init
  <2>5. ret \in [Threads -> [ok : BOOLEAN, ch : Chans, block : BOOLEAN, op : {"send", "recv"}]]
    <3>1. ch \in [Threads -> Chans]
          /\ ret = [t \in Threads |-> [ok |-> TRUE, ch |-> ch[t], block |-> FALSE, op |-> "recv"]]
      BY Zenon DEF Init
    <3>2. ASSUME NEW t \in Threads
          PROVE  [ok |-> TRUE, ch |-> ch[t], block |-> FALSE, op |-> "recv"]
                 \in [ok : BOOLEAN, ch : Chans, block : BOOLEAN, op : {"send", "recv"}]
      BY <3>1
    <3> QED BY <3>1, <3>2, Zenon
  <2>6. \A c \in Chans : buf[c] \in [0..(Cap[c] - 1) -> Elems]
    BY DEF Init, Elems
  <2>7. buf \in [Chans -> UNION {[0..(Cap[c] - 1) -> Elems] : c \in Chans}]
    <3>1. DOMAIN buf = Chans /\ buf = [c \in Chans |-> buf[c]]
      BY DEF Init
    <3>2. \A c \in Chans : buf[c] \in UNION {[0..(Cap[d] - 1) -> Elems] : d \in Chans}
      BY <2>6
    <3> DEFINE U == UNION {[0..(Cap[c] - 1) -> Elems] : c \in Chans}
    <3> HIDE DEF U
    <3> QED BY <3>1, <3>2, Zenon DEF U
  <2> QED BY <2>2, <2>3, <2>4, <2>5, <2>6, <2>7 DEF DataOK
<1>2. \A c \in Chans, q \in Queues : Len(waiting[c][q]) = 0 /\ first[c][q] = NULL
  BY DEF Init
<1>3. \A t \in Threads, c \in Chans, q \in Queues : ~Waits(t, c, q)
  BY <1>2 DEF Waits
<1>4. QueuesOK
  <2>1. ListsOK
    BY <1>2 DEF ListsOK, ListAt
  <2>2. MembersOK
    BY <1>3 DEF MembersOK
  <2>3. LinksOK
    BY DEF LinksOK, Init
  <2> QED BY <2>1, <2>2, <2>3 DEF QueuesOK
<1>5. ControlOK /\ SendersOK
  BY DEF Init, ControlOK, ControlAt, SendersOK, SenderAt, SendPCs, RecvPCs, Threads, Signalling
<1>6. ClosedDone
  BY DEF Init, ClosedDone
<1>7. TokensOK
  BY NULLAssumption DEF Init, TokensOK, Served, NoSignal, Queues
<1>8. ThrClosedOK
  BY DEF Init, ThrClosedOK
<1> QED BY <1>1, <1>4, <1>5, <1>6, <1>7, <1>8 DEF StructInv

\* The initial state satisfies the invariant.
LEMMA InitAll == Init => AllInv
<1> SUFFICES ASSUME Init PROVE AllInv
  OBVIOUS
<1>1. StayInv
  BY InitIInv, InitStruct DEF StayInv
<1>2. /\ \A c \in Chans : /\ Len(delivered[c]) = 0 /\ qlen[c] = 0 /\ Len(accepted[c]) = 0
                          /\ Len(waiting[c]["sendq"]) = 0
      /\ \A t \in Threads : pc[t] = "idle" /\ elem[t] = Zero /\ ret[t].op = "recv"
      /\ \A t \in Consumers : Len(recvd[t]) = 0
  BY DEF Init, Queues
<1>3. \A m : \A c \in Chans : ~Out(m, c) /\ ~Delivered(m, c)
  BY <1>2 DEF Out, Delivered, InBuffer
<1>4. MsgInv
  <2>1. OutSent /\ BufferApart
    BY <1>2, <1>3 DEF OutSent, BufferApart
  <2>2. ParkedApart
    BY <1>2 DEF ParkedApart, Waits
  <2>3. SentOK
    BY <1>2 DEF SentOK, ServedAt, ToldAt, Threads
  <2>4. RefusedOK
    <3>1. \A t \in Threads : ret[t].ok = TRUE
      BY Zenon DEF Init
    <3> QED BY <3>1, Zenon DEF RefusedOK, RefusedAt, Threads
  <2> QED BY <2>1, <2>2, <2>3, <2>4 DEF MsgInv
<1>5. OrderInv
  BY <1>2 DEF OrderInv, InOrder, Line
<1>6. HandsInv
  <2>1. \A t \in Consumers : ~InHand(t)
    BY <1>2 DEF InHand, Threads
  <2>2. \A t \in Consumers, i \in Nat : \A x : ~HandAt(t, i, x)
    BY <1>2, <2>1 DEF HandAt
  <2> QED BY <1>3, <2>2 DEF HandsInv
<1> QED BY <1>1, <1>4, <1>5, <1>6 DEF AllInv, LineInv, FlowInv

-----------------------------------------------------------------------------
\* Every step preserves it.
LEMMA AllNext ==
  ASSUME IInv', StructInv', MsgInv', OrderInv', HandsInv'
  PROVE  AllInv'
BY DEF AllInv, LineInv, FlowInv, StayInv

\* The types of the next state.
LEMMA TypesNext ==
  ASSUME IInv', StructInv'
  PROVE  TypeOK' /\ DataOK'
BY DEF IInv, StructInv

\* The whole invariant after each step, from its parts.
LEMMA LocalNext ==
  ASSUME AllInv, IInv', NEW t \in Threads, Local(t), DataOK'
  PROVE  AllInv'
<1>1. StructInv' /\ MsgInv'
  BY AllStay, LocalStruct, LocalMsg
<1>2. /\ UNCHANGED <<accepted, delivered, qlen, recvx, buf, waiting, closed>>
      /\ pc[t] \notin Busy /\ \A u \in Threads : u # t => elem'[u] = elem[u]
  BY DEF Local, Alone
<1>3. OrderInv'
  <2>1. KeepsHeld
    BY <1>2 DEF KeepsHeld, Busy, Threads, Signalling
  <2> QED BY <1>2, <2>1, AllStay, QuietOrder DEF LineInv
<1>4. HandsInv'
  BY <1>1, TypesNext, LocalHands
<1> QED BY <1>1, <1>3, <1>4, AllNext

\* chan_send that finds no room parks, or returns.
LEMMA SendBlockedNext ==
  ASSUME AllInv, IInv', NEW t \in Threads, SendBlocked(t)
  PROVE  AllInv'
<1>1. CASE pc[t] = "trysend"
  BY <1>1, AllStay, SendLocal, LocalNext
<1>2. CASE pc[t] = "send"
  <2>1. StructInv' /\ MsgInv' /\ OrderInv'
    BY <1>2, AllStay, SendParkStruct, SendParkMsg, SendParkOrder
  <2>2. HandsInv'
    BY <1>2, <2>1, TypesNext, ParkHands
  <2> QED BY <2>1, <2>2, AllNext
<1> QED BY <1>1, <1>2 DEF SendBlocked

\* chan_recv that finds nothing parks, or returns.
LEMMA RecvBlockedNext ==
  ASSUME AllInv, IInv', NEW t \in Threads, RecvBlocked(t)
  PROVE  AllInv'
<1>1. CASE pc[t] = "tryrecv"
  BY <1>1, AllStay, RecvLocal, LocalNext
<1>2. CASE pc[t] = "recv"
  <2>1. StructInv' /\ MsgInv'
    BY <1>2, AllStay, RecvParkStruct, RecvParkMsg
  <2>2. OrderInv'
    <3>1. Parks(t, "recvq")
      BY <1>2, AllStay, RecvParkStruct
    <3>2. PICK c \in Chans : c = ch[t]
      BY AllStay DEF TypeOK
    <3>3. /\ UNCHANGED <<accepted, delivered, qlen, recvx, buf, closed, elem>>
          /\ Enqueue(c, "recvq", t)
      BY <3>1, <3>2 DEF Parks, RecvBlocked, hist, chanVars
    <3>4. \A d \in Chans : waiting'[d]["sendq"] = waiting[d]["sendq"]
      BY <3>3, AllStay, EnqueueWaiting
    <3>5. KeepsHeld
      BY <3>3 DEF KeepsHeld
    <3> QED BY <3>3, <3>4, <3>5, AllStay, QuietOrder DEF LineInv
  <2>3. HandsInv'
    BY <1>2, <2>1, TypesNext, ParkHands
  <2> QED BY <2>1, <2>2, <2>3, AllNext
<1> QED BY <1>1, <1>2 DEF RecvBlocked

\* A parked thread wakes up.
LEMMA WakeNext ==
  ASSUME AllInv, IInv', NEW t \in Threads, WakeSend(t) \/ WakeRecv(t)
  PROVE  AllInv'
<1>1. StructInv' /\ MsgInv'
  BY AllStay, WakeStruct, WakeMsg
<1>2. OrderInv'
  <2>1. UNCHANGED <<accepted, delivered, qlen, recvx, buf, closed, waiting>>
    BY DEF WakeSend, WakeRecv, hist, chanVars, queueVars
  <2>2. KeepsHeld
    BY DEF WakeSend, WakeRecv, KeepsHeld
  <2> QED BY <2>1, <2>2, AllStay, QuietOrder DEF LineInv
<1>3. HandsInv'
  BY <1>1, TypesNext, WakeHands
<1> QED BY <1>1, <1>2, <1>3, AllNext

\* A partner is signalled.
LEMMA SignalNext ==
  ASSUME AllInv, IInv', NEW t \in Threads, Signal(t)
  PROVE  AllInv'
<1>1. StructInv' /\ MsgInv'
  BY AllStay, SignalStruct, SignalMsg
<1>2. OrderInv'
  <2>1. UNCHANGED <<accepted, delivered, qlen, recvx, buf, closed, waiting, elem>>
    BY DEF Signal, hist, chanVars, queueVars
  <2>2. KeepsHeld
    BY <2>1 DEF KeepsHeld
  <2> QED BY <2>1, <2>2, AllStay, QuietOrder DEF LineInv
<1>3. HandsInv'
  BY <1>1, TypesNext, SignalHands
<1> QED BY <1>1, <1>2, <1>3, AllNext

\* A message moves.
LEMMA MoveNext ==
  ASSUME AllInv, IInv', NEW t \in Threads,
         SendDirect(t) \/ SendBuffer(t) \/ RecvDirect(t) \/ RecvBuffer(t)
  PROVE  AllInv'
<1>1. StructInv'
  BY AllStay, SendDirectStruct, SendBufferStruct, RecvDirectStruct, RecvBufferStruct
<1>2. MsgInv'
  BY AllStay, SendMsg, RecvDirectMsg, RecvBufferMsg
<1>3. OrderInv'
  BY AllStay, SendDirectOrder, SendBufferOrder, RecvDirectOrder, RecvBufferOrder
<1>4. HandsInv'
  BY <1>1, TypesNext, SendDirectHands, SendBufferHands, RecvDirectHands, RecvBufferHands
<1> QED BY <1>1, <1>2, <1>3, <1>4, AllNext

\* Nothing changes but panic.
LEMMA StillNext ==
  ASSUME AllInv, IInv',
         UNCHANGED <<chanVars, queueVars, thrclosed, sema, elem, into, pc, ch, sig, hist, ret>>
  PROVE  AllInv'
<1>0. /\ UNCHANGED <<qlen, sendx, recvx, buf, closed, first, last, next, elemptr, waiting>>
      /\ UNCHANGED <<nsent, accepted, delivered, recvd, thrclosed, sema, elem, into, pc, ch, sig, ret>>
  BY DEF chanVars, queueVars, hist
<1>1. DataOK'
  BY <1>0, AllStay DEF DataOK
<1>2. QueuesOK'
  BY <1>0, AllStay DEF LineInv, FlowInv, StayInv, StructInv, QueuesOK, ListsOK, ListAt, MembersOK, LinksOK, Waits
<1>3. ControlOK' /\ SendersOK' /\ ClosedDone'
  BY <1>0, AllStay, StayWaitInv
     DEF ControlOK, ControlAt, SendersOK, SenderAt, ClosedDone, SenderDone, Signalling, SendCalls
<1>4. TokensOK' /\ ThrClosedOK'
  <2>1. \A u \in Threads : Served(u)' <=> Served(u)
    BY <1>0 DEF Served, Waits
  <2>2. \A u \in Threads : (OneToken(u)' <=> OneToken(u)) /\ (NoSignal(u)' <=> NoSignal(u))
    BY <1>0 DEF OneToken, OneSignal, NoSignal
  <2>3. TokensOK'
    BY <1>0, <2>1, <2>2, AllStay DEF TokensOK
  <2>4. \A u \in Threads : Waits(u, ch[u], "recvq")' <=> Waits(u, ch[u], "recvq")
    BY <1>0 DEF Waits
  <2> QED BY <1>0, <2>3, <2>4, AllStay DEF ThrClosedOK
<1>5. StructInv'
  BY <1>1, <1>2, <1>3, <1>4 DEF StructInv
<1>6. MsgInv'
  BY <1>0, AllStay, CloseMsg
<1>7. OrderInv'
  BY <1>0, AllStay, QuietOrder DEF LineInv, KeepsHeld
<1>8. HandsInv'
  <2>1. \A u \in Consumers : KeepsHand(u)
    BY <1>0 DEF KeepsHand, HandAt, InHand
  <2>2. \A c \in Chans : \A x : Delivered(x, c)' <=> Delivered(x, c)
    BY <1>0 DEF Delivered
  <2> QED BY <2>1, <2>2, AllStay, HandsSame
<1> QED BY <1>5, <1>6, <1>7, <1>8, AllNext

\* chan_close, on an open channel and on a closed one (which panics).
LEMMA CloseNext ==
  ASSUME AllInv, IInv', NEW c \in Chans, Close(c)
  PROVE  AllInv'
<1>1. CASE closed[c]
  <2>1. closed' = closed /\ thrclosed' = thrclosed /\ sema' = sema
    BY <1>1 DEF Close
  <2> QED BY <2>1, StillNext DEF Close, chanVars
<1>2. CASE ~closed[c]
  <2>1. Closes(c) /\ DataOK'
    BY <1>2, AllStay, CloseEffect
  <2>2. StructInv' /\ MsgInv'
    <3>1. /\ UNCHANGED <<qlen, recvx, buf, delivered, waiting, ch, pc, ret, nsent, elem>>
          /\ \A d \in Chans : closed[d] => closed'[d]
      BY <2>1, AllStay DEF Closes, TypeOK
    <3> QED BY <2>1, <3>1, AllStay, CloseStruct, CloseMsg
  <2>3. OrderInv'
    <3>1. /\ UNCHANGED <<accepted, delivered, qlen, recvx, buf, waiting, elem>>
          /\ \A d \in Chans : closed[d] => closed'[d]
      BY <2>1, AllStay DEF Closes, TypeOK
    <3>2. KeepsHeld
      BY <3>1 DEF KeepsHeld
    <3> QED BY <3>1, <3>2, AllStay, QuietOrder DEF LineInv
  <2>4. HandsInv'
    BY <2>1, <2>2, TypesNext, CloseHands
  <2> QED BY <2>2, <2>3, <2>4, AllNext
<1> QED BY <1>1, <1>2

\* A step of a thread inside an operation.
LEMMA StepNext ==
  ASSUME AllInv, IInv', NEW t \in Threads, Step(t)
  PROVE  AllInv'
<1>1. CASE \/ SendFastPath(t) \/ SendClosed(t)
  BY <1>1, AllStay, SendLocal, LocalNext
<1>2. CASE RecvFastPath(t) \/ RecvFastPathClosed(t) \/ RecvClosed(t)
  BY <1>2, AllStay, RecvLocal, LocalNext
<1> QED BY <1>1, <1>2, SendBlockedNext, RecvBlockedNext, WakeNext, SignalNext, MoveNext DEF Step

\* A thread calls chan_send or chan_recv.
LEMMA StartNext ==
  ASSUME AllInv, IInv', Start, StaysWithClosed
  PROVE  AllInv'
<1>1. ASSUME NEW t \in Producers, NEW c \in Chans, StartSend(t, c, t \notin TryThreads)
      PROVE  AllInv'
  BY <1>1, AllStay, StartSendLocal, LocalNext DEF Threads
<1>2. ASSUME NEW t \in Consumers, NEW c \in Chans, StartRecv(t, c, t \notin TryThreads)
      PROVE  AllInv'
  BY <1>2, AllStay, StartRecvLocal, LocalNext DEF Threads
<1> QED BY <1>1, <1>2 DEF Start

\* Every step of a thread that keeps to a closed channel preserves the invariant.
LEMMA NextAllInv == AllInv /\ [Next /\ StaysWithClosed]_vars => AllInv'
<1> SUFFICES ASSUME AllInv, [Next /\ StaysWithClosed]_vars PROVE AllInv'
  OBVIOUS
<1>1. IInv'
  BY AllStay, NextIInv
<1>2. CASE Next /\ StaysWithClosed
  <2>1. Closable \subseteq Chans
    BY ChanAssumptions
  <2> QED BY <1>1, <1>2, <2>1, StartNext, StepNext, CloseNext DEF Next
<1>3. CASE UNCHANGED vars
  BY <1>1, <1>3, StillNext DEF vars
<1> QED BY <1>2, <1>3

-----------------------------------------------------------------------------
\* What the invariant says in the terms of Chan.

\* A sequence followed by at most one more element, by its members.
EndsWith(z, s, e, b) ==
  s \in Seq(Elems) /\ e \in Elems /\ b \in BOOLEAN /\ z = s \o (IF b THEN <<e>> ELSE <<>>)

MemberOf(z, s, e, b, i, x) ==
  (i \in DOMAIN z /\ z[i] = x) <=>
     \/ i \in 1..Len(s) /\ s[i] = x
     \/ i = Len(s) + 1 /\ b /\ x = e

LEMMA OneMore ==
  ASSUME NEW z, NEW s, NEW e, NEW b, EndsWith(z, s, e, b), NEW i, NEW x
  PROVE  MemberOf(z, s, e, b, i, x)
<1>0. s \in Seq(Elems) /\ e \in Elems /\ b \in BOOLEAN /\ z = s \o (IF b THEN <<e>> ELSE <<>>)
  BY Zenon DEF EndsWith
<1>1. CASE b
  <2>1. z = s \o <<e>> /\ <<e>> \in Seq(Elems) /\ Len(<<e>>) = 1 /\ Len(s) \in Nat
    BY <1>0, <1>1
  <2>2. /\ Len(z) = Len(s) + 1 /\ z \in Seq(Elems)
        /\ \A j \in 1..(Len(s) + 1) : z[j] = IF j <= Len(s) THEN s[j] ELSE <<e>>[j - Len(s)]
    BY <1>0, <2>1, ConcatProperties
  <2>3. DOMAIN z = 1..(Len(s) + 1)
    BY <2>1, <2>2
  <2>4. \A j \in 1..Len(s) : z[j] = s[j]
    BY <2>1, <2>2
  <2>5. z[Len(s) + 1] = e
    <3>1. Len(s) + 1 \in 1..(Len(s) + 1) /\ ~(Len(s) + 1 <= Len(s)) /\ (Len(s) + 1) - Len(s) = 1
      BY <2>1
    <3>2. z[Len(s) + 1] = <<e>>[1]
      BY <2>2, <3>1
    <3> QED BY <3>2
  <2>6. i \in 1..(Len(s) + 1) <=> (i \in 1..Len(s) \/ i = Len(s) + 1)
    BY <2>1
  <2> QED BY <1>1, <2>3, <2>4, <2>5, <2>6 DEF MemberOf
<1>2. CASE ~b
  <2>1. z = s
    BY <1>0, <1>2
  <2>2. DOMAIN z = 1..Len(s)
    BY <1>0, <2>1
  <2> QED BY <1>2, <2>1, <2>2 DEF MemberOf
<1> QED BY <1>0, <1>1, <1>2

\* Three sequences in a row.
LinedUp(A, D, B, q, P, p) ==
  /\ A \in Seq(Elems) /\ D \in Seq(Elems)
  /\ q \in Nat /\ B \in [1..q -> Elems]
  /\ p \in Nat /\ P \in [1..p -> Elems]
  /\ Line(A, Len(A), D, Len(D), B, q, P, p)

Joined(A, D, B, P) == A = D \o B \o P

LEMMA InARow ==
  ASSUME NEW A, NEW D, NEW B, NEW q, NEW P, NEW p, LinedUp(A, D, B, q, P, p)
  PROVE  Joined(A, D, B, P)
<1>0. /\ A \in Seq(Elems) /\ D \in Seq(Elems)
      /\ q \in Nat /\ B \in [1..q -> Elems]
      /\ p \in Nat /\ P \in [1..p -> Elems]
      /\ Line(A, Len(A), D, Len(D), B, q, P, p)
  BY Zenon DEF LinedUp
<1>1. /\ B \in Seq(Elems) /\ Len(B) = q /\ P \in Seq(Elems) /\ Len(P) = p
      /\ Len(D) \in Nat /\ Len(A) \in Nat
  BY <1>0 DEF Seq
<1>2. PICK E : E = D \o B
  OBVIOUS
<1>3. /\ E \in Seq(Elems) /\ Len(E) = Len(D) + q
      /\ \A i \in 1..(Len(D) + q) : E[i] = IF i <= Len(D) THEN D[i] ELSE B[i - Len(D)]
  BY <1>0, <1>1, <1>2, ConcatProperties
<1>4. PICK F : F = E \o P
  OBVIOUS
<1>5. /\ F \in Seq(Elems) /\ Len(F) = Len(D) + q + p
      /\ \A i \in 1..(Len(D) + q + p) :
           F[i] = IF i <= Len(D) + q THEN E[i] ELSE P[i - (Len(D) + q)]
  BY <1>0, <1>1, <1>3, <1>4, ConcatProperties, SMTT(30)
<1>6. Len(A) = Len(F)
  BY <1>0, <1>1, <1>5 DEF Line
<1>7. ASSUME NEW i \in 1..Len(A) PROVE A[i] = F[i]
  <2>1. /\ i \in Nat /\ i \in 1..(Len(D) + q + p)
        /\ A[i] = InLine(D, Len(D), B, q, P, i) /\ i - Len(D) - q = i - (Len(D) + q)
    BY <1>0, <1>1, <1>7 DEF Line
  <2>2. CASE i <= Len(D) + q
    <3>1. i \in 1..(Len(D) + q)
      BY <1>0, <1>1, <2>1, <2>2
    <3> QED BY <1>0, <1>1, <1>3, <1>5, <2>1, <2>2, <3>1 DEF InLine
  <2>3. CASE ~(i <= Len(D) + q)
    <3>1. ~(i <= Len(D))
      BY <1>0, <1>1, <2>1, <2>3
    <3> QED BY <1>0, <1>1, <1>5, <2>1, <2>3, <3>1 DEF InLine
  <2> QED BY <2>2, <2>3
<1>8. A = F
  BY <1>0, <1>5, <1>6, <1>7, SeqEqual
<1> QED BY <1>2, <1>4, <1>8 DEF Joined

\* The four properties of Chan follow.
LEMMA OrderMeans == AllInv => FirstInFirstOut
<1> SUFFICES ASSUME AllInv, NEW c \in Chans, ~Cancelled(c)
             PROVE  accepted[c] = delivered[c] \o Buffered(c) \o ParkedMsgs(c)
  BY DEF FirstInFirstOut
<1>1. /\ accepted[c] \in Seq(Elems) /\ delivered[c] \in Seq(Elems)
      /\ waiting[c]["sendq"] \in Seq(Threads) /\ elem \in [Threads -> Elems]
  BY AllStay DEF DataOK
<1>2. InOrder(c)
  BY AllStay DEF LineInv, OrderInv
<1>3. Buffered(c) \in [1..qlen[c] -> Elems] /\ qlen[c] \in Nat
  <2>1. /\ qlen[c] \in Nat /\ Cap[c] \in Nat /\ qlen[c] <= Cap[c]
        /\ \A i \in 1..Cap[c] : Slot(c, i) \in 0..(Cap[c] - 1)
    BY AllStay, SlotRange
  <2>2. \A i \in 1..qlen[c] : Slot(c, i) \in 0..(Cap[c] - 1)
    BY <2>1
  <2>3. buf[c] \in [0..(Cap[c] - 1) -> Elems]
    BY AllStay DEF DataOK
  <2> QED BY <2>1, <2>2, <2>3 DEF Buffered
<1>4. ParkedMsgs(c) \in [1..Len(waiting[c]["sendq"]) -> Elems] /\ Len(waiting[c]["sendq"]) \in Nat
  BY <1>1 DEF ParkedMsgs
<1>5. PICK A, D, B, P, q, p :
        /\ A = accepted[c] /\ D = delivered[c] /\ B = Buffered(c) /\ P = ParkedMsgs(c)
        /\ q = qlen[c] /\ p = Len(waiting[c]["sendq"])
  OBVIOUS
<1>6. Line(A, Len(A), D, Len(D), B, q, P, p)
  BY <1>2, <1>5 DEF InOrder
<1>7. Joined(A, D, B, P)
  <2>1. A \in Seq(Elems) /\ D \in Seq(Elems)
    BY <1>1, <1>5, Zenon
  <2>2. q \in Nat /\ B \in [1..q -> Elems]
    BY <1>3, <1>5, Zenon
  <2>3. p \in Nat /\ P \in [1..p -> Elems]
    BY <1>4, <1>5, Zenon
  <2>4. LinedUp(A, D, B, q, P, p)
    BY <2>1, <2>2, <2>3, <1>6, Zenon DEF LinedUp
  <2> QED BY <2>4, InARow, Zenon
<1>8. Joined(accepted[c], delivered[c], Buffered(c), ParkedMsgs(c))
  BY <1>5, <1>7, Zenon
<1> QED BY <1>8 DEF Joined

\* What was delivered is in one hand, once: nothing is lost or duplicated.
LEMMA HandsMean == AllInv => ReceivedExactlyOnce
<1> SUFFICES ASSUME AllInv PROVE ReceivedExactlyOnce
  OBVIOUS
<1> DEFINE all == [t \in Consumers |-> recvd[t] \o (IF InHand(t) THEN <<into[t]>> ELSE <<>>)]
<1>1. ASSUME NEW t \in Consumers, NEW i, NEW x
      PROVE  (i \in DOMAIN all[t] /\ all[t][i] = x) <=> (i \in Nat /\ HandAt(t, i, x))
  <2>1. recvd[t] \in Seq(Elems) /\ into[t] \in Elems /\ InHand(t) \in BOOLEAN
    BY AllStay DEF DataOK, Threads, InHand
  <2>2. all[t] = recvd[t] \o (IF InHand(t) THEN <<into[t]>> ELSE <<>>)
    OBVIOUS
  <2> HIDE DEF all
  <2>3. (i \in DOMAIN all[t] /\ all[t][i] = x) <=>
           \/ i \in 1..Len(recvd[t]) /\ recvd[t][i] = x
           \/ i = Len(recvd[t]) + 1 /\ InHand(t) /\ x = into[t]
    <3>1. PICK z, s, e, b : z = all[t] /\ s = recvd[t] /\ e = into[t] /\ b = InHand(t)
      OBVIOUS
    <3>2. s \in Seq(Elems) /\ e \in Elems /\ b \in BOOLEAN
      BY <2>1, <3>1, Zenon
    <3>3. EndsWith(z, s, e, b)
      <4>1. z = s \o (IF b THEN <<e>> ELSE <<>>)
        BY <2>2, <3>1, Zenon
      <4> QED BY <3>2, <4>1, Zenon DEF EndsWith
    <3>4. MemberOf(z, s, e, b, i, x)
      BY <3>3, OneMore, Zenon
    <3>5. MemberOf(all[t], recvd[t], into[t], InHand(t), i, x)
      BY <3>1, <3>4, Zenon
    <3> QED BY <3>5, Zenon DEF MemberOf
  <2>4. Len(recvd[t]) \in Nat
    BY <2>1
  <2> QED BY <2>3, <2>4 DEF HandAt
<1> HIDE DEF all
<1>2. \A x : x \in UNION {Range(all[t]) : t \in Consumers} <=>
               \E t \in Consumers, i \in Nat : HandAt(t, i, x)
  BY <1>1 DEF Range
<1>3. \A x : x \in UNION {Range(delivered[c]) : c \in Chans} <=> \E c \in Chans : Delivered(x, c)
  <2>1. \A c \in Chans : delivered[c] \in Seq(Elems)
    BY AllStay DEF DataOK
  <2>2. \A c \in Chans : \A x : x \in Range(delivered[c]) <=> Delivered(x, c)
    BY <2>1, RangeWaits DEF Delivered
  <2> QED BY <2>2
<1>4. UNION {Range(all[t]) : t \in Consumers} = UNION {Range(delivered[c]) : c \in Chans}
  <2>1. \A x : (\E t \in Consumers, i \in Nat : HandAt(t, i, x)) <=> \E c \in Chans : Delivered(x, c)
    BY AllStay DEF HandsInv
  <2> QED BY <1>2, <1>3, <2>1
<1>5. \A t, u \in Consumers : \A i \in DOMAIN all[t], j \in DOMAIN all[u] :
        all[t][i] = all[u][j] => t = u /\ i = j
  BY <1>1, AllStay DEF HandsInv
<1> QED BY <1>4, <1>5 DEF ReceivedExactlyOnce, all

\* A sender that was told TRUE has its message out.
LEMMA SentMeans == AllInv => SendTrueMeansSent
<1> SUFFICES ASSUME AllInv, NEW t \in Producers, pc[t] = "idle", ret[t].op = "send", ret[t].ok = TRUE,
                    ~Cancelled(ret[t].ch)
             PROVE  elem[t] \in Range(delivered[ret[t].ch]) \cup Range(Buffered(ret[t].ch))
  <2>1. AllInv => \A t \in Producers : ret[t].ok \in BOOLEAN
    <3> SUFFICES ASSUME AllInv, NEW t \in Producers PROVE ret[t].ok \in BOOLEAN
      OBVIOUS
    <3>1. t \in Threads /\ ret \in [Threads -> [ok : BOOLEAN, ch : Chans, block : BOOLEAN, op : {"send", "recv"}]]
      BY AllStay DEF DataOK, Threads
    <3> QED BY <3>1
  <2>2. AllInv => \A t \in Producers : ret[t].ok <=> ret[t].ok = TRUE
    BY <2>1
  <2> QED BY <2>2, Zenon DEF SendTrueMeansSent
<1>0. t \in Threads /\ ret \in [Threads -> [ok : BOOLEAN, ch : Chans, block : BOOLEAN, op : {"send", "recv"}]]
  BY AllStay DEF DataOK, Threads
<1>1. PICK c \in Chans : c = ret[t].ch
  BY <1>0
<1>2. Out(elem[t], c)
  BY <1>1, AllStay, FlowStay DEF SentOK, ToldAt
<1>3. CASE Delivered(elem[t], c)
  <2>1. delivered[c] \in Seq(Elems)
    BY AllStay DEF DataOK
  <2> QED BY <1>1, <1>3, <2>1, RangeWaits DEF Delivered
<1>4. CASE InBuffer(elem[t], c)
  BY <1>1, <1>4 DEF InBuffer, Range, Buffered, At
<1> QED BY <1>2, <1>3, <1>4 DEF Out

\* A blocking receive is refused only by a closed channel.
LEMMA RefusedMeans == AllInv => RecvFalseMeansClosed
<1> SUFFICES ASSUME AllInv, NEW t \in Consumers, ret[t].op = "recv", ~ret[t].ok, ret[t].block
             PROVE  closed[ret[t].ch]
  BY Zenon DEF RecvFalseMeansClosed
<1>0. t \in Threads /\ ret \in [Threads -> [ok : BOOLEAN, ch : Chans, block : BOOLEAN, op : {"send", "recv"}]]
  BY AllStay DEF DataOK, Threads
<1>1. ret[t].ok \in BOOLEAN /\ ret[t].block \in BOOLEAN
  BY <1>0
<1>2. ret[t].ok = FALSE /\ ret[t].block = TRUE
  BY <1>1, Zenon
<1> QED BY <1>2, AllStay, FlowStay DEF RefusedOK, RefusedAt

-----------------------------------------------------------------------------
\* The inductive invariant holds in every reachable state.
THEOREM StayInvariance == StaySpec => []AllInv
BY InitAll, NextAllInv, PTL DEF StaySpec

\* First in, first out: what chan_send accepted on a channel is, in order, what
\* chan_recv delivered, what the ring holds and what the parked senders hold,
\* until a close cancels parked senders.  The ring, the direct transfers past it
\* and the wait queue never let a message overtake another one.
THEOREM OrderKept == StaySpec => []FirstInFirstOut
BY StayInvariance, OrderMeans, PTL

\* Every message that left a channel is held by one receiver, once: direct
\* transfers through elemptr, the swap in a full ring and the wake-ups of
\* chan_close neither lose a message nor hand it out twice.
THEOREM DeliveredOnce == StaySpec => []ReceivedExactlyOnce
BY StayInvariance, HandsMean, PTL

\* chan_send returns true only for a message that was delivered or is in the
\* ring; a sender that chan_close wakes does not take the close for a receiver.
THEOREM SendSound == StaySpec => []SendTrueMeansSent
BY StayInvariance, SentMeans, PTL

\* A blocking chan_recv returns false only when the channel is closed: no
\* wake-up that is meant for another wait makes it give up.
THEOREM RecvSound == StaySpec => []RecvFalseMeansClosed
BY StayInvariance, RefusedMeans, PTL

=============================================================================
