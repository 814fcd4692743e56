------------------------ MODULE TransportLimitsProofs ------------------------
(***************************************************************************)
(* Proofs that the receivers' limits are never reached when they are ample *)
(* for all that the two ends may post: the hypothesis []WithinLimits of    *)
(* TransportStreamProofs then holds of every behaviour, and what is proved *)
(* there holds of the transport alone.                                     *)
(***************************************************************************)
EXTENDS TransportStreamProofs

\* No message has more than p bytes of payload or d descriptors, and all the frames an end may
\* ever enqueue, its messages and an acknowledgement for every descriptor its peer may post, fit
\* into MAX_UNPROCESSED_BUFFER_SIZE and MAX_UNPROCESSED_FDS.
Ample(p, d) ==
    /\ \A size \in PayloadSizes : size <= p
    /\ \A n \in FdCounts : n <= d
    /\ \A e \in Endpoint :
         /\ MaxPosts[e] * (HeaderSize + p) + (MaxPosts[Peer(e)] * d) * HeaderSize
                <= MaxUnprocessedBytes
         /\ MaxPosts[e] * d <= MaxUnprocessedFds

\* The bytes of a message that was begun and not enqueued yet.
Pending(e) == IF main_pc[e] = "enqueue" THEN HeaderSize + posting[e].payload_size ELSE 0
AllBytes(e) == BytesUpTo(frames[e], Len(frames[e]))
AllAcks(e) == AcksUpTo(frames[e], Len(frames[e]))

\* Every frame is paid for: by the message that was posted, or by a descriptor it acknowledges.
Counted(e, p, d) ==
    /\ posts[e] <= MaxPosts[e]
    /\ fds_posted[e] <= posts[e] * d
    /\ AllBytes(e) + Pending(e) <= posts[e] * (HeaderSize + p) + AllAcks(e) * HeaderSize
    /\ io_pc[e] = "acknowledge" => received_fd_count[e] > 0
CountInv(p, d) == \A e \in Endpoint : Counted(e, p, d)

-----------------------------------------------------------------------------
(* Products. *)

\* One more of the same.
LEMMA OneMore ==
    ASSUME NEW a \in Nat, NEW b \in Nat
    PROVE  a * b \in Nat /\ (a + 1) * b = a * b + b
  OBVIOUS

\* More of the same is no less.
LEMMA ProductsGrow ==
    ASSUME NEW a \in Nat, NEW c \in Nat, NEW b \in Nat, a <= c
    PROVE  a * b <= c * b
<1>1. PICK t \in Nat : c = a + t
  <2>1. c - a \in Nat /\ c = a + (c - a)
    OBVIOUS
  <2> QED
    BY <2>1
<1>2. c * b = a * b + t * b /\ t * b \in Nat /\ a * b \in Nat
  BY <1>1
<1> QED
  BY <1>2

-----------------------------------------------------------------------------
(* The count is kept. *)

\* What is counted are numbers.
LEMMA CountTypes ==
    ASSUME IndInv, NEW e \in Endpoint
    PROVE  /\ posts[e] \in Nat /\ fds_posted[e] \in Nat /\ MaxPosts[e] \in Nat
           /\ received_fd_count[e] \in Nat /\ posting[e].payload_size \in Nat
           /\ AllBytes(e) \in Nat /\ AllAcks(e) \in Nat /\ Pending(e) \in Nat
           /\ HeaderSize \in Nat /\ frames[e] \in Seq(Frame) /\ posting[e] \in Frame
<1>1. /\ posts[e] \in Nat /\ MaxPosts[e] \in Nat /\ HeaderSize \in Nat
  BY InputAssumption, SizeAssumption DEF IndInv, TypeOK, InputAssumption, SizeAssumption
<1>2. /\ frames[e] \in Seq(Frame) /\ Len(frames[e]) \in Nat /\ posting[e] \in Frame
      /\ fds_posted[e] \in Nat /\ received_fd_count[e] \in Nat
  BY EndTypes
<1>3. posting[e].payload_size \in Nat
  BY <1>2 DEF Frame
<1>4. Len(frames[e]) \in 0..Len(frames[e])
  BY <1>2
<1>5. AllBytes(e) \in Nat /\ AllAcks(e) \in Nat
  BY <1>2, <1>4, FrameSums DEF AllBytes, AllAcks
<1>6. Pending(e) \in Nat
  BY <1>1, <1>3 DEF Pending
<1> QED
  BY <1>1, <1>2, <1>3, <1>5, <1>6

\* An end that neither posts nor enqueues.
LEMMA CountStays ==
    ASSUME NEW p, NEW d, NEW e \in Endpoint, IndInv, Counted(e, p, d),
           p \in Nat,
           posts'[e] = posts[e], fds_posted'[e] = fds_posted[e], frames'[e] = frames[e],
           main_pc'[e] = "enqueue" => main_pc[e] = "enqueue" /\ posting'[e] = posting[e],
           io_pc'[e] = "acknowledge" => received_fd_count'[e] > 0
    PROVE  Counted(e, p, d)'
<1>1. AllBytes(e)' = AllBytes(e) /\ AllAcks(e)' = AllAcks(e)
  BY DEF AllBytes, AllAcks
<1>2. Pending(e)' = Pending(e) \/ Pending(e)' = 0
  BY DEF Pending
<1>3. /\ Pending(e) \in Nat /\ AllBytes(e) \in Nat
      /\ posts[e] * (HeaderSize + p) + AllAcks(e) * HeaderSize \in Nat
  <2>1. /\ posts[e] \in Nat /\ AllAcks(e) \in Nat /\ HeaderSize \in Nat /\ Pending(e) \in Nat
        /\ AllBytes(e) \in Nat
    BY CountTypes
  <2>2. posts[e] * (HeaderSize + p) \in Nat /\ AllAcks(e) * HeaderSize \in Nat
    BY <2>1, OneMore
  <2> QED
    BY <2>1, <2>2
<1>4. AllBytes(e) + Pending(e) <= posts[e] * (HeaderSize + p) + AllAcks(e) * HeaderSize
  BY DEF Counted
<1> DEFINE rhs == posts[e] * (HeaderSize + p) + AllAcks(e) * HeaderSize
<1>5. rhs' = rhs
  BY <1>1
<1> HIDE DEF rhs
<1>6. AllBytes(e)' + Pending(e)' <= rhs'
  BY <1>1, <1>2, <1>3, <1>4, <1>5 DEF rhs
<1> QED
  BY <1>6 DEF Counted, rhs

\* Neither end posts or enqueues, and only descriptors that were received are acknowledged.
Uncounted ==
    /\ UNCHANGED <<posts, fds_posted, frames, posting>>
    /\ \A x \in Endpoint : /\ main_pc'[x] = "enqueue" => main_pc[x] = "enqueue"
                           /\ io_pc'[x] = "acknowledge" => received_fd_count'[x] > 0

\* Such a step keeps the count.
LEMMA UncountedKeeps ==
    ASSUME NEW p \in Nat, NEW d \in Nat, IndInv, CountInv(p, d), Uncounted
    PROVE  CountInv(p, d)'
<1> SUFFICES ASSUME NEW e \in Endpoint PROVE Counted(e, p, d)'
  BY DEF CountInv
<1>1. Counted(e, p, d)
  BY DEF CountInv
<1> QED
  BY <1>1, CountStays DEF Uncounted

\* No test of the loop body after read_incoming_messages leads to send_acknowledgement.
LEMMA AcknowledgesNowhereElse ==
    ASSUME NEW e \in Endpoint, NEW r, NEW eof
    PROVE  /\ AfterReading(r) # "acknowledge" /\ AfterDraining(r) # "acknowledge"
           /\ AfterPublishing(e, eof) # "acknowledge" /\ AfterAcknowledging(e, eof) # "acknowledge"
           /\ AfterReleasing(e, eof) = "acknowledge" => received_fd_count[e] > 0
           /\ AfterParsing(e, eof) = "acknowledge" => received_fd_count[e] > 0
<1>1. \A s : AfterReading(s) # "acknowledge"
  BY DEF AfterReading
<1>2. AfterPublishing(e, eof) # "acknowledge" /\ AfterAcknowledging(e, eof) # "acknowledge"
  BY <1>1 DEF AfterPublishing, AfterAcknowledging
<1>3. AfterReleasing(e, eof) = "acknowledge" => received_fd_count[e] > 0
  BY <1>2 DEF AfterReleasing
<1> QED
  BY <1>1, <1>2, <1>3 DEF AfterDraining, AfterParsing

\* The steps of the IO thread that acknowledge nothing.
LEMMA UncountedIo ==
    ASSUME NEW p, NEW d, IndInv, CountInv(p, d), NEW e \in Endpoint,
           IoThread(e), ~AcknowledgeReceivedFds(e)
    PROVE  Uncounted
<1> DEFINE Still == UNCHANGED <<posts, fds_posted, frames, posting>>
           MainStays == \A x \in Endpoint : main_pc'[x] = "enqueue" => main_pc[x] = "enqueue"
           Rest == \A x \in Endpoint : x # e => io_pc'[x] = io_pc[x]
           SameCount == received_fd_count' = received_fd_count
<1>1. /\ io_pc \in [Endpoint -> IOPc] /\ main_pc \in [Endpoint -> MainPc]
      /\ received_fd_count \in [Endpoint -> Nat]
  BY DEF IndInv, TypeOK
<1>2. \A x \in Endpoint : io_pc[x] = "acknowledge" => received_fd_count[x] > 0
  BY DEF CountInv, Counted
<1>3. ASSUME Still, MainStays, Rest, SameCount,
             io_pc'[e] = "acknowledge" => received_fd_count[e] > 0
      PROVE  Uncounted
  BY <1>2, <1>3 DEF Uncounted
<1>4. CASE \/ PeekSendQueue(e) \/ LoadState(e) \/ PollFails(e) \/ StopOnHangup(e) \/ PeekToSend(e)
           \/ SendFails(e) \/ DiscardWritten(e) \/ ReceiveEnds(e) \/ CheckTransferred(e) \/ MarkEof(e)
  <2>1. Still /\ main_pc' = main_pc /\ Rest /\ SameCount /\ io_pc'[e] # "acknowledge"
    BY <1>1, <1>4 DEF PeekSendQueue, LoadState, PollFails, StopOnHangup, PeekToSend, SendFails,
         DiscardWritten, ReceiveEnds, CheckTransferred, MarkEof, IoStep, parser, counts,
         mainLocals, mainRest, outside
  <2> QED
    BY <1>3, <2>1
<1>5. CASE Poll(e) \/ DrainWakeupPipe(e) \/ ParseEnds(e) \/ ReleaseAcknowledgedFds(e)
  <2>1. /\ Still /\ main_pc' = main_pc /\ Rest /\ SameCount
        /\ \E r, eof : io_pc'[e] \in {"drain_wakeup", AfterDraining(r), AfterParsing(e, eof),
                                      AfterReleasing(e, eof)}
    BY <1>1, <1>5 DEF Poll, DrainWakeupPipe, ParseEnds, ReleaseAcknowledgedFds, IoStep, parser,
         counts, mainLocals, mainRest, outside
  <2>2. io_pc'[e] = "acknowledge" => received_fd_count[e] > 0
    BY <2>1, AcknowledgesNowhereElse
  <2> QED
    BY <1>3, <2>1, <2>2
<1>6. CASE PublishBatch(e) \/ ReportEof(e) \/ FinalNotify(e)
  <2>1. /\ Still /\ Broadcast(e) /\ Rest /\ SameCount
        /\ \E r, eof : io_pc'[e] \in {"done", AfterReading(r), AfterPublishing(e, eof)}
    BY <1>1, <1>6 DEF PublishBatch, ReportEof, FinalNotify, IoStep, parser, counts, mainRest,
         outside
  <2>2. io_pc'[e] # "acknowledge"
    BY <2>1, AcknowledgesNowhereElse
  <2>3. MainStays
    BY <1>1, <2>1 DEF Broadcast
  <2> QED
    BY <1>3, <2>1, <2>2, <2>3
<1>7. CASE \E n \in 1..ChunkSize : SendSome(e, n) \/ ReceiveSome(e, n)
  <2>1. /\ Still /\ main_pc' = main_pc /\ Rest /\ SameCount
        /\ io_pc'[e] = io_pc[e] \/ io_pc'[e] \in {"parse", "receive"}
    BY <1>1, <1>7 DEF SendSome, ReceiveSome, IoStep, parser, counts, mainLocals, mainRest
  <2> QED
    BY <1>2, <1>3, <2>1
<1>8. CASE ParseAcknowledgement(e)
  <2>1. Still /\ main_pc' = main_pc /\ io_pc' = io_pc /\ SameCount
    BY <1>8 DEF ParseAcknowledgement, ioLocals, mainLocals, mainRest, outside
  <2> QED
    BY <1>2, <1>3, <2>1
<1>9. CASE ParseMessage(e)
  <2>1. /\ Still /\ main_pc' = main_pc /\ io_pc' = io_pc /\ io_pc[e] = "parse"
        /\ \A x \in Endpoint : x # e => received_fd_count'[x] = received_fd_count[x]
    BY <1>1, <1>9 DEF ParseMessage, ioLocals, mainLocals, mainRest, outside
  <2> QED
    BY <1>2, <2>1 DEF Uncounted
<1>10. CASE VerifyStopped(e)
  <2>1. /\ Still /\ SameCount /\ Rest /\ io_pc'[e] # "acknowledge"
        /\ main_pc' = main_pc \/ main_pc' = [main_pc EXCEPT ![e] = "dead"]
    BY <1>1, <1>10 DEF VerifyStopped, Die, IoStep, parser, counts, mainLocals, mainRest, outside
  <2>2. MainStays
    BY <1>1, <2>1
  <2> QED
    BY <1>3, <2>1, <2>2
<1> QED
  BY <1>4, <1>5, <1>6, <1>7, <1>8, <1>9, <1>10 DEF IoThread

\* The steps of the main thread that post and enqueue nothing.
LEMMA UncountedMain ==
    ASSUME NEW p, NEW d, IndInv, CountInv(p, d), NEW e \in Endpoint,
           MainContinues(e) \/ MainBegins(e) \/ Crash(e), ~EnqueueMessage(e),
           ~\E size \in PayloadSizes, n \in FdCounts : PostMessage(e, size, n),
           ~CreateTransport(e)
    PROVE  Uncounted
<1> DEFINE Still == UNCHANGED <<posts, fds_posted, frames, posting>>
           SameCount == received_fd_count' = received_fd_count
<1>1. io_pc \in [Endpoint -> IOPc] /\ main_pc \in [Endpoint -> MainPc]
  BY DEF IndInv, TypeOK
<1>2. \A x \in Endpoint : io_pc[x] = "acknowledge" => received_fd_count[x] > 0
  BY DEF CountInv, Counted
<1>3. CASE \/ WakeIoThread(e) \/ ActivateReadHook(e) \/ TakeMessages(e) \/ ReturnShouldShutdown(e)
           \/ TestReadable(e) \/ BlockOnCondition(e) \/ StoreDesiredState(e)
  <2>1. /\ Still /\ SameCount /\ io_pc' = io_pc
        /\ \E to \in MainPc \ {"enqueue"} : main_pc' = [main_pc EXCEPT ![e] = to]
    BY <1>3 DEF WakeIoThread, ActivateReadHook, TakeMessages, ReturnShouldShutdown, TestReadable,
         BlockOnCondition, StoreDesiredState, MainStep, parser, counts, ioLocals, mainRest, outside,
         MainPc
  <2> QED
    BY <1>1, <1>2, <2>1 DEF Uncounted
<1>4. CASE JoinAndClose(e) \/ JoinAndRelease(e) \/ LockToWait(e) \/ \E op \in StopOps : BeginStop(e, op)
  <2>1. /\ Still /\ SameCount /\ io_pc' = io_pc
        /\ \E to \in MainPc \ {"enqueue"} : main_pc' = [main_pc EXCEPT ![e] = to]
    BY <1>4 DEF JoinAndClose, JoinAndRelease, LockToWait, BeginStop, MainStep, parser, counts,
         ioLocals, mainRest, outside, MainPc
  <2> QED
    BY <1>1, <1>2, <2>1 DEF Uncounted
<1>5. CASE SetUpReadHook(e)
  <2>1. Still /\ SameCount /\ io_pc' = io_pc /\ main_pc' = main_pc
    BY <1>5 DEF SetUpReadHook, parser, counts, ioLocals, outside
  <2> QED
    BY <1>2, <2>1 DEF Uncounted
<1>6. CASE Crash(e)
  <2>1. /\ Still /\ SameCount /\ io_pc' = [io_pc EXCEPT ![e] = "dead"]
        /\ main_pc' = [main_pc EXCEPT ![e] = "dead"]
    BY <1>6 DEF Crash, Die, parser, counts, mainRest
  <2> QED
    BY <1>1, <1>2, <2>1 DEF Uncounted
<1> QED
  BY <1>3, <1>4, <1>5, <1>6 DEF MainContinues, MainBegins

\* What the other end does not see.
LEMMA OthersStay ==
    ASSUME NEW p \in Nat, NEW d \in Nat, NEW e \in Endpoint, IndInv, CountInv(p, d), Counted(e, p, d)',
           \A x \in Endpoint : x # e =>
                /\ posts'[x] = posts[x] /\ fds_posted'[x] = fds_posted[x] /\ frames'[x] = frames[x]
                /\ posting'[x] = posting[x] /\ main_pc'[x] = main_pc[x] /\ io_pc'[x] = io_pc[x]
                /\ received_fd_count'[x] = received_fd_count[x]
    PROVE  CountInv(p, d)'
<1> SUFFICES ASSUME NEW x \in Endpoint, x # e PROVE Counted(x, p, d)'
  BY DEF CountInv
<1>1. Counted(x, p, d)
  BY DEF CountInv
<1>2. io_pc[x] = "acknowledge" => received_fd_count[x] > 0
  BY <1>1 DEF Counted
<1> QED
  BY <1>1, <1>2, CountStays

\* post_message pays for the message it is about to enqueue.
LEMMA PostIsCounted ==
    ASSUME NEW p \in Nat, NEW d \in Nat, IndInv, CountInv(p, d), Ample(p, d), NEW e \in Endpoint,
           NEW size \in PayloadSizes, NEW n \in FdCounts, PostMessage(e, size, n)
    PROVE  CountInv(p, d)'
<1> DEFINE H == HeaderSize
           P == posts[e]
           F == fds_posted[e]
           B == AllBytes(e)
           A == AllAcks(e)
<1>1. /\ P \in Nat /\ F \in Nat /\ MaxPosts[e] \in Nat /\ B \in Nat /\ A \in Nat /\ H \in Nat
  BY CountTypes
<1>2. size \in Nat /\ n \in Nat /\ size <= p /\ n <= d
  BY InputAssumption DEF Ample, InputAssumption
<1>3. /\ posts'[e] = P + 1 /\ fds_posted'[e] = F + n /\ frames' = frames /\ P < MaxPosts[e]
      /\ main_pc[e] = "idle" /\ posting'[e].payload_size = size /\ io_pc' = io_pc
      /\ received_fd_count' = received_fd_count
  BY DEF PostMessage, MainStep, IndInv, TypeOK, parser, counts, ioLocals, outside
<1>4. /\ F <= P * d /\ B + 0 <= P * (H + p) + A * H
      /\ io_pc[e] = "acknowledge" => received_fd_count[e] > 0
  BY <1>3 DEF CountInv, Counted, Pending
<1>5. /\ \A x \in Endpoint : x # e =>
           /\ posts'[x] = posts[x] /\ fds_posted'[x] = fds_posted[x] /\ frames'[x] = frames[x]
           /\ posting'[x] = posting[x] /\ main_pc'[x] = main_pc[x] /\ io_pc'[x] = io_pc[x]
           /\ received_fd_count'[x] = received_fd_count[x]
  BY <1>3 DEF PostMessage, MainStep, IndInv, TypeOK
<1>6. Pending(e)' = H + size \/ Pending(e)' = 0
  BY <1>3 DEF Pending
<1>7. AllBytes(e)' = B /\ AllAcks(e)' = A
  BY <1>3 DEF AllBytes, AllAcks
<1>8. /\ P * d \in Nat /\ (P + 1) * d = P * d + d
      /\ P * (H + p) \in Nat /\ (P + 1) * (H + p) = P * (H + p) + (H + p) /\ A * H \in Nat
  <2>1. H + p \in Nat
    BY <1>1
  <2> QED
    BY <1>1, <2>1, OneMore
<1> HIDE DEF H, P, F, B, A
<1> DEFINE Pd == P * d
           Ph == P * (H + p)
           Ah == A * H
<1>9. F + n <= (P + 1) * d
  <2> HIDE DEF Pd
  <2>1. Pd \in Nat /\ F <= Pd /\ (P + 1) * d = Pd + d
    BY <1>4, <1>8 DEF Pd
  <2> QED
    BY <1>1, <1>2, <2>1
<1>10. B + Pending(e)' <= (P + 1) * (H + p) + A * H
  <2> HIDE DEF Ph, Ah
  <2>1. /\ Ph \in Nat /\ Ah \in Nat /\ B <= Ph + Ah /\ (P + 1) * (H + p) = Ph + (H + p)
        /\ A * H = Ah
    BY <1>1, <1>4, <1>8 DEF Ph, Ah
  <2> DEFINE top == (P + 1) * (H + p)
  <2>2. top = Ph + (H + p)
    BY <2>1
  <2> HIDE DEF top
  <2>3. B + Pending(e)' <= top + Ah
    BY <1>1, <1>2, <1>6, <2>1, <2>2
  <2> QED
    BY <2>1, <2>3 DEF top
<1>11. Counted(e, p, d)'
  <2>1. posts'[e] <= MaxPosts[e]
    BY <1>1, <1>3
  <2>2. fds_posted'[e] <= posts'[e] * d
    BY <1>3, <1>9
  <2>3. AllBytes(e)' + Pending(e)' <= posts'[e] * (H + p) + AllAcks(e)' * H
    BY <1>3, <1>7, <1>10
  <2>4. io_pc'[e] = "acknowledge" => received_fd_count'[e] > 0
    BY <1>3, <1>4
  <2> QED
    BY <2>1, <2>2, <2>3, <2>4 DEF Counted, H
<1> QED
  BY <1>5, <1>11, OthersStay

\* The message that is enqueued is the one that was pending.
LEMMA EnqueueIsCounted ==
    ASSUME NEW p \in Nat, NEW d \in Nat, IndInv, StreamInv, CountInv(p, d), NEW e \in Endpoint,
           EnqueueMessage(e)
    PROVE  CountInv(p, d)'
<1> DEFINE fs == frames[e]
           f == posting[e]
           L == Len(fs)
           rhs == posts[e] * (HeaderSize + p) + AllAcks(e) * HeaderSize
<1>1. /\ fs \in Seq(Frame) /\ f \in Frame /\ AllBytes(e) \in Nat /\ AllAcks(e) \in Nat
      /\ HeaderSize \in Nat /\ f.payload_size \in Nat
  BY CountTypes
<1>2. f.type = "Payload"
  BY DEF StreamInv, EndFits, PostingFits
<1>3. /\ main_pc[e] = "enqueue" /\ main_pc'[e] = "wake" /\ frames'[e] = Append(fs, f)
      /\ posts' = posts /\ fds_posted' = fds_posted /\ io_pc' = io_pc
      /\ received_fd_count' = received_fd_count
  BY DEF EnqueueMessage, MainStep, IndInv, TypeOK, parser, counts, ioLocals
<1>4. /\ posts[e] <= MaxPosts[e] /\ fds_posted[e] <= posts[e] * d
      /\ AllBytes(e) + (HeaderSize + f.payload_size) <= rhs
      /\ io_pc[e] = "acknowledge" => received_fd_count[e] > 0
  BY <1>3 DEF CountInv, Counted, Pending
<1>5. \A x \in Endpoint : x # e =>
           /\ posts'[x] = posts[x] /\ fds_posted'[x] = fds_posted[x] /\ frames'[x] = frames[x]
           /\ posting'[x] = posting[x] /\ main_pc'[x] = main_pc[x] /\ io_pc'[x] = io_pc[x]
           /\ received_fd_count'[x] = received_fd_count[x]
  BY <1>3 DEF EnqueueMessage, MainStep, IndInv, TypeOK
<1>6. /\ AllBytes(e)' = AllBytes(e) + (HeaderSize + f.payload_size) /\ AllAcks(e)' = AllAcks(e)
  <2> DEFINE gs == Append(fs, f)
  <2>1. /\ gs \in Seq(Frame) /\ Len(gs) = L + 1 /\ gs[L + 1] = f /\ L \in Nat
        /\ \A n \in 0..L : BytesUpTo(gs, n) = BytesUpTo(fs, n) /\ AcksUpTo(gs, n) = AcksUpTo(fs, n)
    BY <1>1, FrameSumsAppend
  <2> HIDE DEF gs, fs, f, L
  <2>2. L + 1 \in 1..Len(gs) /\ (L + 1) - 1 = L /\ L \in 0..L
    BY <2>1
  <2>3. /\ BytesUpTo(gs, L + 1) = BytesUpTo(gs, (L + 1) - 1) + (HeaderSize + gs[L + 1].payload_size)
        /\ AcksUpTo(gs, L + 1) = AcksUpTo(gs, (L + 1) - 1)
             + (IF gs[L + 1].type = "Acknowledgement" THEN gs[L + 1].fd_count ELSE 0)
    BY <2>1, <2>2, FrameSums
  <2>4. AcksUpTo(fs, L) \in Nat /\ BytesUpTo(fs, L) \in Nat
    BY <1>1, <2>2, FrameSums DEF L
  <2>5. BytesUpTo(gs, L + 1) = BytesUpTo(fs, L) + (HeaderSize + f.payload_size)
    BY <2>1, <2>2, <2>3
  <2>6. AcksUpTo(gs, L + 1) = AcksUpTo(fs, L)
    BY <1>2, <2>1, <2>2, <2>3, <2>4
  <2>7. frames'[e] = gs
    BY <1>3 DEF gs
  <2> QED
    BY <2>1, <2>5, <2>6, <2>7 DEF AllBytes, AllAcks, fs, L
<1>7. Pending(e)' = 0
  BY <1>3 DEF Pending
<1>8. rhs' = rhs
  BY <1>3, <1>6
<1>9. AllBytes(e)' + Pending(e)' <= rhs'
  <2> HIDE DEF rhs, f
  <2>1. AllBytes(e)' \in Nat
    BY <1>1, <1>6
  <2> QED
    BY <1>4, <1>6, <1>7, <1>8, <2>1
<1>10. Counted(e, p, d)'
  BY <1>3, <1>4, <1>9 DEF Counted
<1> QED
  BY <1>5, <1>10, OthersStay

\* An acknowledgement is paid for by the descriptors it acknowledges.
LEMMA AcknowledgementIsCounted ==
    ASSUME NEW p \in Nat, NEW d \in Nat, IndInv, CountInv(p, d), NEW e \in Endpoint,
           AcknowledgeReceivedFds(e)
    PROVE  CountInv(p, d)'
<1> DEFINE fs == frames[e]
           f == Acknowledgement(e)
           L == Len(fs)
           H == HeaderSize
           A == AllAcks(e)
           R == received_fd_count[e]
           Ph == posts[e] * (HeaderSize + p)
<1>1. /\ fs \in Seq(Frame) /\ AllBytes(e) \in Nat /\ A \in Nat /\ H \in Nat /\ R \in Nat
      /\ Pending(e) \in Nat /\ posts[e] \in Nat
  BY CountTypes
<1>2. f \in Frame /\ f.payload_size = 0 /\ f.fd_count = R /\ f.type = "Acknowledgement"
  BY <1>1 DEF Acknowledgement, Frame
<1>3. /\ main_pc' = main_pc /\ frames'[e] = Append(fs, f) /\ posting' = posting
      /\ posts' = posts /\ fds_posted' = fds_posted /\ io_pc[e] = "acknowledge"
      /\ io_pc'[e] # "acknowledge"
  BY AcknowledgesNowhereElse
  DEF AcknowledgeReceivedFds, IoStep, IndInv, TypeOK, mainLocals, mainRest
<1>4. /\ posts[e] <= MaxPosts[e] /\ fds_posted[e] <= posts[e] * d
      /\ AllBytes(e) + Pending(e) <= Ph + A * H /\ R > 0
  BY <1>3 DEF CountInv, Counted
<1>5. \A x \in Endpoint : x # e =>
           /\ posts'[x] = posts[x] /\ fds_posted'[x] = fds_posted[x] /\ frames'[x] = frames[x]
           /\ posting'[x] = posting[x] /\ main_pc'[x] = main_pc[x] /\ io_pc'[x] = io_pc[x]
           /\ received_fd_count'[x] = received_fd_count[x]
  BY <1>3 DEF AcknowledgeReceivedFds, IoStep, IndInv, TypeOK
<1>6. AllBytes(e)' = AllBytes(e) + H /\ AllAcks(e)' = A + R
  <2> DEFINE gs == Append(fs, f)
  <2>1. /\ gs \in Seq(Frame) /\ Len(gs) = L + 1 /\ gs[L + 1] = f /\ L \in Nat
        /\ \A n \in 0..L : BytesUpTo(gs, n) = BytesUpTo(fs, n) /\ AcksUpTo(gs, n) = AcksUpTo(fs, n)
    BY <1>1, <1>2, FrameSumsAppend
  <2> HIDE DEF gs, fs, f, L, R
  <2>2. L + 1 \in 1..Len(gs) /\ (L + 1) - 1 = L /\ L \in 0..L
    BY <2>1
  <2>3. /\ BytesUpTo(gs, L + 1) = BytesUpTo(gs, (L + 1) - 1) + (HeaderSize + gs[L + 1].payload_size)
        /\ AcksUpTo(gs, L + 1) = AcksUpTo(gs, (L + 1) - 1)
             + (IF gs[L + 1].type = "Acknowledgement" THEN gs[L + 1].fd_count ELSE 0)
    BY <2>1, <2>2, FrameSums
  <2>4. BytesUpTo(gs, L + 1) = BytesUpTo(fs, L) + (HeaderSize + 0)
    BY <1>2, <2>1, <2>2, <2>3
  <2>5. AcksUpTo(gs, L + 1) = AcksUpTo(fs, L) + R
    BY <1>2, <2>1, <2>2, <2>3
  <2>6. frames'[e] = gs
    BY <1>3 DEF gs
  <2> QED
    BY <1>1, <2>1, <2>4, <2>5, <2>6 DEF AllBytes, AllAcks, fs, L
<1>7. Pending(e)' = Pending(e)
  BY <1>3 DEF Pending
<1>8. A * H + H <= (A + R) * H /\ A * H \in Nat /\ Ph \in Nat
  <2> HIDE DEF A, R, H
  <2>1. A + 1 \in Nat /\ A + R \in Nat /\ A + 1 <= A + R
    BY <1>1, <1>4
  <2>2. (A + 1) * H <= (A + R) * H
    BY <1>1, <2>1, ProductsGrow
  <2>3. A * H \in Nat /\ (A + 1) * H = A * H + H
    BY <1>1, OneMore
  <2>4. Ph \in Nat
    BY <1>1, OneMore DEF H
  <2> QED
    BY <2>2, <2>3, <2>4
<1>9. AllBytes(e)' + Pending(e)' <= Ph + (A + R) * H
  <2> DEFINE Ah == A * H
             top == (A + R) * H
  <2>1. Ah + H <= top /\ Ah \in Nat /\ Ph \in Nat /\ AllBytes(e) + Pending(e) <= Ph + Ah
    BY <1>4, <1>8
  <2>2. top \in Nat
    BY <1>1, OneMore
  <2> HIDE DEF Ah, top, Ph, H
  <2>3. AllBytes(e)' + Pending(e)' <= Ph + top
    BY <1>1, <1>6, <1>7, <2>1, <2>2
  <2> QED
    BY <2>3 DEF top
<1>10. Counted(e, p, d)'
  BY <1>3, <1>4, <1>6, <1>9 DEF Counted
<1> QED
  BY <1>5, <1>10, OthersStay

-----------------------------------------------------------------------------
(* The count keeps the streams within the limits. *)

\* Whatever an end has received and whatever is on its way has been paid for.
LEMMA PaidFor ==
    ASSUME NEW p \in Nat, NEW d \in Nat, IndInv, StreamInv, CountInv(p, d), Ample(p, d),
           NEW e \in Endpoint
    PROVE  /\ AllBytes(e) \in Nat /\ AllBytes(e) <= MaxUnprocessedBytes
           /\ FdsUpTo(frames[e], Len(frames[e])) \in Nat
           /\ FdsUpTo(frames[e], Len(frames[e])) <= MaxUnprocessedFds
<1> DEFINE q == Peer(e)
           H == HeaderSize
           all == FdsUpTo(frames[e], Len(frames[e]))
           allq == FdsUpTo(frames[q], Len(frames[q]))
<1>0. H + p \in Nat
  BY SizeAssumption DEF SizeAssumption
<1>1. q \in Endpoint /\ Peer(q) = e
  BY OtherEnd
<1>2. PICK k \in 0..Len(frames[e]) : Stream(e, k)
  BY DEF StreamInv
<1>3. PICK j \in 0..Len(frames[q]) : Stream(q, j)
  BY <1>1 DEF StreamInv
<1>4. /\ posts[e] \in Nat /\ posts[q] \in Nat /\ MaxPosts[e] \in Nat /\ MaxPosts[q] \in Nat
      /\ AllBytes(e) \in Nat /\ AllAcks(e) \in Nat /\ Pending(e) \in Nat /\ H \in Nat
      /\ fds_posted[e] \in Nat /\ fds_posted[q] \in Nat /\ received_fd_count[e] \in Nat
  BY <1>1, CountTypes
<1>5. all \in Nat /\ all <= fds_posted[e]
  BY <1>2, LetGoBounds
<1>6. /\ FdsUpTo(frames[q], j) \in Nat /\ FdsUpTo(frames[q], j) <= allq /\ allq \in Nat
      /\ allq <= fds_posted[q]
  BY <1>1, <1>3, LetGoBounds
<1>7. FdsUpTo(frames[q], j) = AllAcks(e) + received_fd_count[e]
  BY <1>1, <1>3 DEF Stream, ParsedFits, AllAcks
<1>8. AllAcks(e) <= fds_posted[q]
  <2> HIDE DEF allq, q
  <2> QED
    BY <1>4, <1>6, <1>7
<1>9. /\ posts[e] <= MaxPosts[e] /\ fds_posted[e] <= posts[e] * d
      /\ AllBytes(e) + Pending(e) <= posts[e] * (H + p) + AllAcks(e) * H
      /\ posts[q] <= MaxPosts[q] /\ fds_posted[q] <= posts[q] * d
  BY <1>1 DEF CountInv, Counted
<1>10. /\ posts[e] * d <= MaxPosts[e] * d /\ posts[q] * d <= MaxPosts[q] * d
       /\ posts[e] * (H + p) <= MaxPosts[e] * (H + p)
  BY <1>4, <1>9, <1>0, ProductsGrow
<1>11. /\ posts[e] * d \in Nat /\ MaxPosts[e] * d \in Nat /\ posts[q] * d \in Nat
       /\ MaxPosts[q] * d \in Nat /\ posts[e] * (H + p) \in Nat /\ MaxPosts[e] * (H + p) \in Nat
       /\ AllAcks(e) * H \in Nat
  BY <1>4, <1>0, OneMore
<1>12. AllAcks(e) * H <= (MaxPosts[q] * d) * H /\ (MaxPosts[q] * d) * H \in Nat
  <2> DEFINE m == MaxPosts[q] * d
             pd == posts[q] * d
  <2>1. m \in Nat /\ pd \in Nat /\ pd <= m /\ fds_posted[q] <= pd
    BY <1>9, <1>10, <1>11
  <2> HIDE DEF m, pd
  <2>2. AllAcks(e) <= m
    BY <1>4, <1>8, <2>1
  <2>3. AllAcks(e) * H <= m * H /\ m * H \in Nat
    BY <1>4, <2>1, <2>2, ProductsGrow, OneMore
  <2> QED
    BY <2>3 DEF m
<1>13. /\ MaxPosts[e] * (H + p) + (MaxPosts[q] * d) * H <= MaxUnprocessedBytes
       /\ MaxPosts[e] * d <= MaxUnprocessedFds
       /\ MaxUnprocessedBytes \in Nat /\ MaxUnprocessedFds \in Nat
  BY SizeAssumption DEF Ample, SizeAssumption
<1>14. all <= MaxUnprocessedFds
  <2> DEFINE m == MaxPosts[e] * d
             pd == posts[e] * d
  <2>1. m \in Nat /\ pd \in Nat /\ pd <= m /\ fds_posted[e] <= pd /\ m <= MaxUnprocessedFds
    BY <1>9, <1>10, <1>11, <1>13
  <2> HIDE DEF m, pd, all
  <2> QED
    BY <1>4, <1>5, <1>13, <2>1
<1>15. AllBytes(e) <= MaxUnprocessedBytes
  <2> DEFINE a == posts[e] * (H + p)
             b == MaxPosts[e] * (H + p)
             c == AllAcks(e) * H
             m == (MaxPosts[q] * d) * H
  <2>1. /\ a \in Nat /\ b \in Nat /\ c \in Nat /\ m \in Nat /\ a <= b /\ c <= m
        /\ b + m <= MaxUnprocessedBytes /\ AllBytes(e) + Pending(e) <= a + c
    BY <1>9, <1>10, <1>11, <1>12, <1>13
  <2> HIDE DEF a, b, c, m
  <2> QED
    BY <1>4, <1>13, <2>1
<1> QED
  BY <1>4, <1>5, <1>14, <1>15

\* So no receive goes over a limit.
LEMMA CountKeepsLimits ==
    ASSUME NEW p \in Nat, NEW d \in Nat, IndInv, StreamInv, CountInv(p, d), Ample(p, d)
    PROVE  WithinLimits
<1> SUFFICES ASSUME NEW e \in Endpoint, NEW n \in 1..ChunkSize, n <= Len(wire[Peer(e)]),
                    Cardinality(CarriersIn(wire[Peer(e)], n)) <= 1
             PROVE  /\ Len(unprocessed_bytes[e]) + n <= MaxUnprocessedBytes
                    /\ Len(unprocessed_fds[e]) + Len(FdsIn(wire[Peer(e)], n)) <= MaxUnprocessedFds
  BY DEF WithinLimits
<1> DEFINE q == Peer(e)
           fs == frames[q]
           w == wire[q]
           u == Len(unprocessed_bytes[e])
           v == Len(unprocessed_fds[e])
           L == Len(w)
           T == Totals(WireFds(w))
<1>1. q \in Endpoint /\ Peer(q) = e
  BY OtherEnd
<1>2. PICK k \in 0..Len(fs) : Stream(q, k)
  BY <1>1 DEF StreamInv
<1>3. BytesFlow(fs, k, unprocessed_bytes[e], w) /\ FdsFlow(fs, k, unprocessed_fds[e], w)
  BY <1>1, <1>2 DEF Stream, Flows
<1>4. /\ fs \in Seq(Frame) /\ Len(fs) \in Nat /\ w \in Seq(Carrier) /\ u \in Nat /\ v \in Nat
      /\ L \in Nat /\ n \in Nat /\ n \in 0..L /\ L \in 1..L
  <2>1. fs \in Seq(Frame) /\ Len(fs) \in Nat /\ w \in Seq(Carrier)
    BY <1>1, EndTypes
  <2>2. u \in Nat /\ v \in Nat
    BY EndTypes, LenProperties
  <2>3. L \in Nat
    BY <2>1, LenProperties
  <2>4. n \in Nat /\ 1 <= n /\ n <= L
    BY SizeAssumption DEF SizeAssumption
  <2> HIDE DEF L, u, v
  <2> QED
    BY <2>1, <2>2, <2>3, <2>4
<1>5. /\ BytesUpTo(fs, Len(fs)) \in Nat /\ BytesUpTo(fs, Len(fs)) <= MaxUnprocessedBytes
      /\ FdsUpTo(fs, Len(fs)) \in Nat /\ FdsUpTo(fs, Len(fs)) <= MaxUnprocessedFds
      /\ MaxUnprocessedBytes \in Nat /\ MaxUnprocessedFds \in Nat
  BY <1>1, PaidFor, SizeAssumption DEF AllBytes, SizeAssumption
<1>6. BytesUpTo(fs, k) \in Nat /\ FdsUpTo(fs, k) \in Nat
  BY <1>4, FrameSums
<1>7. (BytesUpTo(fs, k) + u) + L <= BytesUpTo(fs, Len(fs))
  <2>1. IsByte(fs, w[L].byte, BytesUpTo(fs, k) + u + L)
    BY <1>3, <1>4 DEF BytesFlow
  <2>2. w[L].byte \in Nat \X Nat
    BY <1>4, WireNumbers
  <2>3. w[L].byte[1] <= Len(fs) /\ Len(fs) \in 0..Len(fs)
    BY <1>4, <2>1 DEF IsByte
  <2> QED
    BY <1>4, <2>1, <2>2, <2>3, ByteBounds
<1>8. Len(FdsIn(w, n)) = T[n] /\ T[n] \in Nat /\ T[L] \in Nat /\ T[n] <= T[L]
  <2>1. WireFds(w) \in Seq(Nat) /\ Len(WireFds(w)) = L
    BY <1>4, WireNumbers
  <2>2. Len(FdsIn(w, n)) = T[n]
    BY <1>4, FdsOfReceived
  <2>3. n \in 0..Len(WireFds(w)) /\ L \in n..Len(WireFds(w))
    BY <1>4, <2>1
  <2>4. T[n] <= T[L] /\ T[n] \in Nat /\ T[L] \in Nat
    BY <2>1, <2>3, TotalsGrow
  <2> QED
    BY <2>2, <2>4
<1>9. (FdsUpTo(fs, k) + v) + T[L] <= FdsUpTo(fs, Len(fs))
  BY <1>3 DEF FdsFlow
<1> HIDE DEF u, v, L, T, fs, w
<1>10. n <= L
  BY DEF L, w
<1>11. u + n <= MaxUnprocessedBytes
  BY <1>4, <1>5, <1>6, <1>7, <1>10
<1>12. v + Len(FdsIn(w, n)) <= MaxUnprocessedFds
  <2> DEFINE t == T[n]
             b == T[L]
             g == FdsUpTo(fs, k)
             all == FdsUpTo(fs, Len(fs))
  <2>1. /\ t \in Nat /\ b \in Nat /\ t <= b /\ g \in Nat /\ all \in Nat /\ v \in Nat
        /\ (g + v) + b <= all /\ all <= MaxUnprocessedFds
    BY <1>4, <1>5, <1>6, <1>8, <1>9
  <2>2. Len(FdsIn(w, n)) = t
    BY <1>8
  <2> HIDE DEF t, b, g, all
  <2>3. v + t <= MaxUnprocessedFds
    BY <1>5, <2>1
  <2> QED
    BY <2>2, <2>3
<1> QED
  BY <1>11, <1>12 DEF u, v, w

\* Every step keeps the count.
LEMMA CountNext ==
    ASSUME NEW p \in Nat, NEW d \in Nat, Unbroken, Ample(p, d), IndInv, StreamInv, CountInv(p, d),
           [Next]_vars
    PROVE  CountInv(p, d)'
<1>1. CASE UNCHANGED vars
  <2>1. UNCHANGED <<posts, fds_posted, frames, posting, main_pc, io_pc, received_fd_count>>
    BY <1>1 DEF vars, parser, counts, ioLocals, mainLocals, mainRest, outside
  <2>2. Uncounted
    BY <2>1 DEF Uncounted, CountInv, Counted
  <2> QED
    BY <2>2, UncountedKeeps
<1>2. ASSUME NEW e \in Endpoint, IoThread(e) PROVE CountInv(p, d)'
  BY <1>2, UncountedIo, UncountedKeeps, AcknowledgementIsCounted
<1>3. ASSUME NEW e \in Endpoint, MainContinues(e) \/ MainBegins(e) \/ Crash(e)
      PROVE  CountInv(p, d)'
  <2>1. CASE EnqueueMessage(e)
    BY <2>1, EnqueueIsCounted
  <2>2. CASE \E size \in PayloadSizes, n \in FdCounts : PostMessage(e, size, n)
    BY <2>2, PostIsCounted
  <2>3. ~CreateTransport(e)
    BY NotTransferred
  <2> QED
    BY <1>3, <2>1, <2>2, <2>3, UncountedMain, UncountedKeeps
<1> QED
  BY <1>1, <1>2, <1>3 DEF Next

\* Nothing is counted at first.
LEMMA CountInit ==
    ASSUME NEW p \in Nat, NEW d \in Nat, Init
    PROVE  CountInv(p, d)
<1> SUFFICES ASSUME NEW e \in Endpoint PROVE Counted(e, p, d)
  BY DEF CountInv
<1>1. /\ posts[e] = 0 /\ fds_posted[e] = 0 /\ frames[e] = <<>> /\ main_pc[e] = "idle"
      /\ io_pc[e] = "peek"
  BY DEF Init
<1>2. <<>> \in Seq(Frame) /\ Len(<<>>) = 0
  OBVIOUS
<1>3. AllBytes(e) = 0 /\ AllAcks(e) = 0 /\ Pending(e) = 0
  BY <1>1, <1>2, FrameSums DEF AllBytes, AllAcks, Pending
<1>4. MaxPosts[e] \in Nat /\ HeaderSize \in Nat /\ HeaderSize + p \in Nat
  BY InputAssumption, SizeAssumption DEF InputAssumption, SizeAssumption
<1>5. 0 * d = 0 /\ 0 * (HeaderSize + p) = 0 /\ 0 * HeaderSize = 0
  BY <1>4
<1> QED
  BY <1>1, <1>3, <1>4, <1>5 DEF Counted

-----------------------------------------------------------------------------
(* What holds of the transport when the limits are ample. *)

\* read_incoming_messages never drops what it has received: with limits that are ample for the
\* messages posted, acknowledgements included, no receive goes over MAX_UNPROCESSED_BUFFER_SIZE or
\* MAX_UNPROCESSED_FDS, however the two ends are scheduled.
THEOREM LimitsAreKept ==
    ASSUME NEW p \in Nat, NEW d \in Nat, Unbroken, Ample(p, d)
    PROVE  Spec => []WithinLimits
<1>1. Init => StreamInv /\ CountInv(p, d)
  BY StreamInit, CountInit
<1>2. IndInv /\ StreamInv /\ CountInv(p, d) => WithinLimits
  BY CountKeepsLimits
<1>3. IndInv /\ StreamInv /\ CountInv(p, d) /\ [Next]_vars => StreamInv' /\ CountInv(p, d)'
  BY <1>2, StreamNext, CountNext
<1> QED
  BY <1>1, <1>2, <1>3, Invariance, PTL DEF Spec

\* With ample limits the transport alone, on every schedule, is the channel its users rely on, and
\* it retains every descriptor until the peer has received it.
THEOREM AmpleTransportIsChannel ==
    ASSUME NEW p \in Nat, NEW d \in Nat, Unbroken, Ample(p, d)
    PROVE  Spec => /\ ImplementsChannel
                   /\ []InOrderDelivery /\ []FdsRetainedUntilReceived
                   /\ []NoExcessAcknowledgement
  BY LimitsAreKept, TransportImplementsChannel, DeliveredInOrder, FdsStayRetained,
     AcknowledgedOnlyOnce, PTL

\* With ample limits and messages that the parser accepts, two ends of this code never disconnect
\* each other.
THEOREM AmpleTransportStaysConnected ==
    ASSUME NEW p \in Nat, NEW d \in Nat, Unbroken, Accepted, Ample(p, d)
    PROVE  Spec => []EofMeansDisconnected
  BY LimitsAreKept, EofOnlyWhenGone, PTL
=============================================================================
