----------------------- MODULE TransportSocketProofs -----------------------
(***************************************************************************)
(* Proofs about TransportSocket for any sizes, limits and operations.      *)
(***************************************************************************)
EXTENDS TransportSocket, SequenceTheorems, TLAPS

\* Each of the two ends has the other as its peer.
LEMMA PeerLemma == \A e \in Endpoint : Peer(e) \in Endpoint /\ Peer(e) # e
  BY EndpointAssumption DEF Peer, EndpointAssumption

\* Dropping any number of elements of a sequence leaves a sequence of the same type.
LEMMA DropType ==
    ASSUME NEW S, NEW s \in Seq(S), NEW n \in Nat
    PROVE  /\ Drop(s, n) \in Seq(S)
           /\ n <= Len(s) => Len(Drop(s, n)) = Len(s) - n
           /\ \A i \in 1..Len(Drop(s, n)) : Drop(s, n)[i] = s[n + i] /\ n + i \in 1..Len(s)
  BY DEF Drop

\* A function on 1..n is a sequence of length n.
LEMMA FunctionIsSequence ==
    ASSUME NEW S, NEW n \in Nat, NEW f \in [1..n -> S]
    PROVE  f \in Seq(S) /\ Len(f) = n
  OBVIOUS

\* A frame's bytes carry its number.
LEMMA BytesType ==
    ASSUME NEW n \in Nat, NEW f \in Frame
    PROVE  /\ Bytes(n, f) \in Seq(Nat \X Nat)
           /\ \A i \in 1..Len(Bytes(n, f)) : Bytes(n, f)[i] = <<n, i>>
<1>1. HeaderSize + f.payload_size \in Nat
  BY SizeAssumption DEF SizeAssumption, Frame
<1>2. Bytes(n, f) \in [1..(HeaderSize + f.payload_size) -> Nat \X Nat]
  BY <1>1 DEF Bytes
<1>3. Bytes(n, f) \in Seq(Nat \X Nat) /\ Len(Bytes(n, f)) = HeaderSize + f.payload_size
  BY <1>1, <1>2, FunctionIsSequence
<1> QED
  BY <1>3 DEF Bytes

USE DEF vars, shared, control, queues, pipes, parser, unprocessed, counts, ioLocals, polled,
        transfer, mainLocals, mainRest, outside

\* Where the IO thread can go after a test of its loop body.
LEMMA AfterLemma ==
    \A e \in Endpoint, eof \in BOOLEAN : \A r :
        /\ AfterReading(r) \in {"hangup", "write", "peek"}
        /\ AfterDraining(r) \in {"receive", "hangup", "write", "peek"}
        /\ AfterParsing(e, eof) \in {"release_acked", "acknowledge", "publish", "report_eof",
                                     "hangup", "write", "peek"}
        /\ AfterReleasing(e, eof) \in {"acknowledge", "publish", "report_eof", "hangup",
                                       "write", "peek"}
        /\ AfterAcknowledging(e, eof) \in {"publish", "report_eof", "hangup", "write", "peek"}
        /\ AfterPublishing(e, eof) \in {"report_eof", "hangup", "write", "peek"}
  BY DEF AfterReading, AfterDraining, AfterPublishing, AfterAcknowledging, AfterReleasing,
         AfterParsing

-----------------------------------------------------------------------------
(* TypeOK. *)

\* Everything starts out well typed.
LEMMA TypeInit == Init => TypeOK
  BY EndpointAssumption, InputAssumption, SizeAssumption
  DEF Init, TypeOK, IOThreadState, IOPc, MainPc, StopOps, Frame, NoFrame, Amount, Nothing

\* A part of a sequence is a sequence of the same type.
LEMMA SubSeqType ==
    ASSUME NEW S, NEW s \in Seq(S), NEW m \in Nat \ {0}, NEW n \in Nat, n <= Len(s)
    PROVE  SubSeq(s, m, n) \in Seq(S)
  OBVIOUS

\* Appending makes a sequence no shorter.
LEMMA ConcatGrows ==
    ASSUME NEW S, NEW s \in Seq(S), NEW t \in Seq(S)
    PROVE  Len(s) <= Len(s \o t)
<1>1. Len(s \o t) = Len(s) + Len(t) /\ Len(s) \in Nat /\ Len(t) \in Nat
  BY ConcatProperties
<1>2. QED
  BY <1>1

\* The type of one end's state.
LEMMA LocalTypes ==
    ASSUME TypeOK, NEW e \in Endpoint
    PROVE  /\ io_thread_state[e] \in IOThreadState /\ peer_eof[e] \in BOOLEAN
           /\ send_bytes[e] \in Seq(Nat \X Nat) /\ send_fds[e] \in Seq(Nat)
           /\ retained_fds[e] \in Seq(Nat) /\ incoming_messages[e] \in Seq(Message)
           /\ unprocessed_bytes[e] \in Seq(Nat \X Nat) /\ unprocessed_fds[e] \in Seq(Nat)
           /\ batch[e] \in Seq(Message) /\ wire[e] \in Seq(Carrier)
           /\ received_fd_count[e] \in Nat /\ acknowledged_fd_count[e] \in Nat
           /\ peeked[e] \in Amount /\ written[e] \in Amount
           /\ frames[e] \in Seq(Frame) /\ posting[e] \in Frame
           /\ delivered[e] \in Seq(Message)
  BY DEF TypeOK

\* The main thread's steps keep the types.
LEMMA TypeMain ==
    ASSUME TypeOK, NEW e \in Endpoint, MainContinues(e) \/ MainBegins(e)
    PROVE  TypeOK'
<1> <<>> \in Seq(Nat) /\ <<>> \in Seq(Nat \X Nat) /\ <<>> \in Seq(Message)
  OBVIOUS
<1>1. ASSUME NEW size \in PayloadSizes, NEW n \in FdCounts, PostMessage(e, size, n)
      PROVE  TypeOK'
  <2> DEFINE fds == [i \in 1..n |-> fds_posted[e] + i]
  <2>1. n \in Nat /\ size \in Nat /\ fds_posted[e] \in Nat
    BY InputAssumption DEF InputAssumption, TypeOK
  <2>2. fds \in Seq(Nat)
    <3>1. fds \in [1..n -> Nat]
      BY <2>1
    <3> QED
      BY <2>1, <3>1, FunctionIsSequence
  <2>3. retained_fds[e] \o fds \in Seq(Nat)
    BY <2>2, ConcatProperties DEF TypeOK
  <2> HIDE DEF fds
  <2>4. [type |-> "Payload", payload_size |-> size, fd_count |-> n, fds |-> fds] \in Frame
    BY <2>1, <2>2 DEF Frame
  <2>5. retained_fds' = [retained_fds EXCEPT ![e] = @ \o fds]
    BY <1>1 DEF PostMessage, fds
  <2>6. posting' = [posting EXCEPT ![e] = [type |-> "Payload", payload_size |-> size,
                                           fd_count |-> n, fds |-> fds]]
    BY <1>1 DEF PostMessage, fds
  <2>7. retained_fds' \in [Endpoint -> Seq(Nat)] /\ posting' \in [Endpoint -> Frame]
    BY <2>3, <2>4, <2>5, <2>6 DEF TypeOK
  <2>8. posts' \in [Endpoint -> Nat] /\ fds_posted' \in [Endpoint -> Nat]
    <3>1. /\ posts' = [posts EXCEPT ![e] = @ + 1]
          /\ fds_posted' = [fds_posted EXCEPT ![e] = @ + n]
      BY <1>1 DEF PostMessage
    <3>2. posts \in [Endpoint -> Nat] /\ fds_posted \in [Endpoint -> Nat]
      BY DEF TypeOK
    <3> QED
      BY <2>1, <3>1, <3>2
  <2>9. main_pc' \in [Endpoint -> MainPc]
    BY <1>1 DEF PostMessage, TypeOK, MainStep, MainPc
  <2> QED
    BY <1>1, <2>7, <2>8, <2>9 DEF PostMessage, TypeOK
<1>2. CASE EnqueueMessage(e)
  <2>1. posting[e] \in Frame /\ Len(frames[e]) + 1 \in Nat
    BY DEF TypeOK
  <2>2. send_bytes[e] \o Bytes(Len(frames[e]) + 1, posting[e]) \in Seq(Nat \X Nat)
    BY <2>1, BytesType, ConcatProperties DEF TypeOK
  <2>3. send_fds[e] \o posting[e].fds \in Seq(Nat)
    BY <2>1, ConcatProperties DEF TypeOK, Frame
  <2>4. Append(frames[e], posting[e]) \in Seq(Frame)
    BY <2>1, AppendProperties DEF TypeOK
  <2>5. NoFrame \in Frame
    BY DEF NoFrame, Frame
  <2> QED
    BY <1>2, <2>2, <2>3, <2>4, <2>5 DEF EnqueueMessage, TypeOK, MainStep, MainPc
<1>3. CASE WakeIoThread(e)
  BY <1>3 DEF WakeIoThread, TypeOK, MainStep, MainPc
<1>4. CASE SetUpReadHook(e)
  BY <1>4 DEF SetUpReadHook, TypeOK
<1>5. CASE ActivateReadHook(e)
  BY <1>5 DEF ActivateReadHook, TypeOK, MainStep, MainPc
<1>6. CASE TakeMessages(e)
  <2>1. delivered[e] \o incoming_messages[e] \in Seq(Message)
    BY ConcatProperties DEF TypeOK
  <2> QED
    BY <1>6, <2>1 DEF TakeMessages, TypeOK, MainStep, MainPc
<1>7. CASE ReturnShouldShutdown(e)
  BY <1>7 DEF ReturnShouldShutdown, TypeOK, MainStep, MainPc
<1>8. CASE LockToWait(e)
  BY <1>8 DEF LockToWait, TypeOK, MainStep, MainPc
<1>9. CASE TestReadable(e)
  BY <1>9 DEF TestReadable, TypeOK, MainStep, MainPc
<1>10. CASE BlockOnCondition(e)
  BY <1>10 DEF BlockOnCondition, TypeOK, MainStep, MainPc
<1>11. ASSUME NEW op \in StopOps, BeginStop(e, op) PROVE TypeOK'
  BY <1>11 DEF BeginStop, TypeOK, MainStep, MainPc
<1>12. CASE StoreDesiredState(e)
  BY <1>12 DEF StoreDesiredState, TypeOK, MainStep, MainPc, IOThreadState
<1>13. CASE JoinAndClose(e)
  <2>1. <<>> \in Seq(Carrier)
    OBVIOUS
  <2> QED
    BY <1>13, <2>1 DEF JoinAndClose, CloseSocket, TypeOK, MainStep, MainPc
<1>14. CASE JoinAndRelease(e)
  BY <1>14 DEF JoinAndRelease, TypeOK, MainStep, MainPc
<1>15. CASE CreateTransport(e)
  BY <1>15 DEF CreateTransport, TypeOK, MainStep, MainPc, IOPc, IOThreadState, StopOps
<1> QED
  BY <1>1, <1>2, <1>3, <1>4, <1>5, <1>6, <1>7, <1>8, <1>9, <1>10, <1>11, <1>12, <1>13,
     <1>14, <1>15 DEF MainContinues, MainBegins

\* What one receive carries is well typed.
LEMMA ReceivedType ==
    ASSUME NEW w \in Seq(Carrier), NEW n \in Nat, n <= Len(w)
    PROVE  /\ [i \in 1..n |-> w[i].byte] \in Seq(Nat \X Nat)
           /\ Len([i \in 1..n |-> w[i].byte]) = n
           /\ FdsIn(w, n) \in Seq(Nat)
<1> \A i \in 1..n : w[i] \in Carrier
  BY ElementOfSeq
<1>1. [i \in 1..n |-> w[i].byte] \in [1..n -> Nat \X Nat]
  <2>1. \A i \in 1..n : w[i].byte \in Nat \X Nat
    BY DEF Carrier
  <2> QED
    BY <2>1
<1>2. FdsIn(w, n) \in Seq(Nat)
  <2>1. CASE CarriersIn(w, n) = {}
    BY <2>1 DEF FdsIn
  <2>2. CASE CarriersIn(w, n) # {}
    <3>1. (CHOOSE i \in CarriersIn(w, n) : TRUE) \in 1..n
      BY <2>2 DEF CarriersIn
    <3>2. \A i \in 1..n : w[i].fds \in Seq(Nat)
      BY DEF Carrier
    <3> QED
      BY <2>2, <3>1, <3>2 DEF FdsIn
  <2> QED
    BY <2>1, <2>2
<1> QED
  BY <1>1, <1>2, FunctionIsSequence

\* A header is read as a frame's, or as natural numbers at least.
LEMMA HeaderType ==
    ASSUME TypeOK, BytesBelong, NEW e \in Endpoint, NEW h \in HeadersAt(e)
    PROVE  /\ Len(unprocessed_bytes[e]) >= HeaderSize
           /\ h.payload_size \in Nat /\ h.fd_count \in Nat
<1>1. Len(unprocessed_bytes[e]) >= HeaderSize /\ HeaderSize \in Nat \ {0}
  BY SizeAssumption DEF HeadersAt, TypeOK, SizeAssumption
<1>2. CASE h \in Garbage
  <2>1. /\ h.payload_size \in PayloadSizes \/ h.payload_size = 0
        /\ h.fd_count \in FdCounts \/ h.fd_count = 0
    BY <1>2 DEF Garbage
  <2>2. (\A x \in PayloadSizes : x \in Nat) /\ (\A x \in FdCounts : x \in Nat)
    BY InputAssumption DEF InputAssumption
  <2>3. h.payload_size \in Nat
    BY <2>1, <2>2
  <2>4. h.fd_count \in Nat
    BY <2>1, <2>2
  <2> QED
    BY <1>1, <2>3, <2>4
<1>3. CASE h \notin Garbage
  <2>1. 1 \in 1..Len(unprocessed_bytes[e]) /\ Peer(e) \in Endpoint
    BY <1>1, LocalTypes, PeerLemma
  <2>2. h = frames[Peer(e)][unprocessed_bytes[e][1][1]]
    BY <1>1, <1>3 DEF HeadersAt
  <2>3. unprocessed_bytes[e][1][1] \in 1..Len(frames[Peer(e)])
    BY <2>1 DEF BytesBelong
  <2>4. h \in Frame
    BY <2>1, <2>2, <2>3, ElementOfSeq DEF TypeOK
  <2> QED
    BY <1>1, <2>4 DEF Frame
<1> QED
  BY <1>2, <1>3

\* The IO thread's steps keep the types.
LEMMA TypeIo ==
    ASSUME TypeOK, PeekedStays, BytesBelong, NEW e \in Endpoint, IoThread(e) \/ Crash(e)
    PROVE  TypeOK'
<1> Peer(e) \in Endpoint
  BY PeerLemma
<1>1. CASE PeekSendQueue(e)
  BY <1>1 DEF PeekSendQueue, TypeOK, IoStep, IOPc
<1>2. CASE LoadState(e)
  BY <1>2 DEF LoadState, TypeOK, IoStep, IOPc, IOThreadState
<1>3. CASE Poll(e)
  <2>1. Ready(e) \in SUBSET {"IN", "HUP", "OUT", "WAKE"}
    BY DEF Ready
  <2> QED
    BY <1>3, <2>1, AfterLemma DEF Poll, TypeOK, IoStep, IOPc
<1>4. CASE PollFails(e)
  BY <1>4 DEF PollFails, TypeOK, IoStep, IOPc, IOThreadState
<1>5. CASE DrainWakeupPipe(e)
  BY <1>5, AfterLemma DEF DrainWakeupPipe, TypeOK, IoStep, IOPc
<1>6. CASE StopOnHangup(e)
  BY <1>6 DEF StopOnHangup, TypeOK, IoStep, IOPc, IOThreadState
<1>7. CASE PeekToSend(e)
  <2>1. [bytes |-> Lesser(ChunkSize, Len(send_bytes[e])),
         fds |-> Lesser(MaxTransferFds, Len(send_fds[e]))] \in Amount
    BY SizeAssumption, LocalTypes DEF SizeAssumption, Lesser, Amount
  <2> QED
    BY <1>7, <2>1 DEF PeekToSend, TypeOK, IoStep, IOPc
<1>8. CASE SendFails(e)
  BY <1>8 DEF SendFails, TypeOK, IoStep, IOPc, IOThreadState, Amount, Nothing
<1>9. CASE DiscardWritten(e)
  <2>1. written[e].bytes \in Nat /\ written[e].fds \in Nat
    BY DEF TypeOK, Amount
  <2>2. /\ Drop(send_bytes[e], written[e].bytes) \in Seq(Nat \X Nat)
        /\ Drop(send_fds[e], written[e].fds) \in Seq(Nat)
    BY <2>1, DropType DEF TypeOK
  <2> QED
    BY <1>9, <2>2 DEF DiscardWritten, TypeOK, IoStep, IOPc, Amount, Nothing
<1>10. ASSUME NEW n \in 1..ChunkSize, SendSome(e, n) PROVE TypeOK'
  <2> DEFINE chunk == Chunk(e, n)
  <2>1. /\ n \in Nat /\ written[e].bytes \in Nat /\ peeked[e].fds \in Nat
        /\ written[e].bytes + n <= Len(send_bytes[e]) /\ peeked[e].fds <= Len(send_fds[e])
    <3>1. /\ written[e] \in Amount /\ peeked[e] \in Amount
          /\ send_bytes[e] \in Seq(Nat \X Nat) /\ send_fds[e] \in Seq(Nat)
      BY LocalTypes
    <3>2. io_pc[e] = "send" /\ n <= Unsent(e)
      BY <1>10 DEF SendSome
    <3>3. /\ written[e].bytes <= peeked[e].bytes /\ peeked[e].bytes <= Len(send_bytes[e])
          /\ peeked[e].fds <= Len(send_fds[e])
      BY <3>2 DEF PeekedStays, Peeked
    <3>4. n \in Nat
      BY SizeAssumption DEF SizeAssumption
    <3> QED
      BY <3>1, <3>2, <3>3, <3>4 DEF Amount, Unsent
  <2>2. \A i \in 1..n : send_bytes[e][written[e].bytes + i] \in Nat \X Nat
    <3>1. send_bytes[e] \in Seq(Nat \X Nat)
      BY LocalTypes
    <3>2. \A i \in 1..n : written[e].bytes + i \in 1..Len(send_bytes[e])
      <4>1. Len(send_bytes[e]) \in Nat
        BY <3>1
      <4> QED
        BY <2>1, <4>1
    <3> QED
      BY <3>1, <3>2, ElementOfSeq
  <2>3. SubSeq(send_fds[e], 1, peeked[e].fds) \in Seq(Nat) /\ <<>> \in Seq(Nat)
    <3>1. send_fds[e] \in Seq(Nat)
      BY LocalTypes
    <3> QED
      BY <2>1, <3>1, SubSeqType
  <2>4. chunk \in [1..n -> Carrier]
    BY <2>2, <2>3 DEF Carrier, Chunk
  <2>5. wire[e] \o chunk \in Seq(Carrier)
    BY <2>1, <2>4, FunctionIsSequence, ConcatProperties DEF TypeOK
  <2>6. wire' = [wire EXCEPT ![e] = @ \o chunk]
    BY <1>10 DEF SendSome
  <2>7. written' \in [Endpoint -> Amount]
    <3>1. written' = [written EXCEPT ![e] = [bytes |-> @.bytes + n, fds |-> peeked[e].fds]]
      BY <1>10 DEF SendSome
    <3>2. [bytes |-> written[e].bytes + n, fds |-> peeked[e].fds] \in Amount
      BY <2>1 DEF Amount
    <3>3. written \in [Endpoint -> Amount]
      BY DEF TypeOK
    <3> QED
      BY <3>1, <3>2, <3>3
  <2> HIDE DEF chunk
  <2>8. wire' \in [Endpoint -> Seq(Carrier)]
    BY <2>5, <2>6 DEF TypeOK
  <2> QED
    BY <1>10, <2>7, <2>8 DEF SendSome, TypeOK
<1>11. ASSUME NEW n \in 1..ChunkSize, ReceiveSome(e, n) PROVE TypeOK'
  <2> DEFINE w == wire[Peer(e)]
             data == [i \in 1..n |-> w[i].byte]
  <2>1. w \in Seq(Carrier) /\ n \in Nat /\ n <= Len(w)
    BY <1>11 DEF ReceiveSome, TypeOK
  <2>2. /\ unprocessed_bytes[e] \o data \in Seq(Nat \X Nat)
        /\ unprocessed_fds[e] \o FdsIn(w, n) \in Seq(Nat)
        /\ Drop(w, n) \in Seq(Carrier)
    BY <2>1, LocalTypes, ReceivedType, ConcatProperties, DropType
  <2>3. \/ unprocessed_bytes' = unprocessed_bytes
        \/ unprocessed_bytes' = [unprocessed_bytes EXCEPT ![e] = @ \o data]
    BY <1>11 DEF ReceiveSome, TypeOK
  <2>4. \/ unprocessed_fds' = unprocessed_fds
        \/ unprocessed_fds' = [unprocessed_fds EXCEPT ![e] = @ \o FdsIn(w, n)]
    BY <1>11 DEF ReceiveSome, TypeOK
  <2>5. wire' = [wire EXCEPT ![Peer(e)] = Drop(w, n)]
    BY <1>11 DEF ReceiveSome
  <2>6. io_pc' \in [Endpoint -> IOPc] /\ peer_eof' \in [Endpoint -> BOOLEAN]
    BY <1>11 DEF ReceiveSome, TypeOK, IoStep, IOPc
  <2> HIDE DEF w, data
  <2>7. /\ unprocessed_bytes' \in [Endpoint -> Seq(Nat \X Nat)]
        /\ unprocessed_fds' \in [Endpoint -> Seq(Nat)]
        /\ wire' \in [Endpoint -> Seq(Carrier)]
    <3>1. /\ unprocessed_bytes \in [Endpoint -> Seq(Nat \X Nat)]
          /\ unprocessed_fds \in [Endpoint -> Seq(Nat)]
          /\ wire \in [Endpoint -> Seq(Carrier)]
      BY DEF TypeOK
    <3>2. unprocessed_bytes' \in [Endpoint -> Seq(Nat \X Nat)]
      BY <2>2, <2>3, <3>1
    <3>3. unprocessed_fds' \in [Endpoint -> Seq(Nat)]
      BY <2>2, <2>4, <3>1
    <3>4. wire' \in [Endpoint -> Seq(Carrier)]
      BY <2>2, <2>5, <3>1
    <3> QED
      BY <3>2, <3>3, <3>4
  <2> QED
    BY <1>11, <2>6, <2>7 DEF ReceiveSome, TypeOK
<1>12. CASE ReceiveEnds(e)
  BY <1>12 DEF ReceiveEnds, TypeOK, IoStep, IOPc
<1>13. CASE ParseMessage(e)
  <2>1. PICK h \in HeadersAt(e) :
            /\ ~Incomplete(e, h) /\ h.type = "Payload"
            /\ batch' = [batch EXCEPT ![e] = Append(@,
                    [bytes |-> SubSeq(unprocessed_bytes[e], HeaderSize + 1,
                                      HeaderSize + h.payload_size),
                     fds |-> SubSeq(unprocessed_fds[e], 1, h.fd_count)])]
            /\ received_fd_count' = [received_fd_count EXCEPT ![e] = @ + h.fd_count]
            /\ unprocessed_fds' = [unprocessed_fds EXCEPT ![e] = Drop(@, h.fd_count)]
            /\ unprocessed_bytes' = [unprocessed_bytes EXCEPT
                    ![e] = Drop(@, HeaderSize + h.payload_size)]
    BY <1>13 DEF ParseMessage
  <2>2. /\ h.payload_size \in Nat /\ h.fd_count \in Nat
        /\ HeaderSize \in Nat /\ HeaderSize + h.payload_size \in Nat
    BY <2>1, HeaderType, SizeAssumption DEF SizeAssumption
  <2>3. /\ HeaderSize + h.payload_size <= Len(unprocessed_bytes[e])
        /\ h.fd_count <= Len(unprocessed_fds[e])
    BY <2>1, <2>2, LocalTypes DEF Incomplete
  <2>4. SubSeq(unprocessed_bytes[e], HeaderSize + 1, HeaderSize + h.payload_size)
            \in Seq(Nat \X Nat)
    <3>1. unprocessed_bytes[e] \in Seq(Nat \X Nat) /\ HeaderSize + 1 \in Nat \ {0}
      BY <2>2, LocalTypes
    <3> QED
      BY <2>2, <2>3, <3>1, SubSeqType
  <2>5. SubSeq(unprocessed_fds[e], 1, h.fd_count) \in Seq(Nat)
    <3>1. unprocessed_fds[e] \in Seq(Nat)
      BY LocalTypes
    <3>2. h.fd_count \in Nat /\ h.fd_count <= Len(unprocessed_fds[e]) /\ 1 \in Nat \ {0}
      BY <2>2, <2>3
    <3> DEFINE n == h.fd_count
    <3> HIDE DEF n
    <3>3. n \in Nat /\ n <= Len(unprocessed_fds[e])
      BY <3>2 DEF n
    <3>4. SubSeq(unprocessed_fds[e], 1, n) \in Seq(Nat)
      BY <3>1, <3>2, <3>3, SubSeqType
    <3> QED
      BY <3>4 DEF n
  <2>6. /\ Drop(unprocessed_fds[e], h.fd_count) \in Seq(Nat)
        /\ Drop(unprocessed_bytes[e], HeaderSize + h.payload_size) \in Seq(Nat \X Nat)
    BY <2>2, DropType DEF TypeOK
  <2>7. batch' \in [Endpoint -> Seq(Message)]
    <3>1. [bytes |-> SubSeq(unprocessed_bytes[e], HeaderSize + 1,
                            HeaderSize + h.payload_size),
           fds |-> SubSeq(unprocessed_fds[e], 1, h.fd_count)] \in Message
      BY <2>4, <2>5 DEF Message
    <3>2. batch \in [Endpoint -> Seq(Message)]
      BY DEF TypeOK
    <3> QED
      BY <2>1, <3>1, <3>2, AppendProperties
  <2>8. /\ unprocessed_bytes' \in [Endpoint -> Seq(Nat \X Nat)]
        /\ unprocessed_fds' \in [Endpoint -> Seq(Nat)]
        /\ received_fd_count' \in [Endpoint -> Nat]
    <3>1. /\ unprocessed_bytes \in [Endpoint -> Seq(Nat \X Nat)]
          /\ unprocessed_fds \in [Endpoint -> Seq(Nat)]
          /\ received_fd_count \in [Endpoint -> Nat]
      BY DEF TypeOK
    <3> QED
      <4>1. unprocessed_bytes' \in [Endpoint -> Seq(Nat \X Nat)]
        BY <2>1, <2>6, <3>1
      <4>2. unprocessed_fds' \in [Endpoint -> Seq(Nat)]
        BY <2>1, <2>6, <3>1
      <4>3. received_fd_count' \in [Endpoint -> Nat]
        <5>1. received_fd_count' = [received_fd_count EXCEPT ![e] = @ + h.fd_count]
          BY <2>1
        <5> QED
          BY <2>2, <3>1, <5>1
      <4> QED
        BY <4>1, <4>2, <4>3
  <2>9. UNCHANGED <<shared, acknowledged_fd_count, ioLocals, mainLocals, outside>>
    BY <1>13 DEF ParseMessage
  <2> QED
    BY <2>7, <2>8, <2>9 DEF TypeOK
<1>14. CASE ParseAcknowledgement(e)
  <2>1. PICK h \in HeadersAt(e) :
            /\ acknowledged_fd_count' = [acknowledged_fd_count EXCEPT ![e] = @ + h.fd_count]
            /\ unprocessed_bytes' = [unprocessed_bytes EXCEPT ![e] = Drop(@, HeaderSize)]
    BY <1>14 DEF ParseAcknowledgement
  <2>2. h.fd_count \in Nat /\ HeaderSize \in Nat
    BY <2>1, HeaderType, SizeAssumption DEF SizeAssumption
  <2>3. Drop(unprocessed_bytes[e], HeaderSize) \in Seq(Nat \X Nat)
    BY <2>2, DropType DEF TypeOK
  <2>4. /\ unprocessed_bytes' \in [Endpoint -> Seq(Nat \X Nat)]
        /\ acknowledged_fd_count' \in [Endpoint -> Nat]
    <3>1. /\ unprocessed_bytes \in [Endpoint -> Seq(Nat \X Nat)]
          /\ acknowledged_fd_count \in [Endpoint -> Nat]
      BY DEF TypeOK
    <3> QED
      BY <2>1, <2>2, <2>3, <3>1
  <2>5. UNCHANGED <<shared, unprocessed_fds, batch, received_fd_count, ioLocals, mainLocals,
                    outside>>
    BY <1>14 DEF ParseAcknowledgement
  <2> QED
    BY <2>4, <2>5 DEF TypeOK
<1>15. CASE ParseEnds(e)
  <2>1. peer_eof' \in [Endpoint -> BOOLEAN]
    BY <1>15 DEF ParseEnds, TypeOK
  <2>2. io_pc' \in [Endpoint -> IOPc]
    <3>1. io_pc' = [io_pc EXCEPT ![e] = AfterParsing(e, peer_eof'[e])]
      BY <1>15 DEF ParseEnds, IoStep
    <3>2. peer_eof'[e] \in BOOLEAN /\ io_pc \in [Endpoint -> IOPc]
      BY <2>1 DEF TypeOK
    <3>3. AfterParsing(e, peer_eof'[e]) \in IOPc
      BY <3>2, AfterLemma DEF IOPc
    <3> QED
      BY <3>1, <3>2, <3>3
  <2> QED
    BY <1>15, <2>1, <2>2 DEF ParseEnds, TypeOK
<1>16. CASE ReleaseAcknowledgedFds(e)
  <2>1. Released(e) \in Nat
    BY LocalTypes DEF Released, Lesser
  <2>2. Drop(retained_fds[e], Released(e)) \in Seq(Nat)
    BY <2>1, DropType DEF TypeOK
  <2>3. io_pc' \in [Endpoint -> IOPc]
    BY <1>16, AfterLemma DEF ReleaseAcknowledgedFds, TypeOK, IoStep, IOPc
  <2> QED
    BY <1>16, <2>2, <2>3 DEF ReleaseAcknowledgedFds, TypeOK
<1>17. CASE AcknowledgeReceivedFds(e)
  <2> DEFINE ack == Acknowledgement(e)
  <2>1. ack \in Frame /\ Len(frames[e]) + 1 \in Nat
    BY LocalTypes DEF Frame, Acknowledgement
  <2>2. /\ frames' = [frames EXCEPT ![e] = Append(@, ack)]
        /\ send_bytes' = [send_bytes EXCEPT ![e] = @ \o Bytes(Len(frames[e]) + 1, ack)]
    BY <1>17 DEF AcknowledgeReceivedFds
  <2> HIDE DEF ack
  <2>3. /\ Append(frames[e], ack) \in Seq(Frame)
        /\ send_bytes[e] \o Bytes(Len(frames[e]) + 1, ack) \in Seq(Nat \X Nat)
    BY <2>1, BytesType, ConcatProperties, AppendProperties DEF TypeOK
  <2>4. frames' \in [Endpoint -> Seq(Frame)] /\ send_bytes' \in [Endpoint -> Seq(Nat \X Nat)]
    <3>1. frames \in [Endpoint -> Seq(Frame)] /\ send_bytes \in [Endpoint -> Seq(Nat \X Nat)]
      BY DEF TypeOK
    <3> QED
      BY <2>2, <2>3, <3>1
  <2>5. io_pc' \in [Endpoint -> IOPc]
    <3>1. io_pc' = [io_pc EXCEPT ![e] = AfterAcknowledging(e, peer_eof[e])]
      BY <1>17 DEF AcknowledgeReceivedFds, IoStep
    <3>2. peer_eof[e] \in BOOLEAN /\ io_pc \in [Endpoint -> IOPc]
      BY DEF TypeOK
    <3>3. AfterAcknowledging(e, peer_eof[e]) \in IOPc
      BY <3>2, AfterLemma DEF IOPc
    <3> QED
      BY <3>1, <3>2, <3>3
  <2> QED
    BY <1>17, <2>4, <2>5 DEF AcknowledgeReceivedFds, TypeOK
<1>18. CASE PublishBatch(e)
  <2>1. incoming_messages[e] \o batch[e] \in Seq(Message) /\ <<>> \in Seq(Message)
    BY ConcatProperties DEF TypeOK
  <2>2. io_pc' \in [Endpoint -> IOPc] /\ main_pc' \in [Endpoint -> MainPc]
    <3>1. /\ io_pc' = [io_pc EXCEPT ![e] = AfterPublishing(e, peer_eof[e])]
          /\ main_pc' = [main_pc EXCEPT ![e] = IF @ = "blocked" THEN "woken" ELSE @]
      BY <1>18 DEF PublishBatch, IoStep, Broadcast
    <3>2. peer_eof[e] \in BOOLEAN /\ io_pc \in [Endpoint -> IOPc] /\ main_pc \in [Endpoint -> MainPc]
      BY DEF TypeOK
    <3>3. AfterPublishing(e, peer_eof[e]) \in IOPc
      BY <3>2, AfterLemma DEF IOPc
    <3>4. "woken" \in MainPc
      BY DEF MainPc
    <3>5. io_pc' \in [Endpoint -> IOPc]
      BY <3>1, <3>2, <3>3
    <3>6. main_pc' \in [Endpoint -> MainPc]
      BY <3>1, <3>2, <3>4
    <3> QED
      BY <3>5, <3>6
  <2> QED
    BY <1>18, <2>1, <2>2 DEF PublishBatch, TypeOK
<1>19. CASE ReportEof(e)
  BY <1>19, AfterLemma DEF ReportEof, TypeOK, IoStep, IOPc, Broadcast, MainPc
<1>20. ASSUME Die(e) PROVE TypeOK'
  <2>1. <<>> \in Seq(Carrier)
    OBVIOUS
  <2> QED
    BY <1>20, <2>1 DEF Die, CloseSocket, TypeOK, IOPc, MainPc
<1>21. CASE VerifyStopped(e)
  BY <1>20, <1>21 DEF VerifyStopped, TypeOK, IoStep, IOPc
<1>22. CASE CheckTransferred(e)
  BY <1>22 DEF CheckTransferred, TypeOK, IoStep, IOPc
<1>23. CASE MarkEof(e)
  BY <1>23 DEF MarkEof, TypeOK, IoStep, IOPc
<1>24. CASE FinalNotify(e)
  BY <1>24 DEF FinalNotify, TypeOK, IoStep, IOPc, Broadcast, MainPc
<1>25. CASE Crash(e)
  BY <1>20, <1>25 DEF Crash
<1> QED
  BY <1>1, <1>2, <1>3, <1>4, <1>5, <1>6, <1>7, <1>8, <1>9, <1>10, <1>11, <1>12, <1>13,
     <1>14, <1>15, <1>16, <1>17, <1>18, <1>19, <1>21, <1>22, <1>23, <1>24, <1>25
  DEF IoThread

-----------------------------------------------------------------------------
(* JoinedFirst. *)

\* A step of an IO thread that is still running keeps threads and descriptors together.
LEMMA IoMoves ==
    ASSUME TypeOK, JoinedFirst, NEW e \in Endpoint, NEW from, NEW to,
           IoStep(e, from, to), from \notin {"done", "dead"}, UNCHANGED <<stop_op, open>>,
           UNCHANGED main_pc \/ Broadcast(e)
    PROVE  JoinedFirst'
<1>1. io_pc \in [Endpoint -> IOPc] /\ main_pc \in [Endpoint -> MainPc]
  BY DEF TypeOK
<1>2. \A p \in Endpoint : /\ p # e => io_pc'[p] = io_pc[p] /\ main_pc'[p] = main_pc[p]
                          /\ \/ main_pc'[p] = main_pc[p]
                             \/ main_pc[p] = "blocked" /\ main_pc'[p] = "woken"
  <2>1. CASE UNCHANGED main_pc
    BY <1>1, <2>1 DEF IoStep
  <2>2. CASE Broadcast(e)
    <3>1. \A p \in Endpoint : main_pc'[p] = IF p = e /\ main_pc[p] = "blocked" THEN "woken"
                                            ELSE main_pc[p]
      BY <1>1, <2>2 DEF Broadcast
    <3> QED
      BY <1>1, <3>1 DEF IoStep
  <2> QED
    BY <2>1, <2>2
<1>3. SUFFICES ASSUME NEW p \in Endpoint
               PROVE  /\ HandedOver(p)' => io_pc'[p] = "done" /\ open'[p]
                      /\ Stopping(p)' => open'[p]
                      /\ stop_op'[p] = "transfer" => Stopping(p)' \/ HandedOver(p)'
                                                     \/ main_pc'[p] = "dead"
                      /\ main_pc'[p] = "released" => stop_op'[p] = "transfer"
                      /\ main_pc'[p] = "dead" => io_pc'[p] = "dead"
                      /\ ~open'[p] => io_pc'[p] \in {"done", "dead"}
  BY DEF JoinedFirst
<1>4. p = e => io_pc[p] \notin {"done", "dead"}
  BY DEF IoStep
<1> QED
  BY <1>2, <1>4 DEF JoinedFirst, HandedOver, Stopping

\* A step of the main thread that leaves the IO thread and the socket alone does so too,
\* provided that it neither begins nor ends a hand-over.
LEMMA MainMoves ==
    ASSUME TypeOK, JoinedFirst, NEW e \in Endpoint, NEW from, NEW to, MainStep(e, from, to),
           UNCHANGED <<stop_op, open, io_pc>>,
           from \notin {"join", "dead", "released"},
           to \notin {"dead"},
           to \in {"store", "stop_wake", "join"} => from \in {"store", "stop_wake"},
           stop_op[e] = "transfer" =>
                \/ from \in {"store", "stop_wake"} /\ to \in {"store", "stop_wake", "join"}
                \/ from \in {"take", "should_shutdown"}
                   /\ to \in {"take", "should_shutdown", "released"},
           to = "released" => stop_op[e] = "transfer"
    PROVE  JoinedFirst'
<1>1. main_pc \in [Endpoint -> MainPc]
  BY DEF TypeOK
<1>2. /\ main_pc[e] = from /\ main_pc'[e] = to
      /\ \A p \in Endpoint \ {e} : main_pc'[p] = main_pc[p]
  BY <1>1 DEF MainStep
<1>3. SUFFICES ASSUME NEW p \in Endpoint
               PROVE  /\ HandedOver(p)' => io_pc'[p] = "done" /\ open'[p]
                      /\ Stopping(p)' => open'[p]
                      /\ stop_op'[p] = "transfer" => Stopping(p)' \/ HandedOver(p)'
                                                     \/ main_pc'[p] = "dead"
                      /\ main_pc'[p] = "released" => stop_op'[p] = "transfer"
                      /\ main_pc'[p] = "dead" => io_pc'[p] = "dead"
                      /\ ~open'[p] => io_pc'[p] \in {"done", "dead"}
  BY DEF JoinedFirst
<1>4. CASE p = e
  BY <1>2, <1>4 DEF JoinedFirst, HandedOver, Stopping
<1>5. CASE p # e
  BY <1>2, <1>5 DEF JoinedFirst, HandedOver, Stopping
<1> QED
  BY <1>4, <1>5

\* The main thread joins the IO thread before it closes or gives away the descriptor.
LEMMA JoinedMain ==
    ASSUME TypeOK, JoinedFirst, NEW e \in Endpoint, MainContinues(e) \/ MainBegins(e)
    PROVE  JoinedFirst'
<1>0. /\ io_pc \in [Endpoint -> IOPc] /\ main_pc \in [Endpoint -> MainPc]
      /\ open \in [Endpoint -> BOOLEAN] /\ stop_op \in [Endpoint -> StopOps]
  BY DEF TypeOK
<1>a. main_pc[e] \in MainPc \ {"store", "stop_wake", "join", "released", "dead", "take",
                               "should_shutdown"} => stop_op[e] # "transfer"
  BY DEF JoinedFirst, HandedOver, Stopping
<1>1. ASSUME NEW size \in PayloadSizes, NEW n \in FdCounts, PostMessage(e, size, n)
      PROVE  JoinedFirst'
  <2>1. MainStep(e, "idle", "enqueue") /\ UNCHANGED <<stop_op, open, io_pc>>
    BY <1>1 DEF PostMessage
  <2> QED
    BY <2>1, <1>a, MainMoves DEF MainStep, MainPc
<1>2. CASE EnqueueMessage(e)
  <2>1. MainStep(e, "enqueue", "wake") /\ UNCHANGED <<stop_op, open, io_pc>>
    BY <1>2 DEF EnqueueMessage
  <2> QED
    BY <2>1, <1>a, MainMoves DEF MainStep, MainPc
<1>3. CASE WakeIoThread(e)
  <2>1. /\ MainStep(e, "wake", "idle") \/ MainStep(e, "stop_wake", "join")
        /\ UNCHANGED <<stop_op, open, io_pc>>
    BY <1>3 DEF WakeIoThread
  <2>2. CASE MainStep(e, "wake", "idle")
    <3>1. main_pc[e] = "wake"
      BY <2>2 DEF MainStep
    <3>2. stop_op[e] # "transfer"
      BY <3>1, <1>a DEF MainPc
    <3> QED
      BY <2>1, <2>2, <3>1, <3>2, MainMoves
  <2>3. CASE MainStep(e, "stop_wake", "join")
    BY <2>1, <2>3, MainMoves
  <2> QED
    BY <2>1, <2>2, <2>3
<1>4. CASE SetUpReadHook(e)
  <2>1. UNCHANGED <<stop_op, open, io_pc, main_pc>>
    BY <1>4 DEF SetUpReadHook
  <2> QED
    BY <2>1 DEF JoinedFirst, HandedOver, Stopping
<1>5. CASE ActivateReadHook(e)
  <2>1. MainStep(e, "idle", "take") /\ UNCHANGED <<stop_op, open, io_pc>>
    BY <1>5 DEF ActivateReadHook
  <2> QED
    BY <2>1, <1>a, MainMoves DEF MainStep, MainPc
<1>6. CASE TakeMessages(e)
  <2>1. MainStep(e, "take", "should_shutdown") /\ UNCHANGED <<stop_op, open, io_pc>>
    BY <1>6 DEF TakeMessages
  <2> QED
    BY <2>1, MainMoves
<1>7. CASE ReturnShouldShutdown(e)
  <2>1. /\ MainStep(e, "should_shutdown",
                    IF stop_op[e] = "transfer" THEN "released" ELSE "idle")
        /\ UNCHANGED <<stop_op, open, io_pc>>
    BY <1>7 DEF ReturnShouldShutdown
  <2> QED
    BY <2>1, MainMoves
<1>8. CASE LockToWait(e)
  <2>1. /\ MainStep(e, "idle", "wait_locked") \/ MainStep(e, "woken", "wait_locked")
        /\ UNCHANGED <<stop_op, open, io_pc>>
    BY <1>8 DEF LockToWait
  <2> QED
    BY <2>1, <1>a, MainMoves DEF MainStep, MainPc
<1>9. CASE TestReadable(e)
  <2>1. /\ MainStep(e, "wait_locked", "wait_block") \/ MainStep(e, "wait_locked", "take")
        /\ UNCHANGED <<stop_op, open, io_pc>>
    BY <1>9 DEF TestReadable
  <2> QED
    BY <2>1, <1>a, MainMoves DEF MainStep, MainPc
<1>10. CASE BlockOnCondition(e)
  <2>1. MainStep(e, "wait_block", "blocked") /\ UNCHANGED <<stop_op, open, io_pc>>
    BY <1>10 DEF BlockOnCondition
  <2> QED
    BY <2>1, <1>a, MainMoves DEF MainStep, MainPc
<1>11. ASSUME NEW op \in StopOps, BeginStop(e, op) PROVE JoinedFirst'
  <2>1. /\ MainStep(e, "idle", "store") /\ open[e] /\ UNCHANGED <<open, io_pc>>
        /\ stop_op' = [stop_op EXCEPT ![e] = op]
    BY <1>11 DEF BeginStop
  <2> QED
    BY <1>0, <2>1 DEF MainStep, JoinedFirst, HandedOver, Stopping
<1>12. CASE StoreDesiredState(e)
  <2>1. MainStep(e, "store", "stop_wake") /\ UNCHANGED <<stop_op, open, io_pc>>
    BY <1>12 DEF StoreDesiredState
  <2> QED
    BY <2>1, MainMoves
<1>13. CASE JoinAndClose(e)
  <2>1. /\ MainStep(e, "join", "idle") /\ io_pc[e] = "done" /\ stop_op[e] # "transfer"
        /\ open' = [open EXCEPT ![e] = FALSE] /\ UNCHANGED <<stop_op, io_pc>>
    BY <1>13 DEF JoinAndClose, CloseSocket
  <2> QED
    BY <1>0, <2>1 DEF MainStep, JoinedFirst, HandedOver, Stopping
<1>14. CASE JoinAndRelease(e)
  <2>1. /\ MainStep(e, "join", "take") /\ io_pc[e] = "done" /\ stop_op[e] = "transfer"
        /\ UNCHANGED <<open, stop_op, io_pc>>
    BY <1>14 DEF JoinAndRelease
  <2> QED
    BY <1>0, <2>1 DEF MainStep, JoinedFirst, HandedOver, Stopping
<1>15. CASE CreateTransport(e)
  <2>1. /\ MainStep(e, "released", "idle") /\ io_pc' = [io_pc EXCEPT ![e] = "peek"]
        /\ stop_op' = [stop_op EXCEPT ![e] = "none"] /\ UNCHANGED open
    BY <1>15 DEF CreateTransport
  <2> QED
    BY <1>0, <2>1 DEF MainStep, JoinedFirst, HandedOver, Stopping
<1> QED
  BY <1>1, <1>2, <1>3, <1>4, <1>5, <1>6, <1>7, <1>8, <1>9, <1>10, <1>11, <1>12, <1>13,
     <1>14, <1>15 DEF MainContinues, MainBegins

\* The IO thread and the end of the process keep it as well.
LEMMA JoinedIo ==
    ASSUME TypeOK, JoinedFirst, NEW e \in Endpoint, IoThread(e) \/ Crash(e)
    PROVE  JoinedFirst'
<1>1. ASSUME NEW from \in IOPc \ {"done", "dead"}, NEW to, IoStep(e, from, to),
             UNCHANGED <<stop_op, open>>, UNCHANGED main_pc \/ Broadcast(e)
      PROVE  JoinedFirst'
  BY <1>1, IoMoves
<1>2. ASSUME UNCHANGED <<stop_op, open, io_pc, main_pc>> PROVE JoinedFirst'
  BY <1>2 DEF JoinedFirst, HandedOver, Stopping
<1>3. ASSUME Die(e) PROVE JoinedFirst'
  <2>1. /\ io_pc \in [Endpoint -> IOPc] /\ main_pc \in [Endpoint -> MainPc]
        /\ open \in [Endpoint -> BOOLEAN]
    BY DEF TypeOK
  <2>2. /\ io_pc' = [io_pc EXCEPT ![e] = "dead"] /\ main_pc' = [main_pc EXCEPT ![e] = "dead"]
        /\ open' = [open EXCEPT ![e] = FALSE] /\ UNCHANGED stop_op
    BY <1>3 DEF Die, CloseSocket
  <2> QED
    BY <2>1, <2>2 DEF JoinedFirst, HandedOver, Stopping
<1>4. CASE PeekSendQueue(e)
  <2>1. /\ \E to : IoStep(e, "peek", to)
        /\ UNCHANGED <<stop_op, open>> /\ (UNCHANGED main_pc \/ Broadcast(e))
    BY <1>4 DEF PeekSendQueue
  <2> QED
    BY <1>1, <2>1 DEF IOPc
<1>5. CASE LoadState(e)
  <2>1. /\ \E to : IoStep(e, "load", to)
        /\ UNCHANGED <<stop_op, open>> /\ (UNCHANGED main_pc \/ Broadcast(e))
    BY <1>5 DEF LoadState
  <2> QED
    BY <1>1, <2>1 DEF IOPc
<1>6. CASE Poll(e)
  <2>1. /\ \E to : IoStep(e, "poll", to)
        /\ UNCHANGED <<stop_op, open>> /\ (UNCHANGED main_pc \/ Broadcast(e))
    BY <1>6 DEF Poll
  <2> QED
    BY <1>1, <2>1 DEF IOPc
<1>7. CASE PollFails(e)
  <2>1. /\ \E to : IoStep(e, "poll", to)
        /\ UNCHANGED <<stop_op, open>> /\ (UNCHANGED main_pc \/ Broadcast(e))
    BY <1>7 DEF PollFails
  <2> QED
    BY <1>1, <2>1 DEF IOPc
<1>8. CASE DrainWakeupPipe(e)
  <2>1. /\ \E to : IoStep(e, "drain_wakeup", to)
        /\ UNCHANGED <<stop_op, open>> /\ (UNCHANGED main_pc \/ Broadcast(e))
    BY <1>8 DEF DrainWakeupPipe
  <2> QED
    BY <1>1, <2>1 DEF IOPc
<1>9. CASE StopOnHangup(e)
  <2>1. /\ \E to : IoStep(e, "hangup", to)
        /\ UNCHANGED <<stop_op, open>> /\ (UNCHANGED main_pc \/ Broadcast(e))
    BY <1>9 DEF StopOnHangup
  <2> QED
    BY <1>1, <2>1 DEF IOPc
<1>10. CASE PeekToSend(e)
  <2>1. /\ \E to : IoStep(e, "write", to)
        /\ UNCHANGED <<stop_op, open>> /\ (UNCHANGED main_pc \/ Broadcast(e))
    BY <1>10 DEF PeekToSend
  <2> QED
    BY <1>1, <2>1 DEF IOPc
<1>11. CASE SendFails(e)
  <2>1. /\ \E to : IoStep(e, "send", to)
        /\ UNCHANGED <<stop_op, open>> /\ (UNCHANGED main_pc \/ Broadcast(e))
    BY <1>11 DEF SendFails
  <2> QED
    BY <1>1, <2>1 DEF IOPc
<1>12. CASE DiscardWritten(e)
  <2>1. /\ \E to : IoStep(e, "send", to)
        /\ UNCHANGED <<stop_op, open>> /\ (UNCHANGED main_pc \/ Broadcast(e))
    BY <1>12 DEF DiscardWritten
  <2> QED
    BY <1>1, <2>1 DEF IOPc
<1>13. CASE ReceiveEnds(e)
  <2>1. /\ \E to : IoStep(e, "receive", to)
        /\ UNCHANGED <<stop_op, open>> /\ (UNCHANGED main_pc \/ Broadcast(e))
    BY <1>13 DEF ReceiveEnds
  <2> QED
    BY <1>1, <2>1 DEF IOPc
<1>14. CASE ParseEnds(e)
  <2>1. /\ \E to : IoStep(e, "parse", to)
        /\ UNCHANGED <<stop_op, open>> /\ (UNCHANGED main_pc \/ Broadcast(e))
    BY <1>14 DEF ParseEnds
  <2> QED
    BY <1>1, <2>1 DEF IOPc
<1>15. CASE ReleaseAcknowledgedFds(e)
  <2>1. /\ \E to : IoStep(e, "release_acked", to)
        /\ UNCHANGED <<stop_op, open>> /\ (UNCHANGED main_pc \/ Broadcast(e))
    BY <1>15 DEF ReleaseAcknowledgedFds
  <2> QED
    BY <1>1, <2>1 DEF IOPc
<1>16. CASE AcknowledgeReceivedFds(e)
  <2>1. /\ \E to : IoStep(e, "acknowledge", to)
        /\ UNCHANGED <<stop_op, open>> /\ (UNCHANGED main_pc \/ Broadcast(e))
    BY <1>16 DEF AcknowledgeReceivedFds
  <2> QED
    BY <1>1, <2>1 DEF IOPc
<1>17. CASE PublishBatch(e)
  <2>1. /\ \E to : IoStep(e, "publish", to)
        /\ UNCHANGED <<stop_op, open>> /\ (UNCHANGED main_pc \/ Broadcast(e))
    BY <1>17 DEF PublishBatch
  <2> QED
    BY <1>1, <2>1 DEF IOPc
<1>18. CASE ReportEof(e)
  <2>1. /\ \E to : IoStep(e, "report_eof", to)
        /\ UNCHANGED <<stop_op, open>> /\ (UNCHANGED main_pc \/ Broadcast(e))
    BY <1>18 DEF ReportEof
  <2> QED
    BY <1>1, <2>1 DEF IOPc
<1>19. CASE CheckTransferred(e)
  <2>1. /\ \E to : IoStep(e, "check_transferred", to)
        /\ UNCHANGED <<stop_op, open>> /\ (UNCHANGED main_pc \/ Broadcast(e))
    BY <1>19 DEF CheckTransferred
  <2> QED
    BY <1>1, <2>1 DEF IOPc
<1>20. CASE MarkEof(e)
  <2>1. /\ \E to : IoStep(e, "mark_eof", to)
        /\ UNCHANGED <<stop_op, open>> /\ (UNCHANGED main_pc \/ Broadcast(e))
    BY <1>20 DEF MarkEof
  <2> QED
    BY <1>1, <2>1 DEF IOPc
<1>21. CASE FinalNotify(e)
  <2>1. /\ \E to : IoStep(e, "final_notify", to)
        /\ UNCHANGED <<stop_op, open>> /\ (UNCHANGED main_pc \/ Broadcast(e))
    BY <1>21 DEF FinalNotify
  <2> QED
    BY <1>1, <2>1 DEF IOPc
<1>22. ASSUME NEW n \in 1..ChunkSize, SendSome(e, n) PROVE JoinedFirst'
  BY <1>2, <1>22 DEF SendSome
<1>23. ASSUME NEW n \in 1..ChunkSize, ReceiveSome(e, n) PROVE JoinedFirst'
  <2>1. (\E to : IoStep(e, "receive", to)) /\ UNCHANGED <<stop_op, open, main_pc>>
    BY <1>23 DEF ReceiveSome
  <2> QED
    BY <1>1, <2>1 DEF IOPc
<1>24. CASE ParseMessage(e)
  BY <1>2, <1>24 DEF ParseMessage
<1>25. CASE ParseAcknowledgement(e)
  BY <1>2, <1>25 DEF ParseAcknowledgement
<1>26. CASE VerifyStopped(e)
  <2>1. CASE Die(e)
    BY <1>3, <2>1
  <2>2. CASE ~Die(e)
    <3>1. IoStep(e, "verify", "check_transferred") /\ UNCHANGED <<stop_op, open, main_pc>>
      BY <1>26, <2>2 DEF VerifyStopped
    <3> QED
      BY <1>1, <3>1 DEF IOPc
  <2> QED
    BY <2>1, <2>2
<1>27. CASE Crash(e)
  BY <1>3, <1>27 DEF Crash
<1> QED
  BY <1>4, <1>5, <1>6, <1>7, <1>8, <1>9, <1>10, <1>11, <1>12, <1>13, <1>14, <1>15, <1>16,
     <1>17, <1>18, <1>19, <1>20, <1>21, <1>22, <1>23, <1>24, <1>25, <1>26, <1>27
  DEF IoThread

-----------------------------------------------------------------------------
(* PeekedStays. *)

\* A step that is not part of transfer_data leaves written alone.
LEMMA OutsideTransfer ==
    ASSUME PeekedStays, TypeOK, NEW e \in Endpoint, NEW from, NEW to, IoStep(e, from, to),
           from \notin {"send", "dead"}, to # "send", UNCHANGED <<written, peeked, send_fds>>,
           \A p \in Endpoint \ {e} : send_bytes'[p] = send_bytes[p]
    PROVE  PeekedStays'
<1>1. io_pc \in [Endpoint -> IOPc]
  BY DEF TypeOK
<1>2. /\ io_pc[e] = from /\ io_pc'[e] = to
      /\ \A p \in Endpoint \ {e} : io_pc'[p] = io_pc[p]
  BY <1>1 DEF IoStep
<1>3. SUFFICES ASSUME NEW p \in Endpoint PROVE Peeked(p)'
  BY DEF PeekedStays, Peeked
<1>4. CASE p = e
  BY <1>2, <1>4 DEF PeekedStays, Peeked
<1>5. CASE p # e
  BY <1>2, <1>5 DEF PeekedStays, Peeked
<1> QED
  BY <1>4, <1>5

\* The main thread only appends to the queue, or starts again with a new one.
LEMMA PeekedMain ==
    ASSUME TypeOK, JoinedFirst, PeekedStays, NEW e \in Endpoint,
           MainContinues(e) \/ MainBegins(e)
    PROVE  PeekedStays'
<1>1. CASE UNCHANGED <<io_pc, written, peeked, send_bytes, send_fds>>
  BY <1>1 DEF PeekedStays, Peeked
<1>2. CASE EnqueueMessage(e)
  <2>1. /\ send_bytes' = [send_bytes EXCEPT ![e] = @ \o Bytes(Len(frames[e]) + 1, posting[e])]
        /\ send_fds' = [send_fds EXCEPT ![e] = @ \o posting[e].fds]
        /\ UNCHANGED <<io_pc, written, peeked>>
    BY <1>2 DEF EnqueueMessage
  <2>2. /\ Bytes(Len(frames[e]) + 1, posting[e]) \in Seq(Nat \X Nat)
        /\ posting[e].fds \in Seq(Nat)
    <3>1. posting[e] \in Frame /\ Len(frames[e]) + 1 \in Nat
      BY LocalTypes
    <3> QED
      BY <3>1, BytesType DEF Frame
  <2>3. \A p \in Endpoint : Len(send_bytes[p]) <= Len(send_bytes'[p])
    <3>1. send_bytes[e] \in Seq(Nat \X Nat) /\ send_bytes \in [Endpoint -> Seq(Nat \X Nat)]
      BY DEF TypeOK
    <3>2. Len(send_bytes[e]) <= Len(send_bytes[e] \o Bytes(Len(frames[e]) + 1, posting[e]))
      BY <2>2, <3>1, ConcatGrows
    <3>3. ASSUME NEW p \in Endpoint PROVE Len(send_bytes[p]) <= Len(send_bytes'[p])
      <4>1. CASE p = e
        BY <2>1, <3>1, <3>2, <4>1
      <4>2. CASE p # e
        <5>1. send_bytes'[p] = send_bytes[p] /\ send_bytes[p] \in Seq(Nat \X Nat)
          BY <2>1, <3>1, <4>2
        <5>2. QED
          BY <5>1
      <4>3. QED
        BY <4>1, <4>2
    <3>4. QED
      BY <3>3
  <2>4. \A p \in Endpoint : Len(send_fds[p]) <= Len(send_fds'[p])
    <3>1. send_fds[e] \in Seq(Nat) /\ send_fds \in [Endpoint -> Seq(Nat)]
      BY DEF TypeOK
    <3>2. Len(send_fds[e]) <= Len(send_fds[e] \o posting[e].fds)
      BY <2>2, <3>1, ConcatGrows
    <3>3. ASSUME NEW p \in Endpoint PROVE Len(send_fds[p]) <= Len(send_fds'[p])
      <4>1. CASE p = e
        BY <2>1, <3>1, <3>2, <4>1
      <4>2. CASE p # e
        <5>1. send_fds'[p] = send_fds[p] /\ send_fds[p] \in Seq(Nat)
          BY <2>1, <3>1, <4>2
        <5>2. QED
          BY <5>1
      <4>3. QED
        BY <4>1, <4>2
    <3>4. QED
      BY <3>3
  <2>5. TypeOK'
    BY TypeMain
  <2>6. SUFFICES ASSUME NEW p \in Endpoint PROVE Peeked(p)'
    BY DEF PeekedStays, Peeked
  <2>7. /\ peeked[p].bytes \in Nat /\ peeked[p].fds \in Nat
        /\ Len(send_bytes[p]) \in Nat /\ Len(send_bytes'[p]) \in Nat
        /\ Len(send_fds[p]) \in Nat /\ Len(send_fds'[p]) \in Nat
    <3>1. peeked[p] \in Amount /\ send_bytes[p] \in Seq(Nat \X Nat) /\ send_fds[p] \in Seq(Nat)
      BY LocalTypes
    <3>2. send_bytes'[p] \in Seq(Nat \X Nat) /\ send_fds'[p] \in Seq(Nat)
      BY <2>5 DEF TypeOK
    <3> QED
      BY <3>1, <3>2 DEF Amount
  <2>8. Peeked(p)
    BY DEF Peeked, PeekedStays
  <2>9. CASE io_pc[p] = "send"
    <3>1. /\ written[p].bytes <= peeked[p].bytes /\ peeked[p].bytes <= Len(send_bytes'[p])
          /\ written[p].fds <= peeked[p].fds /\ peeked[p].fds <= Len(send_fds'[p])
      BY <2>3, <2>4, <2>7, <2>8, <2>9 DEF Peeked
    <3> QED
      BY <2>1, <2>9, <3>1 DEF Peeked
  <2>10. CASE io_pc[p] # "send"
    BY <2>1, <2>8, <2>10 DEF Peeked
  <2> QED
    BY <2>9, <2>10
<1>3. CASE CreateTransport(e)
  <2>1. /\ io_pc' = [io_pc EXCEPT ![e] = "peek"] /\ UNCHANGED <<written, peeked>>
        /\ send_bytes' = [send_bytes EXCEPT ![e] = <<>>]
        /\ send_fds' = [send_fds EXCEPT ![e] = <<>>]
        /\ main_pc[e] = "released"
    BY <1>3 DEF CreateTransport, MainStep
  <2>2. io_pc[e] = "done"
    BY <2>1 DEF JoinedFirst, HandedOver
  <2>3. /\ io_pc \in [Endpoint -> IOPc] /\ send_bytes \in [Endpoint -> Seq(Nat \X Nat)]
        /\ send_fds \in [Endpoint -> Seq(Nat)]
    BY DEF TypeOK
  <2>4. SUFFICES ASSUME NEW p \in Endpoint PROVE Peeked(p)'
    BY DEF PeekedStays, Peeked
  <2>5. Peeked(p)
    BY DEF PeekedStays, Peeked
  <2>6. CASE p = e
    BY <2>1, <2>2, <2>3, <2>5, <2>6 DEF Peeked
  <2>7. CASE p # e
    BY <2>1, <2>3, <2>5, <2>7 DEF Peeked
  <2> QED
    BY <2>6, <2>7
<1>4. ASSUME NEW size \in PayloadSizes, NEW n \in FdCounts, PostMessage(e, size, n)
      PROVE  PeekedStays'
  BY <1>1, <1>4 DEF PostMessage
<1>5. CASE WakeIoThread(e)
  BY <1>1, <1>5 DEF WakeIoThread
<1>6. CASE SetUpReadHook(e)
  BY <1>1, <1>6 DEF SetUpReadHook
<1>7. CASE ActivateReadHook(e)
  BY <1>1, <1>7 DEF ActivateReadHook
<1>8. CASE TakeMessages(e)
  BY <1>1, <1>8 DEF TakeMessages
<1>9. CASE ReturnShouldShutdown(e)
  BY <1>1, <1>9 DEF ReturnShouldShutdown
<1>10. CASE LockToWait(e)
  BY <1>1, <1>10 DEF LockToWait
<1>11. CASE TestReadable(e)
  BY <1>1, <1>11 DEF TestReadable
<1>12. CASE BlockOnCondition(e)
  BY <1>1, <1>12 DEF BlockOnCondition
<1>13. ASSUME NEW op \in StopOps, BeginStop(e, op) PROVE PeekedStays'
  BY <1>1, <1>13 DEF BeginStop
<1>14. CASE StoreDesiredState(e)
  BY <1>1, <1>14 DEF StoreDesiredState
<1>15. CASE JoinAndClose(e)
  BY <1>1, <1>15 DEF JoinAndClose
<1>16. CASE JoinAndRelease(e)
  BY <1>1, <1>16 DEF JoinAndRelease
<1> QED
  BY <1>2, <1>3, <1>4, <1>5, <1>6, <1>7, <1>8, <1>9, <1>10, <1>11, <1>12, <1>13, <1>14,
     <1>15, <1>16 DEF MainContinues, MainBegins

\* transfer_data writes what it peeked, and forgets both when it leaves.
LEMMA PeekedIo ==
    ASSUME TypeOK, PeekedStays, NEW e \in Endpoint, IoThread(e) \/ Crash(e)
    PROVE  PeekedStays'
<1>0. io_pc \in [Endpoint -> IOPc]
  BY DEF TypeOK
<1>1. ASSUME NEW from, NEW to, IoStep(e, from, to), from \notin {"send", "dead"},
             to # "send", UNCHANGED <<written, peeked, send_fds, send_bytes>>
      PROVE  PeekedStays'
  BY <1>1, OutsideTransfer
<1>2. CASE UNCHANGED <<io_pc, written, peeked, send_bytes, send_fds>>
  BY <1>2 DEF PeekedStays, Peeked
<1>3. ASSUME Die(e) PROVE PeekedStays'
  <2>1. /\ io_pc' = [io_pc EXCEPT ![e] = "dead"]
        /\ UNCHANGED <<written, peeked, send_bytes, send_fds>>
    BY <1>3 DEF Die
  <2> QED
    BY <1>0, <2>1 DEF PeekedStays, Peeked
<1>4. CASE PeekToSend(e)
  <2> DEFINE p == [bytes |-> Lesser(ChunkSize, Len(send_bytes[e])),
                   fds |-> Lesser(MaxTransferFds, Len(send_fds[e]))]
  <2>1. /\ io_pc[e] = "write" /\ io_pc' = [io_pc EXCEPT ![e] = IF p = Nothing THEN "peek"
                                                               ELSE "send"]
        /\ peeked' = [peeked EXCEPT ![e] = p] /\ UNCHANGED <<written, send_bytes, send_fds>>
    BY <1>4 DEF PeekToSend, IoStep
  <2>2. Len(send_bytes[e]) \in Nat /\ Len(send_fds[e]) \in Nat
    BY LocalTypes
  <2>3. /\ p.bytes \in Nat /\ p.fds \in Nat /\ p.bytes <= Len(send_bytes[e])
        /\ p.fds <= Len(send_fds[e])
    BY <2>2, SizeAssumption DEF SizeAssumption, Lesser
  <2> HIDE DEF p
  <2>4. peeked \in [Endpoint -> Amount]
    BY DEF TypeOK
  <2>5. written[e] = Nothing
    BY <2>1 DEF PeekedStays, Peeked
  <2>6. SUFFICES ASSUME NEW q \in Endpoint PROVE Peeked(q)'
    BY DEF PeekedStays, Peeked
  <2>7. CASE q = e
    BY <1>0, <2>1, <2>3, <2>4, <2>5, <2>7 DEF Peeked, Nothing
  <2>8. CASE q # e
    BY <1>0, <2>1, <2>4, <2>8 DEF Peeked, PeekedStays
  <2> QED
    BY <2>7, <2>8
<1>5. ASSUME NEW n \in 1..ChunkSize, SendSome(e, n) PROVE PeekedStays'
  <2>1. /\ io_pc[e] = "send" /\ n <= Unsent(e)
        /\ written' = [written EXCEPT ![e] = [bytes |-> @.bytes + n, fds |-> peeked[e].fds]]
        /\ UNCHANGED <<io_pc, peeked, send_bytes, send_fds>>
    BY <1>5 DEF SendSome
  <2>2. /\ written \in [Endpoint -> Amount] /\ peeked[e] \in Amount /\ n \in Nat
        /\ Len(send_fds[e]) \in Nat
    <3>1. written \in [Endpoint -> Amount]
      BY DEF TypeOK
    <3>2. n \in Nat
      BY SizeAssumption DEF SizeAssumption
    <3> QED
      BY <3>1, <3>2, LocalTypes
  <2>3. SUFFICES ASSUME NEW q \in Endpoint PROVE Peeked(q)'
    BY DEF PeekedStays, Peeked
  <2>4. Peeked(q)
    BY DEF PeekedStays, Peeked
  <2>5. CASE q = e
    BY <2>1, <2>2, <2>4, <2>5 DEF Peeked, Unsent, Amount
  <2>6. CASE q # e
    BY <2>1, <2>2, <2>4, <2>6 DEF Peeked
  <2> QED
    BY <2>5, <2>6
<1>6. CASE SendFails(e) \/ DiscardWritten(e)
  <2>1. /\ io_pc[e] = "send" /\ io_pc' = [io_pc EXCEPT ![e] = "peek"]
        /\ written' = [written EXCEPT ![e] = Nothing]
        /\ peeked' = [peeked EXCEPT ![e] = Nothing]
        /\ \/ UNCHANGED <<send_bytes, send_fds>>
           \/ /\ send_bytes' = [send_bytes EXCEPT ![e] = Drop(@, written[e].bytes)]
              /\ send_fds' = [send_fds EXCEPT ![e] = Drop(@, written[e].fds)]
    BY <1>6 DEF SendFails, DiscardWritten, IoStep
  <2>2. /\ written \in [Endpoint -> Amount] /\ peeked \in [Endpoint -> Amount]
        /\ send_bytes \in [Endpoint -> Seq(Nat \X Nat)] /\ send_fds \in [Endpoint -> Seq(Nat)]
    BY DEF TypeOK
  <2>3. \A p \in Endpoint \ {e} : /\ send_bytes'[p] = send_bytes[p]
                                  /\ send_fds'[p] = send_fds[p]
    BY <2>1, <2>2
  <2>4. SUFFICES ASSUME NEW q \in Endpoint PROVE Peeked(q)'
    BY DEF PeekedStays, Peeked
  <2>5. CASE q = e
    BY <1>0, <2>1, <2>2, <2>5 DEF Peeked
  <2>6. CASE q # e
    BY <1>0, <2>1, <2>2, <2>3, <2>6 DEF Peeked, PeekedStays
  <2> QED
    BY <2>5, <2>6
<1>7. CASE AcknowledgeReceivedFds(e)
  <2>1. /\ IoStep(e, "acknowledge", AfterAcknowledging(e, peer_eof[e]))
        /\ UNCHANGED <<written, peeked, send_fds>>
    BY <1>7 DEF AcknowledgeReceivedFds
  <2>2. \A p \in Endpoint \ {e} : send_bytes'[p] = send_bytes[p]
    BY <1>7 DEF AcknowledgeReceivedFds, TypeOK
  <2>3. AfterAcknowledging(e, peer_eof[e]) # "send"
    BY LocalTypes, AfterLemma
  <2> QED
    BY <2>1, <2>2, <2>3, OutsideTransfer
<1>8. CASE PeekSendQueue(e)
  <2>1. /\ \E to : IoStep(e, "peek", to) /\ to # "send"
        /\ UNCHANGED <<written, peeked, send_fds, send_bytes>>
    BY <1>8 DEF PeekSendQueue
  <2> QED
    BY <1>1, <2>1
<1>9. CASE LoadState(e)
  <2>1. /\ \E to : IoStep(e, "load", to) /\ to # "send"
        /\ UNCHANGED <<written, peeked, send_fds, send_bytes>>
    BY <1>9 DEF LoadState
  <2> QED
    BY <1>1, <2>1
<1>10. CASE Poll(e)
  <2>1. \E to : IoStep(e, "poll", to) /\ to # "send"
    <3> DEFINE to == IF "WAKE" \in Ready(e) THEN "drain_wakeup" ELSE AfterDraining(Ready(e))
    <3>1. IoStep(e, "poll", to)
      BY <1>10 DEF Poll
    <3>2. AfterDraining(Ready(e)) # "send"
      <4>1. AfterDraining(Ready(e)) \in {"receive", "hangup", "write", "peek"}
        BY AfterLemma
      <4>2. QED
        BY <4>1
    <3>3. to # "send"
      BY <3>2
    <3> HIDE DEF to
    <3> QED
      BY <3>1, <3>3
  <2>2. UNCHANGED <<written, peeked, send_fds, send_bytes>>
    BY <1>10 DEF Poll
  <2> QED
    BY <1>1, <2>1, <2>2
<1>11. CASE PollFails(e)
  <2>1. /\ \E to : IoStep(e, "poll", to) /\ to # "send"
        /\ UNCHANGED <<written, peeked, send_fds, send_bytes>>
    BY <1>11 DEF PollFails
  <2> QED
    BY <1>1, <2>1
<1>12. CASE DrainWakeupPipe(e)
  <2>1. \E to : IoStep(e, "drain_wakeup", to) /\ to # "send"
    BY <1>12, AfterLemma, LocalTypes DEF DrainWakeupPipe
  <2>2. UNCHANGED <<written, peeked, send_fds, send_bytes>>
    BY <1>12 DEF DrainWakeupPipe
  <2> QED
    BY <1>1, <2>1, <2>2
<1>13. CASE StopOnHangup(e)
  <2>1. /\ \E to : IoStep(e, "hangup", to) /\ to # "send"
        /\ UNCHANGED <<written, peeked, send_fds, send_bytes>>
    BY <1>13 DEF StopOnHangup
  <2> QED
    BY <1>1, <2>1
<1>14. CASE ReceiveEnds(e)
  <2>1. /\ \E to : IoStep(e, "receive", to) /\ to # "send"
        /\ UNCHANGED <<written, peeked, send_fds, send_bytes>>
    BY <1>14 DEF ReceiveEnds
  <2> QED
    BY <1>1, <2>1
<1>15. CASE ParseEnds(e)
  <2>1. \E to : IoStep(e, "parse", to) /\ to # "send"
    <3>1. IoStep(e, "parse", AfterParsing(e, peer_eof'[e]))
      BY <1>15 DEF ParseEnds
    <3>2. peer_eof'[e] \in BOOLEAN
      BY <1>15 DEF ParseEnds, TypeOK
    <3> QED
      BY <3>1, <3>2, AfterLemma
  <2>2. UNCHANGED <<written, peeked, send_fds, send_bytes>>
    BY <1>15 DEF ParseEnds
  <2> QED
    BY <1>1, <2>1, <2>2
<1>16. CASE ReleaseAcknowledgedFds(e)
  <2>1. \E to : IoStep(e, "release_acked", to) /\ to # "send"
    BY <1>16, AfterLemma, LocalTypes DEF ReleaseAcknowledgedFds
  <2>2. UNCHANGED <<written, peeked, send_fds, send_bytes>>
    BY <1>16 DEF ReleaseAcknowledgedFds
  <2> QED
    BY <1>1, <2>1, <2>2
<1>17. CASE PublishBatch(e)
  <2>1. \E to : IoStep(e, "publish", to) /\ to # "send"
    BY <1>17, AfterLemma, LocalTypes DEF PublishBatch
  <2>2. UNCHANGED <<written, peeked, send_fds, send_bytes>>
    BY <1>17 DEF PublishBatch
  <2> QED
    BY <1>1, <2>1, <2>2
<1>18. CASE ReportEof(e)
  <2>1. \E to : IoStep(e, "report_eof", to) /\ to # "send"
    BY <1>18, AfterLemma, LocalTypes DEF ReportEof
  <2>2. UNCHANGED <<written, peeked, send_fds, send_bytes>>
    BY <1>18 DEF ReportEof
  <2> QED
    BY <1>1, <2>1, <2>2
<1>19. CASE CheckTransferred(e)
  <2>1. /\ \E to : IoStep(e, "check_transferred", to) /\ to # "send"
        /\ UNCHANGED <<written, peeked, send_fds, send_bytes>>
    BY <1>19 DEF CheckTransferred
  <2> QED
    BY <1>1, <2>1
<1>20. CASE MarkEof(e)
  <2>1. /\ \E to : IoStep(e, "mark_eof", to) /\ to # "send"
        /\ UNCHANGED <<written, peeked, send_fds, send_bytes>>
    BY <1>20 DEF MarkEof
  <2> QED
    BY <1>1, <2>1
<1>21. CASE FinalNotify(e)
  <2>1. /\ \E to : IoStep(e, "final_notify", to) /\ to # "send"
        /\ UNCHANGED <<written, peeked, send_fds, send_bytes>>
    BY <1>21 DEF FinalNotify
  <2> QED
    BY <1>1, <2>1
<1>22. ASSUME NEW n \in 1..ChunkSize, ReceiveSome(e, n) PROVE PeekedStays'
  <2>1. /\ \E to : IoStep(e, "receive", to) /\ to # "send"
        /\ UNCHANGED <<written, peeked, send_fds, send_bytes>>
    <3>1. \/ IoStep(e, "receive", "receive")
          \/ IoStep(e, "receive", "parse")
      BY <1>22 DEF ReceiveSome
    <3>2. UNCHANGED <<written, peeked, send_fds, send_bytes>>
      BY <1>22 DEF ReceiveSome
    <3> QED
      BY <3>1, <3>2
  <2> QED
    BY <1>1, <2>1
<1>23. CASE ParseMessage(e)
  BY <1>2, <1>23 DEF ParseMessage
<1>24. CASE ParseAcknowledgement(e)
  BY <1>2, <1>24 DEF ParseAcknowledgement
<1>25. CASE VerifyStopped(e)
  <2>1. CASE Die(e)
    BY <1>3, <2>1
  <2>2. CASE ~Die(e)
    <3>1. /\ IoStep(e, "verify", "check_transferred")
          /\ UNCHANGED <<written, peeked, send_fds, send_bytes>>
      BY <1>25, <2>2 DEF VerifyStopped
    <3> QED
      BY <1>1, <3>1
  <2> QED
    BY <2>1, <2>2
<1>26. CASE Crash(e)
  BY <1>3, <1>26 DEF Crash
<1> QED
  BY <1>4, <1>5, <1>6, <1>7, <1>8, <1>9, <1>10, <1>11, <1>12, <1>13, <1>14, <1>15, <1>16,
     <1>17, <1>18, <1>19, <1>20, <1>21, <1>22, <1>23, <1>24, <1>25, <1>26
  DEF IoThread

-----------------------------------------------------------------------------
(* BytesBelong. *)

\* Enqueueing a frame gives its bytes the number of the frame.
LEMMA EnqueueBytes ==
    ASSUME TypeOK, BytesBelong, NEW e \in Endpoint, NEW f \in Frame,
           frames' = [frames EXCEPT ![e] = Append(@, f)],
           send_bytes' = [send_bytes EXCEPT ![e] = @ \o Bytes(Len(frames[e]) + 1, f)],
           UNCHANGED <<wire, unprocessed_bytes>>
    PROVE  BytesBelong'
<1>1. /\ frames \in [Endpoint -> Seq(Frame)] /\ send_bytes \in [Endpoint -> Seq(Nat \X Nat)]
      /\ Len(frames[e]) + 1 \in Nat
  <2>1. frames \in [Endpoint -> Seq(Frame)] /\ send_bytes \in [Endpoint -> Seq(Nat \X Nat)]
    BY DEF TypeOK
  <2> QED
    BY <2>1
<1>2. \A p \in Endpoint : /\ Len(frames[p]) \in Nat /\ Len(frames'[p]) \in Nat
                          /\ Len(frames[p]) <= Len(frames'[p])
  BY <1>1, AppendProperties
<1>3. Len(frames'[e]) = Len(frames[e]) + 1
  BY <1>1, AppendProperties
<1> DEFINE b == Bytes(Len(frames[e]) + 1, f)
<1>4. b \in Seq(Nat \X Nat) /\ \A i \in 1..Len(b) : b[i][1] = Len(frames[e]) + 1
  <2>1. b \in Seq(Nat \X Nat) /\ \A i \in 1..Len(b) : b[i] = <<Len(frames[e]) + 1, i>>
    BY <1>1, BytesType
  <2> HIDE DEF b
  <2> QED
    BY <2>1
<1> HIDE DEF b
<1>5. \A i \in 1..Len(send_bytes'[e]) : send_bytes'[e][i][1] \in 1..Len(frames'[e])
  <2> TAKE i \in 1..Len(send_bytes'[e])
  <2>0. send_bytes'[e] = send_bytes[e] \o b /\ send_bytes[e] \in Seq(Nat \X Nat)
    BY <1>1 DEF b
  <2>1. CASE i <= Len(send_bytes[e])
    <3>1. i \in 1..Len(send_bytes[e]) /\ send_bytes'[e][i] = send_bytes[e][i]
      BY <1>4, <2>0, <2>1, ConcatProperties
    <3>2. send_bytes[e][i][1] \in 1..Len(frames[e])
      BY <3>1 DEF BytesBelong
    <3> QED
      BY <1>2, <3>1, <3>2
  <2>2. CASE i > Len(send_bytes[e])
    <3>1. /\ i - Len(send_bytes[e]) \in 1..Len(b)
          /\ send_bytes'[e][i] = b[i - Len(send_bytes[e])]
      <4>1. /\ Len(send_bytes'[e]) = Len(send_bytes[e]) + Len(b)
            /\ \A j \in 1..(Len(send_bytes[e]) + Len(b)) : send_bytes'[e][j] =
                    IF j <= Len(send_bytes[e]) THEN send_bytes[e][j]
                                               ELSE b[j - Len(send_bytes[e])]
        <5> DEFINE P == Nat \X Nat
                   s == send_bytes[e]
        <5>1. b \in Seq(P) /\ s \in Seq(P) /\ send_bytes'[e] = s \o b
          BY <1>4, <2>0
        <5> HIDE DEF P, s
        <5>2. /\ Len(s \o b) = Len(s) + Len(b)
              /\ \A j \in 1..(Len(s) + Len(b)) :
                     (s \o b)[j] = IF j <= Len(s) THEN s[j] ELSE b[j - Len(s)]
          BY <5>1, ConcatProperties, Zenon
        <5> QED
          BY <5>1, <5>2, Zenon DEF s
      <4>2. Len(send_bytes[e]) \in Nat /\ Len(b) \in Nat
        BY <1>4, <2>0
      <4>3. i \in 1..(Len(send_bytes[e]) + Len(b)) /\ ~(i <= Len(send_bytes[e]))
        BY <2>2, <4>1, <4>2
      <4>4. QED
        BY <4>1, <4>2, <4>3
    <3>2. send_bytes'[e][i][1] = Len(frames[e]) + 1
      BY <1>4, <3>1
    <3> QED
      BY <1>2, <1>3, <3>2
  <2>3. i \in Nat /\ Len(send_bytes[e]) \in Nat
    BY <1>4, <2>0, ConcatProperties
  <2> QED
    BY <2>1, <2>2, <2>3
<1>6. \A p \in Endpoint : p # e => send_bytes'[p] = send_bytes[p]
  BY <1>1
<1>7. \A p \in Endpoint : Peer(p) \in Endpoint
  BY PeerLemma
<1>8. SUFFICES ASSUME NEW p \in Endpoint
      PROVE  /\ \A i \in 1..Len(send_bytes'[p]) : send_bytes'[p][i][1] \in 1..Len(frames'[p])
             /\ \A i \in 1..Len(wire[p]) : wire[p][i].byte[1] \in 1..Len(frames'[p])
             /\ \A i \in 1..Len(unprocessed_bytes[p]) :
                    unprocessed_bytes[p][i][1] \in 1..Len(frames'[Peer(p)])
  BY DEF BytesBelong
<1>9. \A q \in Endpoint : \A x : x \in 1..Len(frames[q]) => x \in 1..Len(frames'[q])
  BY <1>2
<1>10. \A i \in 1..Len(send_bytes'[p]) : send_bytes'[p][i][1] \in 1..Len(frames'[p])
  BY <1>5, <1>6, <1>9 DEF BytesBelong
<1> QED
  BY <1>7, <1>9, <1>10 DEF BytesBelong

\* The main thread enqueues frames, and empties the socket or the queues.
LEMMA BytesMain ==
    ASSUME TypeOK, BytesBelong, NEW e \in Endpoint, MainContinues(e) \/ MainBegins(e)
    PROVE  BytesBelong'
<1>1. CASE UNCHANGED <<send_bytes, wire, unprocessed_bytes, frames>>
  BY <1>1 DEF BytesBelong
<1>2. CASE EnqueueMessage(e)
  <2>1. posting[e] \in Frame
    BY LocalTypes
  <2>2. /\ frames' = [frames EXCEPT ![e] = Append(@, posting[e])]
        /\ send_bytes' = [send_bytes EXCEPT ![e] = @ \o Bytes(Len(frames[e]) + 1, posting[e])]
        /\ UNCHANGED <<wire, unprocessed_bytes>>
    BY <1>2 DEF EnqueueMessage
  <2> QED
    BY <2>1, <2>2, EnqueueBytes
<1>3. CASE CreateTransport(e)
  <2>1. /\ send_bytes' = [send_bytes EXCEPT ![e] = <<>>]
        /\ unprocessed_bytes' = [unprocessed_bytes EXCEPT ![e] = <<>>]
        /\ UNCHANGED <<wire, frames>>
    BY <1>3 DEF CreateTransport
  <2>2. /\ send_bytes \in [Endpoint -> Seq(Nat \X Nat)]
        /\ unprocessed_bytes \in [Endpoint -> Seq(Nat \X Nat)]
    BY DEF TypeOK
  <2>3. \A p \in Endpoint : /\ send_bytes'[p] \in {send_bytes[p], <<>>}
                            /\ unprocessed_bytes'[p] \in {unprocessed_bytes[p], <<>>}
    BY <2>1, <2>2
  <2> QED
    BY <2>1, <2>3 DEF BytesBelong
<1>4. CASE JoinAndClose(e)
  <2>1. /\ wire' = [wire EXCEPT ![Peer(e)] = <<>>]
        /\ UNCHANGED <<send_bytes, unprocessed_bytes, frames>>
    BY <1>4 DEF JoinAndClose, CloseSocket
  <2>2. \A p \in Endpoint : wire'[p] \in {wire[p], <<>>}
    BY <2>1 DEF TypeOK
  <2> QED
    BY <2>1, <2>2 DEF BytesBelong
<1>5. ASSUME NEW size \in PayloadSizes, NEW n \in FdCounts, PostMessage(e, size, n)
      PROVE  BytesBelong'
  BY <1>1, <1>5 DEF PostMessage
<1>6. ASSUME NEW op \in StopOps, BeginStop(e, op) PROVE BytesBelong'
  BY <1>1, <1>6 DEF BeginStop
<1>7. CASE WakeIoThread(e)
  BY <1>1, <1>7 DEF WakeIoThread
<1>8. CASE SetUpReadHook(e)
  BY <1>1, <1>8 DEF SetUpReadHook
<1>9. CASE ActivateReadHook(e)
  BY <1>1, <1>9 DEF ActivateReadHook
<1>10. CASE TakeMessages(e)
  BY <1>1, <1>10 DEF TakeMessages
<1>11. CASE ReturnShouldShutdown(e)
  BY <1>1, <1>11 DEF ReturnShouldShutdown
<1>12. CASE LockToWait(e)
  BY <1>1, <1>12 DEF LockToWait
<1>13. CASE TestReadable(e)
  BY <1>1, <1>13 DEF TestReadable
<1>14. CASE BlockOnCondition(e)
  BY <1>1, <1>14 DEF BlockOnCondition
<1>15. CASE StoreDesiredState(e)
  BY <1>1, <1>15 DEF StoreDesiredState
<1>16. CASE JoinAndRelease(e)
  BY <1>1, <1>16 DEF JoinAndRelease
<1> QED
  BY <1>2, <1>3, <1>4, <1>5, <1>6, <1>7, <1>8, <1>9, <1>10, <1>11, <1>12, <1>13, <1>14,
     <1>15, <1>16
  DEF MainContinues, MainBegins

\* Bytes move from the queue to the socket, and from there to the reader, unaltered.
LEMMA BytesIo ==
    ASSUME TypeOK, PeekedStays, BytesBelong, NEW e \in Endpoint, IoThread(e) \/ Crash(e)
    PROVE  BytesBelong'
<1>1. CASE UNCHANGED <<send_bytes, wire, unprocessed_bytes, frames>>
  BY <1>1 DEF BytesBelong
<1>2. Peer(e) \in Endpoint /\ Peer(e) # e
  BY PeerLemma
<1>3. CASE DiscardWritten(e)
  <2>1. /\ send_bytes' = [send_bytes EXCEPT ![e] = Drop(@, written[e].bytes)]
        /\ UNCHANGED <<wire, unprocessed_bytes, frames>>
    BY <1>3 DEF DiscardWritten
  <2>2. send_bytes \in [Endpoint -> Seq(Nat \X Nat)] /\ written[e].bytes \in Nat
    BY LocalTypes DEF TypeOK, Amount
  <2>3. \A i \in 1..Len(Drop(send_bytes[e], written[e].bytes)) :
            Drop(send_bytes[e], written[e].bytes)[i][1] \in 1..Len(frames[e])
    <3>1. send_bytes[e] \in Seq(Nat \X Nat)
      BY <2>2
    <3>2. \A i \in 1..Len(Drop(send_bytes[e], written[e].bytes)) :
              /\ Drop(send_bytes[e], written[e].bytes)[i] = send_bytes[e][written[e].bytes + i]
              /\ written[e].bytes + i \in 1..Len(send_bytes[e])
      BY <2>2, <3>1, DropType
    <3>3. \A j \in 1..Len(send_bytes[e]) : send_bytes[e][j][1] \in 1..Len(frames[e])
      BY DEF BytesBelong
    <3> QED
      BY <3>2, <3>3
  <2>4. \A p \in Endpoint \ {e} : send_bytes'[p] = send_bytes[p]
    BY <2>1, <2>2
  <2>5. send_bytes'[e] = Drop(send_bytes[e], written[e].bytes)
    BY <2>1, <2>2
  <2>6. \A p \in Endpoint : \A i \in 1..Len(send_bytes'[p]) :
            send_bytes'[p][i][1] \in 1..Len(frames[p])
    BY <2>3, <2>4, <2>5 DEF BytesBelong
  <2> QED
    BY <2>1, <2>6 DEF BytesBelong
<1>4. ASSUME NEW n \in 1..ChunkSize, SendSome(e, n) PROVE BytesBelong'
  <2> DEFINE chunk == Chunk(e, n)
  <2>1. /\ wire' = [wire EXCEPT ![e] = @ \o chunk] /\ n <= Unsent(e) /\ io_pc[e] = "send"
        /\ UNCHANGED <<send_bytes, unprocessed_bytes, frames>>
    BY <1>4 DEF SendSome
  <2>2. /\ wire \in [Endpoint -> Seq(Carrier)] /\ n \in Nat
        /\ Len(send_bytes[e]) \in Nat /\ written[e] \in Amount /\ peeked[e] \in Amount
    <3>1. wire \in [Endpoint -> Seq(Carrier)]
      BY DEF TypeOK
    <3>2. n \in Nat
      BY SizeAssumption DEF SizeAssumption
    <3> QED
      BY <3>1, <3>2, LocalTypes
  <2>3. \A i \in 1..n : written[e].bytes + i \in 1..Len(send_bytes[e])
    <3>1. written[e].bytes + n <= Len(send_bytes[e])
      <4>1. peeked[e].bytes <= Len(send_bytes[e])
        BY <2>1 DEF PeekedStays, Peeked
      <4>2. n <= peeked[e].bytes - written[e].bytes
        BY <2>1 DEF Unsent
      <4>3. peeked[e].bytes \in Nat /\ written[e].bytes \in Nat
        BY <2>2 DEF Amount
      <4>4. QED
        BY <2>2, <4>1, <4>2, <4>3
    <3> QED
      BY <2>2, <3>1 DEF Amount
  <2>4. TypeOK'
    BY TypeIo
  <2>5. \A i \in 1..n : chunk[i].byte[1] \in 1..Len(frames[e])
    <3> TAKE i \in 1..n
    <3>1. chunk[i].byte = send_bytes[e][written[e].bytes + i]
      BY DEF Chunk
    <3>2. written[e].bytes + i \in 1..Len(send_bytes[e])
      BY <2>3
    <3> HIDE DEF chunk
    <3> QED
      BY <3>1, <3>2 DEF BytesBelong
  <2>6. chunk \in Seq(Carrier) /\ Len(chunk) = n
    <3>1. \A i \in 1..n : send_bytes[e][written[e].bytes + i] \in Nat \X Nat
      BY <2>3, LocalTypes, ElementOfSeq
    <3>2. SubSeq(send_fds[e], 1, peeked[e].fds) \in Seq(Nat) /\ <<>> \in Seq(Nat)
      <4>1. send_fds[e] \in Seq(Nat)
        BY LocalTypes
      <4>2. peeked[e].fds \in Nat /\ peeked[e].fds <= Len(send_fds[e])
        BY <2>1, <2>2 DEF PeekedStays, Peeked, Amount
      <4> QED
        BY <4>1, <4>2, SubSeqType
    <3>3. chunk \in [1..n -> Carrier]
      BY <3>1, <3>2 DEF Carrier, Chunk
    <3> HIDE DEF chunk
    <3> QED
      BY <2>2, <3>3, FunctionIsSequence
  <2> HIDE DEF chunk
  <2>7. \A i \in 1..Len(wire[e] \o chunk) : (wire[e] \o chunk)[i].byte[1] \in 1..Len(frames[e])
    <3> TAKE i \in 1..Len(wire[e] \o chunk)
    <3>0. wire[e] \in Seq(Carrier) /\ Len(wire[e]) \in Nat
      BY <2>2
    <3>1. CASE i \in 1..Len(wire[e])
      <4>1. (wire[e] \o chunk)[i] = wire[e][i]
        BY <2>6, <3>0, <3>1, ConcatProperties
      <4> QED
        BY <3>1, <4>1 DEF BytesBelong
    <3>2. CASE i \notin 1..Len(wire[e])
      <4>1. /\ i - Len(wire[e]) \in 1..n
            /\ (wire[e] \o chunk)[i] = chunk[i - Len(wire[e])]
        BY <2>2, <2>6, <3>0, <3>2, ConcatProperties
      <4> QED
        BY <2>5, <4>1
    <3> QED
      BY <3>1, <3>2
  <2>8. wire'[e] = wire[e] \o chunk /\ \A p \in Endpoint \ {e} : wire'[p] = wire[p]
    BY <2>1, <2>2
  <2>9. \A p \in Endpoint : \A i \in 1..Len(wire'[p]) : wire'[p][i].byte[1] \in 1..Len(frames[p])
    BY <2>7, <2>8 DEF BytesBelong
  <2> QED
    BY <2>1, <2>9 DEF BytesBelong
<1>5. ASSUME NEW n \in 1..ChunkSize, ReceiveSome(e, n) PROVE BytesBelong'
  <2> DEFINE w == wire[Peer(e)]
             data == [i \in 1..n |-> w[i].byte]
  <2>1. /\ w \in Seq(Carrier) /\ n \in Nat /\ n <= Len(w)
        /\ wire \in [Endpoint -> Seq(Carrier)]
        /\ unprocessed_bytes \in [Endpoint -> Seq(Nat \X Nat)]
    <3>1. /\ wire \in [Endpoint -> Seq(Carrier)]
          /\ unprocessed_bytes \in [Endpoint -> Seq(Nat \X Nat)]
      BY DEF TypeOK
    <3>2. n <= Len(w)
      BY <1>5 DEF ReceiveSome
    <3>3. n \in Nat
      BY SizeAssumption DEF SizeAssumption
    <3> QED
      BY <1>2, <3>1, <3>2, <3>3
  <2>2. \/ unprocessed_bytes' = unprocessed_bytes
        \/ unprocessed_bytes' = [unprocessed_bytes EXCEPT ![e] = @ \o data]
    BY <1>5 DEF ReceiveSome, TypeOK
  <2>3. wire' = [wire EXCEPT ![Peer(e)] = Drop(w, n)] /\ UNCHANGED <<send_bytes, frames>>
    BY <1>5 DEF ReceiveSome
  <2>4. data \in Seq(Nat \X Nat) /\ Len(data) = n
    BY <2>1, ReceivedType
  <2>5. \A i \in 1..n : data[i][1] \in 1..Len(frames[Peer(e)])
    <3>1. \A i \in 1..n : i \in 1..Len(w)
      BY <2>1
    <3>2. \A i \in 1..Len(w) : w[i].byte[1] \in 1..Len(frames[Peer(e)])
      BY <1>2 DEF BytesBelong
    <3> QED
      BY <3>1, <3>2
  <2>6. \A i \in 1..Len(Drop(w, n)) : Drop(w, n)[i].byte[1] \in 1..Len(frames[Peer(e)])
    <3>1. \A i \in 1..Len(w) : w[i].byte[1] \in 1..Len(frames[Peer(e)])
      BY <1>2 DEF BytesBelong
    <3> HIDE DEF w
    <3>2. \A i \in 1..Len(Drop(w, n)) : Drop(w, n)[i] = w[n + i] /\ n + i \in 1..Len(w)
      BY <2>1, DropType
    <3> QED
      BY <3>1, <3>2
  <2> HIDE DEF w, data
  <2>7. \A p \in Endpoint : \A i \in 1..Len(wire'[p]) : wire'[p][i].byte[1] \in 1..Len(frames[p])
    <3>1. wire'[Peer(e)] = Drop(w, n)
      BY <1>2, <2>1, <2>3
    <3>2. \A p \in Endpoint \ {Peer(e)} : wire'[p] = wire[p]
      BY <2>1, <2>3
    <3> QED
      BY <2>6, <3>1, <3>2 DEF BytesBelong
  <2>8. \A i \in 1..Len(unprocessed_bytes[e] \o data) :
            (unprocessed_bytes[e] \o data)[i][1] \in 1..Len(frames[Peer(e)])
    <3> TAKE i \in 1..Len(unprocessed_bytes[e] \o data)
    <3>0. unprocessed_bytes[e] \in Seq(Nat \X Nat) /\ Len(unprocessed_bytes[e]) \in Nat
      BY <2>1
    <3>1. CASE i \in 1..Len(unprocessed_bytes[e])
      <4>1. (unprocessed_bytes[e] \o data)[i] = unprocessed_bytes[e][i]
        BY <2>4, <3>0, <3>1, ConcatProperties
      <4> QED
        BY <3>1, <4>1 DEF BytesBelong
    <3>2. CASE i \notin 1..Len(unprocessed_bytes[e])
      <4>1. /\ i - Len(unprocessed_bytes[e]) \in 1..n
            /\ (unprocessed_bytes[e] \o data)[i] = data[i - Len(unprocessed_bytes[e])]
        BY <2>1, <2>4, <3>0, <3>2, ConcatProperties
      <4> QED
        BY <2>5, <4>1
    <3> QED
      BY <3>1, <3>2
  <2>9. \A p \in Endpoint : \A i \in 1..Len(unprocessed_bytes'[p]) :
            unprocessed_bytes'[p][i][1] \in 1..Len(frames[Peer(p)])
    <3>1. CASE unprocessed_bytes' = unprocessed_bytes
      BY <3>1 DEF BytesBelong
    <3>2. CASE unprocessed_bytes' = [unprocessed_bytes EXCEPT ![e] = @ \o data]
      <4>1. /\ unprocessed_bytes'[e] = unprocessed_bytes[e] \o data
            /\ \A p \in Endpoint \ {e} : unprocessed_bytes'[p] = unprocessed_bytes[p]
        BY <2>1, <3>2
      <4> QED
        BY <2>8, <4>1 DEF BytesBelong
    <3> QED
      BY <2>2, <3>1, <3>2
  <2> QED
    BY <2>3, <2>7, <2>9 DEF BytesBelong
<1>6. ASSUME NEW n \in Nat, UNCHANGED <<send_bytes, wire, frames>>,
             unprocessed_bytes' = [unprocessed_bytes EXCEPT ![e] = Drop(@, n)]
      PROVE  BytesBelong'
  <2>1. unprocessed_bytes \in [Endpoint -> Seq(Nat \X Nat)]
    BY DEF TypeOK
  <2>2. \A i \in 1..Len(Drop(unprocessed_bytes[e], n)) :
            Drop(unprocessed_bytes[e], n)[i][1] \in 1..Len(frames[Peer(e)])
    <3>1. unprocessed_bytes[e] \in Seq(Nat \X Nat)
      BY <2>1
    <3>2. \A i \in 1..Len(Drop(unprocessed_bytes[e], n)) :
              /\ Drop(unprocessed_bytes[e], n)[i] = unprocessed_bytes[e][n + i]
              /\ n + i \in 1..Len(unprocessed_bytes[e])
      BY <3>1, DropType
    <3>3. \A j \in 1..Len(unprocessed_bytes[e]) :
              unprocessed_bytes[e][j][1] \in 1..Len(frames[Peer(e)])
      BY DEF BytesBelong
    <3> QED
      BY <3>2, <3>3
  <2>3. /\ unprocessed_bytes'[e] = Drop(unprocessed_bytes[e], n)
        /\ \A p \in Endpoint \ {e} : unprocessed_bytes'[p] = unprocessed_bytes[p]
    BY <1>6, <2>1
  <2>4. \A p \in Endpoint : \A i \in 1..Len(unprocessed_bytes'[p]) :
            unprocessed_bytes'[p][i][1] \in 1..Len(frames[Peer(p)])
    BY <2>2, <2>3 DEF BytesBelong
  <2> QED
    BY <1>6, <2>4 DEF BytesBelong
<1>7. CASE ParseMessage(e)
  <2>1. PICK h \in HeadersAt(e) :
            /\ unprocessed_bytes' = [unprocessed_bytes EXCEPT
                    ![e] = Drop(@, HeaderSize + h.payload_size)]
            /\ UNCHANGED <<send_bytes, wire, frames>>
    BY <1>7 DEF ParseMessage
  <2>2. HeaderSize + h.payload_size \in Nat
    BY HeaderType, SizeAssumption DEF SizeAssumption
  <2> QED
    BY <1>6, <2>1, <2>2
<1>8. CASE ParseAcknowledgement(e)
  <2>1. /\ unprocessed_bytes' = [unprocessed_bytes EXCEPT ![e] = Drop(@, HeaderSize)]
        /\ UNCHANGED <<send_bytes, wire, frames>>
    BY <1>8 DEF ParseAcknowledgement
  <2>2. HeaderSize \in Nat
    BY SizeAssumption DEF SizeAssumption
  <2> QED
    BY <1>6, <2>1, <2>2
<1>9. CASE AcknowledgeReceivedFds(e)
  <2> DEFINE ack == Acknowledgement(e)
  <2>1. ack \in Frame
    BY LocalTypes DEF Frame, Acknowledgement
  <2>2. /\ frames' = [frames EXCEPT ![e] = Append(@, ack)]
        /\ send_bytes' = [send_bytes EXCEPT ![e] = @ \o Bytes(Len(frames[e]) + 1, ack)]
        /\ UNCHANGED <<wire, unprocessed_bytes>>
    BY <1>9 DEF AcknowledgeReceivedFds
  <2> HIDE DEF ack
  <2> QED
    BY <2>1, <2>2, EnqueueBytes
<1>10. ASSUME Die(e) PROVE BytesBelong'
  <2>1. /\ wire' = [wire EXCEPT ![Peer(e)] = <<>>]
        /\ UNCHANGED <<send_bytes, unprocessed_bytes, frames>>
    BY <1>10 DEF Die, CloseSocket
  <2>2. \A p \in Endpoint : wire'[p] \in {wire[p], <<>>}
    BY <2>1 DEF TypeOK
  <2> QED
    BY <2>1, <2>2 DEF BytesBelong
<1>11. CASE PeekSendQueue(e)
  BY <1>1, <1>11 DEF PeekSendQueue
<1>12. CASE LoadState(e)
  BY <1>1, <1>12 DEF LoadState
<1>13. CASE Poll(e)
  BY <1>1, <1>13 DEF Poll
<1>14. CASE PollFails(e)
  BY <1>1, <1>14 DEF PollFails
<1>15. CASE DrainWakeupPipe(e)
  BY <1>1, <1>15 DEF DrainWakeupPipe
<1>16. CASE StopOnHangup(e)
  BY <1>1, <1>16 DEF StopOnHangup
<1>17. CASE PeekToSend(e)
  BY <1>1, <1>17 DEF PeekToSend
<1>18. CASE SendFails(e)
  BY <1>1, <1>18 DEF SendFails
<1>19. CASE ReceiveEnds(e)
  BY <1>1, <1>19 DEF ReceiveEnds
<1>20. CASE ParseEnds(e)
  BY <1>1, <1>20 DEF ParseEnds
<1>21. CASE ReleaseAcknowledgedFds(e)
  BY <1>1, <1>21 DEF ReleaseAcknowledgedFds
<1>22. CASE PublishBatch(e)
  BY <1>1, <1>22 DEF PublishBatch
<1>23. CASE ReportEof(e)
  BY <1>1, <1>23 DEF ReportEof
<1>24. CASE CheckTransferred(e)
  BY <1>1, <1>24 DEF CheckTransferred
<1>25. CASE MarkEof(e)
  BY <1>1, <1>25 DEF MarkEof
<1>26. CASE FinalNotify(e)
  BY <1>1, <1>26 DEF FinalNotify
<1>27. CASE VerifyStopped(e)
  BY <1>1, <1>10, <1>27 DEF VerifyStopped
<1>28. CASE Crash(e)
  BY <1>10, <1>28 DEF Crash
<1> QED
  BY <1>3, <1>4, <1>5, <1>7, <1>8, <1>9, <1>11, <1>12, <1>13, <1>14, <1>15, <1>16, <1>17,
     <1>18, <1>19, <1>20, <1>21, <1>22, <1>23, <1>24, <1>25, <1>26, <1>27, <1>28
  DEF IoThread

-----------------------------------------------------------------------------
(* The theorems. *)

\* Nothing has been sent, no thread has stopped.
LEMMA InvInit == Init => IndInv
<1> SUFFICES ASSUME Init PROVE IndInv
  OBVIOUS
<1>1. TypeOK
  BY TypeInit
<1>2. JoinedFirst
  BY DEF Init, JoinedFirst, HandedOver, Stopping
<1>3. PeekedStays
  BY DEF Init, PeekedStays, Peeked
<1>4. BytesBelong
  BY PeerLemma DEF Init, BytesBelong
<1> QED
  BY <1>1, <1>2, <1>3, <1>4 DEF IndInv

\* Every step of every thread keeps the invariant.
LEMMA InvNext == IndInv /\ [Next]_vars => IndInv'
<1> SUFFICES ASSUME IndInv, [Next]_vars PROVE IndInv'
  OBVIOUS
<1>1. TypeOK /\ JoinedFirst /\ PeekedStays /\ BytesBelong
  BY DEF IndInv
<1>2. ASSUME NEW e \in Endpoint, MainContinues(e) \/ MainBegins(e) PROVE IndInv'
  BY <1>1, <1>2, TypeMain, JoinedMain, PeekedMain, BytesMain DEF IndInv
<1>3. ASSUME NEW e \in Endpoint, IoThread(e) \/ Crash(e) PROVE IndInv'
  BY <1>1, <1>3, TypeIo, JoinedIo, PeekedIo, BytesIo DEF IndInv
<1>4. CASE UNCHANGED vars
  <2>1. TypeOK'
    BY <1>1, <1>4 DEF TypeOK
  <2>2. JoinedFirst' /\ PeekedStays'
    BY <1>1, <1>4 DEF JoinedFirst, HandedOver, Stopping, PeekedStays, Peeked
  <2>3. BytesBelong'
    BY <1>1, <1>4 DEF BytesBelong
  <2> QED
    BY <2>1, <2>2, <2>3 DEF IndInv
<1> QED
  BY <1>2, <1>3, <1>4 DEF Next

\* IndInv is an invariant of TransportSocket for all sizes, limits and operations.
THEOREM Invariance == Spec => []IndInv
<1>1. Init => IndInv
  BY InvInit
<1>2. IndInv /\ [Next]_vars => IndInv'
  BY InvNext
<1> QED
  BY <1>1, <1>2, PTL DEF Spec

\* Every variable of the two ends and of their four threads keeps its type.
THEOREM TypeCorrect == Spec => []TypeOK
<1>1. IndInv => TypeOK
  BY DEF IndInv
<1> QED
  BY <1>1, Invariance, PTL

\* SendQueue::discard never asks the stream for more than it holds, whatever post_message
\* and the acknowledgements have appended since peek: its MUST does not fail.
THEOREM DiscardNeverFails == Spec => []DiscardFits
<1>1. IndInv => DiscardFits
  <2> SUFFICES ASSUME IndInv, NEW e \in Endpoint, io_pc[e] = "send"
               PROVE  /\ written[e].bytes <= Len(send_bytes[e])
                      /\ written[e].fds <= Len(send_fds[e])
    BY DEF DiscardFits
  <2>1. /\ written[e].bytes <= peeked[e].bytes /\ peeked[e].bytes <= Len(send_bytes[e])
        /\ written[e].fds <= peeked[e].fds /\ peeked[e].fds <= Len(send_fds[e])
    BY DEF IndInv, PeekedStays, Peeked
  <2>2. /\ written[e] \in Amount /\ peeked[e] \in Amount
        /\ Len(send_bytes[e]) \in Nat /\ Len(send_fds[e]) \in Nat
    BY LocalTypes DEF IndInv
  <2> QED
    BY <2>1, <2>2 DEF Amount
<1> QED
  BY <1>1, Invariance, PTL

\* stop_io_thread closes the descriptor only after the thread that polls, reads and writes
\* it has ended, in whatever order close, transfer, hangup and errors come.
THEOREM ClosedAfterJoin == Spec => []NoIoOnClosedSocket
<1>1. IndInv => NoIoOnClosedSocket
  BY DEF IndInv, JoinedFirst, NoIoOnClosedSocket
<1> QED
  BY <1>1, Invariance, PTL

-----------------------------------------------------------------------------
(* What one thread of an end tells the other is not missed. *)

\* The IO thread is to look at the queue and at the state again.
Woken(e) ==
    /\ io_pc[e] \in {"load", "poll"} /\ (send_bytes[e] # <<>> \/ send_fds[e] # <<>>) =>
         want_to_write[e] \/ wakeup_pipe[e] \/ main_pc[e] = "wake"
    /\ io_pc[e] = "poll" /\ io_thread_state[e] # "Running" =>
         \/ wakeup_pipe[e] \/ main_pc[e] = "stop_wake"
         \/ io_thread_state[e] = "SendPendingMessagesAndStop" /\ want_to_write[e]

\* The main thread is to read messages, or the end of file.
Notified(e) ==
    /\ main_pc[e] = "wait_block" => incoming_messages[e] = <<>>
    /\ incoming_messages[e] # <<>> =>
         /\ main_pc[e] # "blocked"
         /\ hooked[e] => notify_pipe[e] \/ main_pc[e] \in {"take", "dead"}
    /\ is_being_transferred[e] = (stop_op[e] = "transfer")
    /\ io_pc[e] \in {"final_notify", "done"} => peer_eof[e] \/ stop_op[e] = "transfer"
    /\ io_pc[e] = "done" =>
         \/ stop_op[e] = "transfer" \/ saw_shutdown[e]
         \/ notify_pipe[e] \/ main_pc[e] \in {"take", "should_shutdown"}

\* The state that ended the loop is still there, or was overwritten by stop_io_thread.
Verified(e) ==
    /\ main_pc[e] = "store" => stop_op[e] # "none"
    /\ io_pc[e] = "verify" =>
         \/ io_thread_state[e] = "Stopped"
         \/ /\ stop_op[e] \in {"close_after_sending", "transfer"}
            /\ main_pc[e] \in {"stop_wake", "join"}

Told(e) == Woken(e) /\ Notified(e) /\ Verified(e)

\* The step leaves the two threads of x alone.
Untouched(x) ==
    /\ io_thread_state'[x] = io_thread_state[x] /\ peer_eof'[x] = peer_eof[x]
    /\ is_being_transferred'[x] = is_being_transferred[x]
    /\ send_bytes'[x] = send_bytes[x] /\ send_fds'[x] = send_fds[x]
    /\ incoming_messages'[x] = incoming_messages[x]
    /\ wakeup_pipe'[x] = wakeup_pipe[x] /\ notify_pipe'[x] = notify_pipe[x]
    /\ io_pc'[x] = io_pc[x] /\ want_to_write'[x] = want_to_write[x]
    /\ main_pc'[x] = main_pc[x] /\ stop_op'[x] = stop_op[x]
    /\ hooked'[x] = hooked[x] /\ saw_shutdown'[x] = saw_shutdown[x]

\* An end that does not move has not missed anything.
LEMMA ToldStays ==
    ASSUME NEW x \in Endpoint, Told(x), Untouched(x)
    PROVE  Told(x)'
<1>1. Woken(x)'
  BY DEF Told, Woken, Untouched
<1>2. Notified(x)'
  BY DEF Told, Notified, Untouched
<1>3. Verified(x)'
  BY DEF Told, Verified, Untouched
<1> QED
  BY <1>1, <1>2, <1>3 DEF Told

\* Where the IO thread relies on what it was told, or the main thread on what it has left.
Relying == {"load", "poll", "verify", "final_notify", "done"}

\* The IO thread is busy: it will look at everything again before it sleeps.
LEMMA BusyIsTold ==
    ASSUME NEW e \in Endpoint, Told(e), io_pc'[e] \notin Relying, main_pc'[e] = main_pc[e],
           notify_pipe'[e] = notify_pipe[e], incoming_messages'[e] = incoming_messages[e],
           hooked'[e] = hooked[e], stop_op'[e] = stop_op[e],
           is_being_transferred'[e] = is_being_transferred[e]
    PROVE  Told(e)'
<1>1. Woken(e)'
  BY DEF Woken, Relying
<1>2. Notified(e)'
  BY DEF Told, Notified, Relying
<1>3. Verified(e)'
  BY DEF Told, Verified, Relying
<1> QED
  BY <1>1, <1>2, <1>3 DEF Told

\* No test of the loop body leads to a place where the thread relies on anything.
LEMMA BodyIsBusy ==
    ASSUME NEW e \in Endpoint, NEW r, NEW eof
    PROVE  /\ AfterReading(r) \notin Relying /\ AfterDraining(r) \notin Relying
           /\ AfterPublishing(e, eof) \notin Relying /\ AfterAcknowledging(e, eof) \notin Relying
           /\ AfterReleasing(e, eof) \notin Relying /\ AfterParsing(e, eof) \notin Relying
<1>1. \A s : AfterReading(s) \notin Relying
  BY DEF AfterReading, Relying
<1>2. AfterDraining(r) \notin Relying
  BY <1>1 DEF AfterDraining, Relying
<1>3. AfterPublishing(e, eof) \notin Relying
  BY <1>1 DEF AfterPublishing, Relying
<1>4. AfterAcknowledging(e, eof) \notin Relying
  BY <1>3 DEF AfterAcknowledging, Relying
<1>5. AfterReleasing(e, eof) \notin Relying
  BY <1>4 DEF AfterReleasing, Relying
<1>6. AfterParsing(e, eof) \notin Relying
  BY <1>5 DEF AfterParsing, Relying
<1> QED
  BY <1>1, <1>2, <1>3, <1>4, <1>5, <1>6

\* The death of an end.
LEMMA DeadIsTold ==
    ASSUME TypeOK, NEW e \in Endpoint, Told(e), Die(e)
    PROVE  Told(e)' /\ \A x \in Endpoint : x # e => Untouched(x)
<1>1. /\ io_pc'[e] = "dead" /\ main_pc'[e] = "dead"
      /\ incoming_messages'[e] = incoming_messages[e] /\ hooked'[e] = hooked[e]
      /\ stop_op'[e] = stop_op[e] /\ is_being_transferred'[e] = is_being_transferred[e]
  BY DEF Die, TypeOK
<1>2. \A x \in Endpoint : x # e => Untouched(x)
  BY DEF Die, TypeOK, Untouched
<1>3. is_being_transferred[e] = (stop_op[e] = "transfer")
  BY DEF Told, Notified
<1> QED
  BY <1>1, <1>2, <1>3 DEF Told, Woken, Notified, Verified

\* The IO thread misses nothing and says what it leaves behind.
LEMMA ToldIo ==
    ASSUME TypeOK, NEW e \in Endpoint, \A x \in Endpoint : Told(x), IoThread(e) \/ Crash(e)
    PROVE  \A x \in Endpoint : Told(x)'
<1> DEFINE Others == \A x \in Endpoint : x # e => Untouched(x)
           Same == /\ main_pc'[e] = main_pc[e] /\ notify_pipe'[e] = notify_pipe[e]
                   /\ incoming_messages'[e] = incoming_messages[e] /\ hooked'[e] = hooked[e]
                   /\ stop_op'[e] = stop_op[e]
                   /\ is_being_transferred'[e] = is_being_transferred[e]
<1> SUFFICES Told(e)' /\ Others
  BY ToldStays
<1>1. Told(e)
  OBVIOUS
<1>2. ASSUME Others, Same, io_pc'[e] \notin Relying PROVE Told(e)' /\ Others
  BY <1>1, <1>2, BusyIsTold
<1>3. CASE PeekSendQueue(e)
  <2>1. /\ Others /\ Same /\ io_pc'[e] = "load"
        /\ want_to_write'[e] = (send_bytes[e] # <<>> \/ send_fds[e] # <<>>)
        /\ send_bytes'[e] = send_bytes[e] /\ send_fds'[e] = send_fds[e]
    BY <1>3 DEF PeekSendQueue, IoStep, TypeOK, Untouched
  <2> QED
    BY <1>1, <2>1 DEF Told, Woken, Notified, Verified
<1>4. CASE LoadState(e)
  <2>1. /\ Others /\ Same /\ want_to_write'[e] = want_to_write[e] /\ io_pc[e] = "load"
        /\ send_bytes'[e] = send_bytes[e] /\ send_fds'[e] = send_fds[e]
        /\ wakeup_pipe'[e] = wakeup_pipe[e]
        /\ \/ io_pc'[e] = "verify" /\ io_thread_state'[e] = "Stopped"
           \/ /\ io_pc'[e] = "poll" /\ io_thread_state'[e] = io_thread_state[e]
              /\ io_thread_state[e] # "Stopped"
              /\ io_thread_state[e] # "SendPendingMessagesAndStop" \/ want_to_write[e]
    BY <1>4 DEF LoadState, IoStep, TypeOK, Untouched
  <2>2. io_thread_state[e] \in {"Running", "SendPendingMessagesAndStop", "Stopped"}
    BY DEF TypeOK, IOThreadState
  <2> QED
    BY <1>1, <2>1, <2>2 DEF Told, Woken, Notified, Verified
<1>5. CASE Poll(e) \/ DrainWakeupPipe(e)
  <2>1. /\ Others /\ Same
        /\ io_pc'[e] \in {"drain_wakeup", AfterDraining(Ready(e)), AfterDraining(revents[e])}
    BY <1>5 DEF Poll, DrainWakeupPipe, IoStep, TypeOK, Untouched
  <2>2. io_pc'[e] \notin Relying
    BY <2>1, BodyIsBusy DEF Relying
  <2> QED
    BY <1>2, <2>1, <2>2
<1>6. CASE PollFails(e) \/ StopOnHangup(e)
  <2>1. Others /\ Same /\ io_pc'[e] = "verify" /\ io_thread_state'[e] = "Stopped"
    BY <1>6 DEF PollFails, StopOnHangup, IoStep, TypeOK, Untouched
  <2> QED
    BY <1>1, <2>1 DEF Told, Woken, Notified, Verified
<1>7. CASE PeekToSend(e) \/ SendFails(e) \/ DiscardWritten(e)
  <2>1. Others /\ Same /\ io_pc'[e] \in {"peek", "send"}
    BY <1>7 DEF PeekToSend, SendFails, DiscardWritten, IoStep, TypeOK, Untouched
  <2> QED
    BY <1>2, <2>1 DEF Relying
<1>8. CASE \E n \in 1..ChunkSize : SendSome(e, n) \/ ReceiveSome(e, n)
  <2>1. PICK n \in 1..ChunkSize : SendSome(e, n) \/ ReceiveSome(e, n)
    BY <1>8
  <2>2. Others /\ Same /\ io_pc'[e] \in {"send", "receive", "parse"}
    BY <2>1 DEF SendSome, ReceiveSome, IoStep, TypeOK, Untouched
  <2> QED
    BY <1>2, <2>2 DEF Relying
<1>9. CASE ReceiveEnds(e) \/ ParseMessage(e) \/ ParseAcknowledgement(e)
  <2>1. Others /\ Same /\ io_pc'[e] = "parse"
    BY <1>9 DEF ReceiveEnds, ParseMessage, ParseAcknowledgement, IoStep, TypeOK, Untouched
  <2> QED
    BY <1>2, <2>1 DEF Relying
<1>10. CASE ParseEnds(e) \/ ReleaseAcknowledgedFds(e)
  <2>1. /\ Others /\ Same
        /\ \/ io_pc'[e] = AfterParsing(e, peer_eof'[e])
           \/ io_pc'[e] = AfterReleasing(e, peer_eof[e] \/ acknowledged_fd_count[e] > Len(retained_fds[e]))
    BY <1>10 DEF ParseEnds, ReleaseAcknowledgedFds, IoStep, TypeOK, Untouched
  <2>2. io_pc'[e] \notin Relying
    BY <2>1, BodyIsBusy
  <2> QED
    BY <1>2, <2>1, <2>2
<1>11. CASE AcknowledgeReceivedFds(e)
  <2>1. Others /\ Same /\ io_pc'[e] = AfterAcknowledging(e, peer_eof[e])
    BY <1>11 DEF AcknowledgeReceivedFds, IoStep, TypeOK, Untouched
  <2>2. io_pc'[e] \notin Relying
    BY <2>1, BodyIsBusy
  <2> QED
    BY <1>2, <2>1, <2>2
<1>12. CASE PublishBatch(e) \/ ReportEof(e)
  <2>1. /\ Broadcast(e) /\ notify_pipe' = [notify_pipe EXCEPT ![e] = TRUE] /\ UNCHANGED mainRest
        /\ UNCHANGED <<control, send_bytes, send_fds, wakeup_pipe, polled>>
        /\ \/ io_pc' = [io_pc EXCEPT ![e] = AfterPublishing(e, peer_eof[e])]
           \/ io_pc' = [io_pc EXCEPT ![e] = AfterReading(revents[e])]
        /\ \/ incoming_messages' = incoming_messages
           \/ /\ incoming_messages' = [incoming_messages EXCEPT ![e] = @ \o batch[e]]
              /\ main_pc[e] \notin {"wait_locked", "wait_block"}
    BY <1>12 DEF PublishBatch, ReportEof, IncomingMutexIsFree, IoStep
  <2>2. /\ main_pc'[e] = IF main_pc[e] = "blocked" THEN "woken" ELSE main_pc[e]
        /\ \A x \in Endpoint : x # e => main_pc'[x] = main_pc[x]
    BY <2>1 DEF Broadcast, TypeOK
  <2>3. /\ \A x \in Endpoint : x # e => /\ io_pc'[x] = io_pc[x] /\ notify_pipe'[x] = notify_pipe[x]
                                       /\ incoming_messages'[x] = incoming_messages[x]
        /\ io_pc'[e] \in {AfterPublishing(e, peer_eof[e]), AfterReading(revents[e])}
        /\ notify_pipe'[e] = TRUE
        /\ \/ incoming_messages'[e] = incoming_messages[e]
           \/ main_pc[e] \notin {"wait_locked", "wait_block"}
    <3>1. /\ io_pc \in [Endpoint -> IOPc] /\ notify_pipe \in [Endpoint -> BOOLEAN]
          /\ incoming_messages \in [Endpoint -> Seq(Message)]
      BY DEF TypeOK
    <3> QED
      BY <2>1, <3>1
  <2>4. Others
    BY <2>1, <2>2, <2>3 DEF Untouched
  <2>5. io_pc'[e] \notin Relying
    BY <2>3, BodyIsBusy
  <2>6. /\ stop_op'[e] = stop_op[e] /\ is_being_transferred'[e] = is_being_transferred[e]
    BY <2>1
  <2>7. Notified(e)'
    BY <1>1, <2>2, <2>3, <2>5, <2>6 DEF Told, Notified, Relying
  <2>8. Woken(e)' /\ Verified(e)'
    BY <1>1, <2>2, <2>5, <2>6 DEF Told, Woken, Verified, Relying
  <2> QED
    BY <2>4, <2>7, <2>8 DEF Told
<1>13. CASE VerifyStopped(e) \/ Crash(e)
  <2>1. CASE Die(e)
    BY <1>1, <2>1, DeadIsTold
  <2>2. CASE ~Die(e)
    <3>1. Others /\ Same /\ io_pc'[e] = "check_transferred"
      BY <1>13, <2>2 DEF VerifyStopped, Crash, IoStep, TypeOK, Untouched
    <3> QED
      BY <1>2, <3>1 DEF Relying
  <2> QED
    BY <2>1, <2>2
<1>14. CASE CheckTransferred(e)
  <2>1. /\ Others /\ Same
        /\ io_pc'[e] = IF is_being_transferred[e] THEN "done" ELSE "mark_eof"
    BY <1>14 DEF CheckTransferred, IoStep, TypeOK, Untouched
  <2> QED
    BY <1>1, <2>1 DEF Told, Woken, Notified, Verified
<1>15. CASE MarkEof(e)
  <2>1. Others /\ Same /\ io_pc'[e] = "final_notify" /\ peer_eof'[e] = TRUE
    BY <1>15 DEF MarkEof, IoStep, TypeOK, Untouched
  <2> QED
    BY <1>1, <2>1 DEF Told, Woken, Notified, Verified
<1>16. CASE FinalNotify(e)
  <2>1. /\ Broadcast(e) /\ Others /\ notify_pipe'[e] = TRUE /\ stop_op'[e] = stop_op[e]
        /\ is_being_transferred'[e] = is_being_transferred[e] /\ peer_eof'[e] = peer_eof[e]
        /\ incoming_messages'[e] = incoming_messages[e] /\ hooked'[e] = hooked[e]
        /\ io_pc[e] = "final_notify" /\ io_pc'[e] = "done"
    BY <1>16 DEF FinalNotify, Broadcast, IoStep, TypeOK, Untouched
  <2>2. main_pc'[e] = IF main_pc[e] = "blocked" THEN "woken" ELSE main_pc[e]
    BY <2>1 DEF Broadcast, TypeOK
  <2> QED
    BY <1>1, <2>1, <2>2 DEF Told, Woken, Notified, Verified
<1> QED
  BY <1>3, <1>4, <1>5, <1>6, <1>7, <1>8, <1>9, <1>10, <1>11, <1>12, <1>13, <1>14, <1>15, <1>16
  DEF IoThread

\* The main thread reads what it is told, and tells the IO thread what it has left.
LEMMA ToldMain ==
    ASSUME TypeOK, JoinedFirst, NEW e \in Endpoint, \A x \in Endpoint : Told(x),
           MainContinues(e) \/ MainBegins(e)
    PROVE  \A x \in Endpoint : Told(x)'
<1> DEFINE Others == \A x \in Endpoint : x # e => Untouched(x)
           SameIo == /\ io_pc'[e] = io_pc[e] /\ want_to_write'[e] = want_to_write[e]
                     /\ peer_eof'[e] = peer_eof[e]
           SameQueue == send_bytes'[e] = send_bytes[e] /\ send_fds'[e] = send_fds[e]
           SameState == io_thread_state'[e] = io_thread_state[e]
           SameStop == /\ stop_op'[e] = stop_op[e]
                       /\ is_being_transferred'[e] = is_being_transferred[e]
           SameRead == /\ incoming_messages'[e] = incoming_messages[e] /\ hooked'[e] = hooked[e]
                       /\ saw_shutdown'[e] = saw_shutdown[e]
           SamePipes == wakeup_pipe'[e] = wakeup_pipe[e] /\ notify_pipe'[e] = notify_pipe[e]
<1> SUFFICES Told(e)' /\ Others
  BY ToldStays
<1>1. Told(e)
  OBVIOUS
<1>2. CASE \E size \in PayloadSizes, n \in FdCounts : PostMessage(e, size, n)
  <2>1. /\ Others /\ SameIo /\ SameQueue /\ SameState /\ SameStop /\ SameRead /\ SamePipes
        /\ main_pc[e] = "idle" /\ main_pc'[e] = "enqueue"
    BY <1>2 DEF PostMessage, MainStep, TypeOK, Untouched
  <2> QED
    BY <1>1, <2>1 DEF Told, Woken, Notified, Verified
<1>3. CASE EnqueueMessage(e)
  <2>1. /\ Others /\ SameIo /\ SameState /\ SameStop /\ SameRead /\ SamePipes
        /\ main_pc[e] = "enqueue" /\ main_pc'[e] = "wake"
    BY <1>3 DEF EnqueueMessage, MainStep, TypeOK, Untouched
  <2> QED
    BY <1>1, <2>1 DEF Told, Woken, Notified, Verified
<1>4. CASE WakeIoThread(e)
  <2>1. /\ Others /\ SameIo /\ SameQueue /\ SameState /\ SameStop /\ SameRead
        /\ wakeup_pipe'[e] = TRUE /\ notify_pipe'[e] = notify_pipe[e]
        /\ \/ main_pc[e] = "wake" /\ main_pc'[e] = "idle"
           \/ main_pc[e] = "stop_wake" /\ main_pc'[e] = "join"
    BY <1>4 DEF WakeIoThread, MainStep, TypeOK, Untouched
  <2> QED
    BY <1>1, <2>1 DEF Told, Woken, Notified, Verified
<1>5. CASE SetUpReadHook(e)
  <2>1. /\ Others /\ SameIo /\ SameQueue /\ SameState /\ SameStop
        /\ incoming_messages'[e] = incoming_messages[e] /\ saw_shutdown'[e] = saw_shutdown[e]
        /\ wakeup_pipe'[e] = wakeup_pipe[e] /\ main_pc'[e] = main_pc[e]
        /\ notify_pipe'[e] = (notify_pipe[e] \/ incoming_messages[e] # <<>>)
    BY <1>5 DEF SetUpReadHook, TypeOK, Untouched
  <2> QED
    BY <1>1, <2>1 DEF Told, Woken, Notified, Verified
<1>6. CASE ActivateReadHook(e)
  <2>1. /\ Others /\ SameIo /\ SameQueue /\ SameState /\ SameStop /\ SameRead
        /\ wakeup_pipe'[e] = wakeup_pipe[e] /\ main_pc[e] = "idle" /\ main_pc'[e] = "take"
    BY <1>6 DEF ActivateReadHook, MainStep, TypeOK, Untouched
  <2> QED
    BY <1>1, <2>1 DEF Told, Woken, Notified, Verified
<1>7. CASE TakeMessages(e)
  <2>1. /\ Others /\ SameIo /\ SameQueue /\ SameState /\ SameStop /\ SamePipes
        /\ incoming_messages'[e] = <<>> /\ main_pc[e] = "take" /\ main_pc'[e] = "should_shutdown"
    BY <1>7 DEF TakeMessages, MainStep, TypeOK, Untouched
  <2> QED
    BY <1>1, <2>1 DEF Told, Woken, Notified, Verified
<1>8. CASE ReturnShouldShutdown(e)
  <2>1. /\ Others /\ SameIo /\ SameQueue /\ SameState /\ SameStop /\ SamePipes
        /\ incoming_messages'[e] = incoming_messages[e] /\ hooked'[e] = hooked[e]
        /\ saw_shutdown'[e] = (saw_shutdown[e] \/ peer_eof[e])
        /\ main_pc[e] = "should_shutdown" /\ main_pc'[e] \in {"released", "idle"}
    BY <1>8 DEF ReturnShouldShutdown, MainStep, TypeOK, Untouched
  <2> QED
    BY <1>1, <2>1 DEF Told, Woken, Notified, Verified
<1>9. CASE LockToWait(e)
  <2>1. /\ Others /\ SameIo /\ SameQueue /\ SameState /\ SameStop /\ SameRead /\ SamePipes
        /\ main_pc[e] \in {"idle", "woken"} /\ main_pc'[e] = "wait_locked"
    BY <1>9 DEF LockToWait, MainStep, TypeOK, Untouched
  <2> QED
    BY <1>1, <2>1 DEF Told, Woken, Notified, Verified
<1>10. CASE TestReadable(e)
  <2>1. /\ Others /\ SameIo /\ SameQueue /\ SameState /\ SameStop /\ SameRead /\ SamePipes
        /\ main_pc[e] = "wait_locked"
        /\ \/ main_pc'[e] = "wait_block" /\ incoming_messages[e] = <<>>
           \/ main_pc'[e] = "take"
    BY <1>10 DEF TestReadable, MainStep, TypeOK, Untouched
  <2> QED
    BY <1>1, <2>1 DEF Told, Woken, Notified, Verified
<1>11. CASE BlockOnCondition(e)
  <2>1. /\ Others /\ SameIo /\ SameQueue /\ SameState /\ SameStop /\ SameRead /\ SamePipes
        /\ main_pc[e] = "wait_block" /\ main_pc'[e] = "blocked"
    BY <1>11 DEF BlockOnCondition, MainStep, TypeOK, Untouched
  <2> QED
    BY <1>1, <2>1 DEF Told, Woken, Notified, Verified
<1>12. CASE \E op \in StopOps : BeginStop(e, op)
  <2>1. PICK op \in StopOps : BeginStop(e, op)
    BY <1>12
  <2>2. op # "none"
    BY <2>1, InputAssumption DEF BeginStop, InputAssumption, OpNames
  <2>3. /\ Others /\ SameIo /\ SameQueue /\ SameState /\ SameRead /\ SamePipes
        /\ stop_op'[e] = op /\ is_being_transferred'[e] = (op = "transfer")
        /\ main_pc[e] = "idle" /\ main_pc'[e] = "store"
    BY <2>1 DEF BeginStop, MainStep, TypeOK, Untouched
  <2>4. stop_op[e] # "transfer"
    BY <2>3 DEF JoinedFirst, HandedOver, Stopping
  <2> QED
    BY <1>1, <2>2, <2>3, <2>4 DEF Told, Woken, Notified, Verified
<1>13. CASE StoreDesiredState(e)
  <2>1. /\ Others /\ SameIo /\ SameQueue /\ SameStop /\ SameRead /\ SamePipes
        /\ io_thread_state'[e] =
                IF stop_op[e] = "close" THEN "Stopped" ELSE "SendPendingMessagesAndStop"
        /\ main_pc[e] = "store" /\ main_pc'[e] = "stop_wake"
    BY <1>13 DEF StoreDesiredState, MainStep, TypeOK, Untouched
  <2>2. stop_op[e] \in {"none", "close", "close_after_sending", "transfer"}
    BY DEF TypeOK, StopOps
  <2> QED
    BY <1>1, <2>1, <2>2 DEF Told, Woken, Notified, Verified
<1>14. CASE JoinAndClose(e) \/ JoinAndRelease(e)
  <2>1. /\ Others /\ SameIo /\ SameQueue /\ SameState /\ SameStop /\ SameRead /\ SamePipes
        /\ io_pc[e] = "done" /\ main_pc[e] = "join" /\ main_pc'[e] \in {"idle", "take"}
    BY <1>14 DEF JoinAndClose, JoinAndRelease, MainStep, TypeOK, Untouched
  <2> QED
    BY <1>1, <2>1 DEF Told, Woken, Notified, Verified
<1>15. CASE CreateTransport(e)
  <2>1. /\ Others /\ main_pc[e] = "released" /\ main_pc'[e] = "idle" /\ io_pc'[e] = "peek"
        /\ stop_op'[e] = "none" /\ is_being_transferred'[e] = FALSE /\ hooked'[e] = FALSE
    BY <1>15 DEF CreateTransport, MainStep, TypeOK, Untouched
  <2> QED
    BY <2>1 DEF Told, Woken, Notified, Verified
<1> QED
  BY <1>2, <1>3, <1>4, <1>5, <1>6, <1>7, <1>8, <1>9, <1>10, <1>11, <1>12, <1>13, <1>14, <1>15
  DEF MainContinues, MainBegins

\* Every step keeps the two threads of each end told.
LEMMA ToldAlways == Spec => [](\A e \in Endpoint : Told(e))
<1>1. Init => \A e \in Endpoint : Told(e)
  <2> SUFFICES ASSUME Init, NEW e \in Endpoint PROVE Told(e)
    OBVIOUS
  <2>1. /\ io_pc[e] = "peek" /\ main_pc[e] = "idle" /\ stop_op[e] = "none"
        /\ incoming_messages[e] = <<>> /\ is_being_transferred[e] = FALSE
    BY DEF Init
  <2> QED
    BY <2>1 DEF Told, Woken, Notified, Verified
<1>2. IndInv /\ (\A e \in Endpoint : Told(e)) /\ [Next]_vars => (\A e \in Endpoint : Told(e))'
  <2> SUFFICES ASSUME IndInv, \A e \in Endpoint : Told(e), [Next]_vars
               PROVE  \A x \in Endpoint : Told(x)'
    OBVIOUS
  <2>1. TypeOK /\ JoinedFirst
    BY DEF IndInv
  <2>2. CASE UNCHANGED vars
    <3>1. \A x \in Endpoint : Untouched(x)
      BY <2>2 DEF Untouched
    <3> QED
      BY <3>1, ToldStays
  <2>3. ASSUME NEW e \in Endpoint, IoThread(e) \/ MainContinues(e) \/ MainBegins(e) \/ Crash(e)
        PROVE  \A x \in Endpoint : Told(x)'
    BY <2>1, <2>3, ToldMain, ToldIo
  <2> QED
    BY <2>2, <2>3 DEF Next
<1> QED
  BY <1>1, <1>2, Invariance, PTL DEF Spec

\* wait_until_readable never sleeps over a message, and the read hook misses neither a message nor
\* the end of the IO thread: with m_incoming_mutex held from the test to the wait, the pipe written
\* after the messages are published, and read before they are taken, no order of the steps of the
\* two threads loses a notification.
THEOREM NotificationsArrive == Spec => []NoLostNotification
<1>1. (\A e \in Endpoint : Told(e)) => NoLostNotification
  BY DEF Told, Notified, NoLostNotification
<1> QED
  BY <1>1, ToldAlways, PTL

\* The IO thread never sleeps in poll over a message, an acknowledgement or a stop: it looks at the
\* queue and at the state after it has drained the pipe, and whoever changes them writes to the
\* pipe afterwards.  This is the safety part of EveryMessageArrives and StopReturns.
THEOREM WakeupsArrive == Spec => []NoLostWakeup
<1>1. (\A e \in Endpoint : Told(e)) => NoLostWakeup
  BY DEF Told, Woken, NoLostWakeup
<1> QED
  BY <1>1, ToldAlways, PTL

\* VERIFY(m_io_thread_state == Stopped) at the end of io_thread_loop can fail in one way only:
\* stop_io_thread, asked to send what is pending or to transfer, has overwritten the state since
\* the loop ended, and is still waiting to join the thread.
VerifyFailsWhenOverwritten == \A e \in Endpoint :
    io_pc[e] = "verify" /\ io_thread_state[e] # "Stopped" =>
        /\ stop_op[e] \in {"close_after_sending", "transfer"}
        /\ main_pc[e] \in {"stop_wake", "join"}

\* The IO thread aborts its process in no other case.
THEOREM AbortsOnlyWhenOverwritten == Spec => []VerifyFailsWhenOverwritten
<1>1. (\A e \in Endpoint : Told(e)) => VerifyFailsWhenOverwritten
  BY DEF Told, Verified, VerifyFailsWhenOverwritten
<1> QED
  BY <1>1, ToldAlways, PTL
=============================================================================
