-------------------------- MODULE TransportSocket --------------------------
(***************************************************************************)
(* IPC::TransportSocket (Libraries/LibIPC/TransportSocket.cpp): the two    *)
(* ends of a local stream socket.  Each end has two threads, the main      *)
(* thread that calls the public methods and the IO thread that moves bytes *)
(* and file descriptors between the queues and the socket.  Every action   *)
(* below is a step of one of the four threads; a method that unlocks a     *)
(* mutex, reads an atomic or makes a system call between two accesses to   *)
(* shared state is split there.                                            *)
(*                                                                         *)
(* A byte is <<n, i>>: byte i of the n-th frame its sender ever enqueued,  *)
(* what it says is looked up in frames.  A file descriptor is the number   *)
(* of its attachment among those its sender ever posted.                   *)
(***************************************************************************)
EXTENDS Naturals, Sequences, FiniteSets

CONSTANTS
    Endpoint,             \* the two ends of the socket pair
    HeaderSize,           \* sizeof(MessageHeader)
    ChunkSize,            \* bytes of one peek or one receive (4096)
    SocketBuffer,         \* bytes the kernel holds in one direction
    MaxTransferFds,       \* LocalSocket::MAX_TRANSFER_FDS
    MaxUnprocessedBytes,  \* MAX_UNPROCESSED_BUFFER_SIZE
    MaxUnprocessedFds,    \* MAX_UNPROCESSED_FDS
    MaxPayload,           \* MAX_MESSAGE_PAYLOAD_SIZE
    MaxMessageFds,        \* MAX_MESSAGE_FD_COUNT
    PayloadSizes,         \* sizes of the messages that are posted
    FdCounts,             \* numbers of attachments of the messages posted
    MaxPosts,             \* bound: messages each end posts
    Ops                   \* what else each end may do or suffer

OpNames == {"close", "close_after_sending", "transfer", "wait", "late_hook", "crash",
            "os_error"}

ASSUME EndpointAssumption == \E a, b \in Endpoint : a # b /\ Endpoint = {a, b}
ASSUME SizeAssumption ==
    /\ HeaderSize \in Nat \ {0} /\ ChunkSize \in Nat \ {0}
    /\ SocketBuffer \in Nat \ {0} /\ MaxTransferFds \in Nat \ {0}
    /\ MaxUnprocessedBytes \in Nat /\ MaxUnprocessedFds \in Nat
    /\ MaxPayload \in Nat /\ MaxMessageFds \in Nat
ASSUME InputAssumption ==
    /\ PayloadSizes \subseteq Nat /\ FdCounts \subseteq Nat
    /\ MaxPosts \in [Endpoint -> Nat] /\ Ops \in [Endpoint -> SUBSET OpNames]

VARIABLES
    \* shared between the two threads of an end
    io_thread_state,      \* m_io_thread_state
    is_being_transferred, \* m_is_being_transferred
    peer_eof,             \* m_peer_eof
    send_bytes,           \* SendQueue::m_stream
    send_fds,             \* SendQueue::m_fds
    retained_fds,         \* m_fds_retained_until_received_by_peer
    incoming_messages,    \* m_incoming_messages
    wakeup_pipe,          \* the wakeup pipe holds a byte
    notify_pipe,          \* the read hook's pipe holds a byte
    \* the IO thread
    io_pc, want_to_write, revents,
    unprocessed_bytes,    \* m_unprocessed_bytes
    unprocessed_fds,      \* m_unprocessed_attachments
    batch, received_fd_count, acknowledged_fd_count,
    peeked, written,      \* transfer_data: what was peeked, what has left
    \* the main thread
    main_pc, posting, stop_op, hooked,
    saw_shutdown,         \* read_as_many_... has returned ShouldShutdown::Yes
    posts, fds_posted,
    \* the socket, and the history of the end
    open,                 \* the end's descriptor is open somewhere
    wire,                 \* what the end wrote and its peer has not read
    frames,               \* every frame the end has enqueued
    delivered             \* every message handed to the read callback

control == <<io_thread_state, is_being_transferred, peer_eof>>
queues == <<send_bytes, send_fds, retained_fds, incoming_messages>>
pipes == <<wakeup_pipe, notify_pipe>>
shared == <<control, queues, pipes>>
unprocessed == <<unprocessed_bytes, unprocessed_fds>>
counts == <<received_fd_count, acknowledged_fd_count>>
parser == <<unprocessed, batch, counts>>
polled == <<want_to_write, revents>>
transfer == <<peeked, written>>
ioLocals == <<io_pc, polled, transfer>>
mainRest == <<posting, stop_op, hooked, saw_shutdown, posts, fds_posted>>
mainLocals == <<main_pc, mainRest>>
outside == <<open, wire, frames, delivered>>
vars == <<shared, parser, ioLocals, mainLocals, outside>>

Peer(e) == CHOOSE p \in Endpoint : p # e
Lesser(a, b) == IF a <= b THEN a ELSE b
Drop(s, n) == SubSeq(s, n + 1, Len(s))
Nothing == [bytes |-> 0, fds |-> 0]

IOThreadState == {"Running", "SendPendingMessagesAndStop", "Stopped"}
IOPc == {"peek", "load", "poll", "drain_wakeup", "receive", "parse", "release_acked",
         "acknowledge", "publish", "report_eof", "hangup", "write", "send",
         "verify", "check_transferred", "mark_eof", "final_notify", "done", "dead"}
MainPc == {"idle", "enqueue", "wake", "take", "should_shutdown", "wait_locked",
           "wait_block", "blocked", "woken", "store", "stop_wake", "join", "released",
           "dead"}
StopOps == {"none", "close", "close_after_sending", "transfer"}

Frame == [type : {"Payload", "Acknowledgement"}, payload_size : Nat, fd_count : Nat,
          fds : Seq(Nat)]
NoFrame == [type |-> "Payload", payload_size |-> 0, fd_count |-> 0, fds |-> <<>>]
Bytes(n, f) == [i \in 1..(HeaderSize + f.payload_size) |-> <<n, i>>]

Init ==
    /\ io_thread_state = [e \in Endpoint |-> "Running"]
    /\ is_being_transferred = [e \in Endpoint |-> FALSE]
    /\ peer_eof = [e \in Endpoint |-> FALSE]
    /\ send_bytes = [e \in Endpoint |-> <<>>]
    /\ send_fds = [e \in Endpoint |-> <<>>]
    /\ retained_fds = [e \in Endpoint |-> <<>>]
    /\ incoming_messages = [e \in Endpoint |-> <<>>]
    /\ wakeup_pipe = [e \in Endpoint |-> FALSE]
    /\ notify_pipe = [e \in Endpoint |-> FALSE]
    /\ io_pc = [e \in Endpoint |-> "peek"]
    /\ want_to_write = [e \in Endpoint |-> FALSE]
    /\ revents = [e \in Endpoint |-> {}]
    /\ unprocessed_bytes = [e \in Endpoint |-> <<>>]
    /\ unprocessed_fds = [e \in Endpoint |-> <<>>]
    /\ batch = [e \in Endpoint |-> <<>>]
    /\ received_fd_count = [e \in Endpoint |-> 0]
    /\ acknowledged_fd_count = [e \in Endpoint |-> 0]
    /\ peeked = [e \in Endpoint |-> Nothing]
    /\ written = [e \in Endpoint |-> Nothing]
    /\ main_pc = [e \in Endpoint |-> "idle"]
    /\ posting = [e \in Endpoint |-> NoFrame]
    /\ stop_op = [e \in Endpoint |-> "none"]
    /\ hooked = [e \in Endpoint |-> "late_hook" \notin Ops[e]]
    /\ saw_shutdown = [e \in Endpoint |-> FALSE]
    /\ posts = [e \in Endpoint |-> 0]
    /\ fds_posted = [e \in Endpoint |-> 0]
    /\ open = [e \in Endpoint |-> TRUE]
    /\ wire = [e \in Endpoint |-> <<>>]
    /\ frames = [e \in Endpoint |-> <<>>]
    /\ delivered = [e \in Endpoint |-> <<>>]

IoStep(e, from, to) == io_pc[e] = from /\ io_pc' = [io_pc EXCEPT ![e] = to]
MainStep(e, from, to) == main_pc[e] = from /\ main_pc' = [main_pc EXCEPT ![e] = to]

\* Mistake: a waiting thread is not told.
NoBroadcast(e) == UNCHANGED main_pc
\* m_incoming_cv.broadcast(): the only thread that ever waits is the main thread.
Broadcast(e) == main_pc' = [main_pc EXCEPT ![e] = IF @ = "blocked" THEN "woken" ELSE @]
NoIncomingMutex(e) == TRUE  \* mistake: the mutex is not taken
IncomingMutexIsFree(e) == main_pc[e] \notin {"wait_locked", "wait_block"}

-----------------------------------------------------------------------------
(* The main thread: sending. *)

\* post_message, called only while is_open(): the descriptors are retained first ...
PostMessage(e, size, n) ==
    LET fds == [i \in 1..n |-> fds_posted[e] + i] IN
    /\ MainStep(e, "idle", "enqueue")
    /\ open[e] /\ posts[e] < MaxPosts[e]
    /\ posting' = [posting EXCEPT ![e] = [type |-> "Payload", payload_size |-> size,
                                          fd_count |-> n, fds |-> fds]]
    /\ retained_fds' = [retained_fds EXCEPT ![e] = @ \o fds]
    /\ posts' = [posts EXCEPT ![e] = @ + 1]
    /\ fds_posted' = [fds_posted EXCEPT ![e] = @ + n]
    /\ UNCHANGED <<control, send_bytes, send_fds, incoming_messages, pipes, parser,
                   ioLocals, stop_op, hooked, saw_shutdown, outside>>

\* ... then header, payload and descriptors enter the send queue under its mutex ...
EnqueueMessage(e) ==
    /\ MainStep(e, "enqueue", "wake")
    /\ frames' = [frames EXCEPT ![e] = Append(@, posting[e])]
    /\ send_bytes' = [send_bytes EXCEPT ![e] = @ \o Bytes(Len(frames[e]) + 1, posting[e])]
    /\ send_fds' = [send_fds EXCEPT ![e] = @ \o posting[e].fds]
    /\ posting' = [posting EXCEPT ![e] = NoFrame]
    /\ UNCHANGED <<control, retained_fds, incoming_messages, pipes, parser, ioLocals,
                   stop_op, hooked, saw_shutdown, posts, fds_posted, open, wire,
                   delivered>>

\* Mistake: only posting wakes the IO thread.
WakeToSendOnly(e) ==
    /\ \/ MainStep(e, "stop_wake", "join") /\ UNCHANGED wakeup_pipe
       \/ /\ MainStep(e, "wake", "idle")
          /\ wakeup_pipe' = [wakeup_pipe EXCEPT ![e] = TRUE]
    /\ UNCHANGED <<control, queues, notify_pipe, parser, ioLocals, mainRest, outside>>

\* ... and the IO thread is woken, here and in stop_io_thread.
WakeIoThread(e) ==
    /\ \/ MainStep(e, "wake", "idle")
       \/ MainStep(e, "stop_wake", "join")
    /\ wakeup_pipe' = [wakeup_pipe EXCEPT ![e] = TRUE]
    /\ UNCHANGED <<control, queues, notify_pipe, parser, ioLocals, mainRest, outside>>

-----------------------------------------------------------------------------
(* The main thread: receiving. *)

SetUpReadHook(e) ==
    /\ main_pc[e] = "idle" /\ ~hooked[e]
    /\ hooked' = [hooked EXCEPT ![e] = TRUE]
    /\ notify_pipe' = [notify_pipe EXCEPT ![e] = @ \/ incoming_messages[e] # <<>>]
    /\ UNCHANGED <<control, queues, wakeup_pipe, parser, ioLocals, main_pc, posting,
                   stop_op, saw_shutdown, posts, fds_posted, outside>>

\* The notifier's on_activation empties the pipe and runs the hook, which reads.
ActivateReadHook(e) ==
    /\ MainStep(e, "idle", "take")
    /\ hooked[e] /\ notify_pipe[e]
    /\ notify_pipe' = [notify_pipe EXCEPT ![e] = FALSE]
    /\ UNCHANGED <<control, queues, wakeup_pipe, parser, ioLocals, mainRest, outside>>

\* Mistake: the messages are copied where they should be moved.
CopyMessages(e) ==
    /\ MainStep(e, "take", "should_shutdown")
    /\ delivered' = [delivered EXCEPT ![e] = @ \o incoming_messages[e]]
    /\ UNCHANGED <<shared, parser, ioLocals, mainRest, open, wire, frames>>

\* read_as_many_messages_as_possible_without_blocking: the messages are moved out
\* under m_incoming_mutex and handed to the callback ...
TakeMessages(e) ==
    /\ MainStep(e, "take", "should_shutdown")
    /\ delivered' = [delivered EXCEPT ![e] = @ \o incoming_messages[e]]
    /\ incoming_messages' = [incoming_messages EXCEPT ![e] = <<>>]
    /\ UNCHANGED <<control, send_bytes, send_fds, retained_fds, pipes, parser, ioLocals,
                   mainRest, open, wire, frames>>

\* ... and m_peer_eof is read only afterwards, without the mutex.
ReturnShouldShutdown(e) ==
    /\ MainStep(e, "should_shutdown", IF stop_op[e] = "transfer" THEN "released" ELSE "idle")
    /\ saw_shutdown' = [saw_shutdown EXCEPT ![e] = @ \/ peer_eof[e]]
    /\ UNCHANGED <<shared, parser, ioLocals, posting, stop_op, hooked, posts, fds_posted,
                   outside>>

\* wait_until_readable, followed by the read of its only caller, Connection.
LockToWait(e) ==
    /\ \/ MainStep(e, "idle", "wait_locked") /\ "wait" \in Ops[e] /\ open[e]
       \/ MainStep(e, "woken", "wait_locked")
    /\ UNCHANGED <<shared, parser, ioLocals, mainRest, outside>>

TestReadable(e) ==
    /\ MainStep(e, "wait_locked",
                IF incoming_messages[e] = <<>> /\ io_thread_state[e] = "Running"
                THEN "wait_block" ELSE "take")
    /\ UNCHANGED <<shared, parser, ioLocals, mainRest, outside>>

BlockOnCondition(e) ==
    /\ MainStep(e, "wait_block", "blocked")
    /\ UNCHANGED <<shared, parser, ioLocals, mainRest, outside>>

-----------------------------------------------------------------------------
(* The main thread: stopping.  close, close_after_sending_all_pending_messages *)
(* and release_for_transfer are stop_io_thread with different desired states.  *)

BeginStop(e, op) ==
    /\ MainStep(e, "idle", "store")
    /\ open[e] /\ op \in Ops[e]
    /\ stop_op' = [stop_op EXCEPT ![e] = op]
    /\ is_being_transferred' = [is_being_transferred EXCEPT ![e] = op = "transfer"]
    /\ UNCHANGED <<io_thread_state, peer_eof, queues, pipes, parser, ioLocals, posting,
                   hooked, saw_shutdown, posts, fds_posted, outside>>

StoreDesiredState(e) ==
    /\ MainStep(e, "store", "stop_wake")
    /\ io_thread_state' = [io_thread_state EXCEPT ![e] =
            IF stop_op[e] = "close" THEN "Stopped" ELSE "SendPendingMessagesAndStop"]
    /\ UNCHANGED <<is_being_transferred, peer_eof, queues, pipes, parser, ioLocals,
                   mainRest, outside>>

\* The kernel discards what a closed end has not read.
CloseSocket(e) ==
    /\ open' = [open EXCEPT ![e] = FALSE]
    /\ wire' = [wire EXCEPT ![Peer(e)] = <<>>]

\* Mistake: the socket is closed to make the IO thread notice.
CloseAndJoin(e) ==
    /\ MainStep(e, "join", "idle")
    /\ stop_op[e] # "transfer"
    /\ CloseSocket(e)
    /\ UNCHANGED <<shared, parser, ioLocals, mainRest, frames, delivered>>

JoinAndClose(e) ==
    /\ MainStep(e, "join", "idle")
    /\ io_pc[e] = "done" /\ stop_op[e] # "transfer"
    /\ CloseSocket(e)
    /\ UNCHANGED <<shared, parser, ioLocals, mainRest, frames, delivered>>

\* Mistake: the descriptor is given away while the IO thread still sends.
ReleaseWithoutJoin(e) ==
    /\ MainStep(e, "join", "take")
    /\ stop_op[e] = "transfer"
    /\ UNCHANGED <<shared, parser, ioLocals, mainRest, outside>>

\* MessagePort::transfer_steps reads what has arrived before it lets the transport go.
JoinAndRelease(e) ==
    /\ MainStep(e, "join", "take")
    /\ io_pc[e] = "done" /\ stop_op[e] = "transfer"
    /\ UNCHANGED <<shared, parser, ioLocals, mainRest, outside>>

\* The receiver of the handle makes a new transport around the descriptor.
CreateTransport(e) ==
    /\ MainStep(e, "released", "idle")
    /\ io_thread_state' = [io_thread_state EXCEPT ![e] = "Running"]
    /\ is_being_transferred' = [is_being_transferred EXCEPT ![e] = FALSE]
    /\ peer_eof' = [peer_eof EXCEPT ![e] = FALSE]
    /\ send_bytes' = [send_bytes EXCEPT ![e] = <<>>]
    /\ send_fds' = [send_fds EXCEPT ![e] = <<>>]
    /\ retained_fds' = [retained_fds EXCEPT ![e] = <<>>]
    /\ wakeup_pipe' = [wakeup_pipe EXCEPT ![e] = FALSE]
    /\ notify_pipe' = [notify_pipe EXCEPT ![e] = FALSE]
    /\ unprocessed_bytes' = [unprocessed_bytes EXCEPT ![e] = <<>>]
    /\ unprocessed_fds' = [unprocessed_fds EXCEPT ![e] = <<>>]
    /\ io_pc' = [io_pc EXCEPT ![e] = "peek"]
    /\ stop_op' = [stop_op EXCEPT ![e] = "none"]
    /\ hooked' = [hooked EXCEPT ![e] = FALSE]
    /\ UNCHANGED <<incoming_messages, batch, counts, polled, transfer, posting,
                   saw_shutdown, posts, fds_posted, outside>>

-----------------------------------------------------------------------------
(* The IO thread: the head of io_thread_loop. *)

\* The queue is looked at before the state is loaded.
PeekSendQueue(e) ==
    /\ IoStep(e, "peek", "load")
    /\ want_to_write' = [want_to_write EXCEPT
            ![e] = send_bytes[e] # <<>> \/ send_fds[e] # <<>>]
    /\ revents' = [revents EXCEPT ![e] = {}]
    /\ UNCHANGED <<shared, parser, transfer, mainLocals, outside>>

LoadState(e) ==
    LET stop == \/ io_thread_state[e] = "Stopped"
                \/ io_thread_state[e] = "SendPendingMessagesAndStop" /\ ~want_to_write[e]
    IN
    /\ IoStep(e, "load", IF stop THEN "verify" ELSE "poll")
    /\ io_thread_state' = [io_thread_state EXCEPT ![e] = IF stop THEN "Stopped" ELSE @]
    /\ UNCHANGED <<is_being_transferred, peer_eof, queues, pipes, parser, polled,
                   transfer, mainLocals, outside>>

\* What poll(2) reports of the socket and of the wakeup pipe.
Ready(e) ==
    (IF wire[Peer(e)] # <<>> \/ ~open[Peer(e)] THEN {"IN"} ELSE {}) \cup
    (IF ~open[Peer(e)] THEN {"HUP"} ELSE {}) \cup
    (IF want_to_write[e] /\ (Len(wire[e]) < SocketBuffer \/ ~open[Peer(e)])
        THEN {"OUT"} ELSE {}) \cup
    (IF wakeup_pipe[e] THEN {"WAKE"} ELSE {})

\* Where the thread goes next: each test of the loop body that fails is passed over.
AfterReading(r) ==
    CASE "HUP" \in r -> "hangup" [] "OUT" \in r -> "write" [] OTHER -> "peek"
AfterDraining(r) == IF "IN" \in r THEN "receive" ELSE AfterReading(r)
AfterPublishing(e, eof) == IF eof THEN "report_eof" ELSE AfterReading(revents[e])
AfterAcknowledging(e, eof) ==
    IF batch[e] # <<>> THEN "publish" ELSE AfterPublishing(e, eof)
AfterReleasing(e, eof) ==
    IF received_fd_count[e] > 0 THEN "acknowledge" ELSE AfterAcknowledging(e, eof)
NeverRelease(e, eof) == AfterReleasing(e, eof)  \* mistake: acknowledgements are ignored
AfterParsing(e, eof) ==
    IF acknowledged_fd_count[e] > 0 THEN "release_acked" ELSE AfterReleasing(e, eof)

Poll(e) ==
    /\ IoStep(e, "poll", IF "WAKE" \in Ready(e) THEN "drain_wakeup"
                         ELSE AfterDraining(Ready(e)))
    /\ Ready(e) # {}
    /\ revents' = [revents EXCEPT ![e] = Ready(e)]
    /\ UNCHANGED <<shared, parser, want_to_write, transfer, mainLocals, outside>>

PollFails(e) ==
    /\ IoStep(e, "poll", "verify")
    /\ "os_error" \in Ops[e]
    /\ io_thread_state' = [io_thread_state EXCEPT ![e] = "Stopped"]
    /\ UNCHANGED <<is_being_transferred, peer_eof, queues, pipes, parser, polled,
                   transfer, mainLocals, outside>>

DrainWakeupPipe(e) ==
    /\ IoStep(e, "drain_wakeup", AfterDraining(revents[e]))
    /\ wakeup_pipe' = [wakeup_pipe EXCEPT ![e] = FALSE]
    /\ UNCHANGED <<control, queues, notify_pipe, parser, polled, transfer, mainLocals,
                   outside>>

\* After reading: a hangup or an error on the socket stops the thread.
StopOnHangup(e) ==
    /\ IoStep(e, "hangup", "verify")
    /\ io_thread_state' = [io_thread_state EXCEPT ![e] = "Stopped"]
    /\ UNCHANGED <<is_being_transferred, peer_eof, queues, pipes, parser, polled,
                   transfer, mainLocals, outside>>

-----------------------------------------------------------------------------
(* The IO thread: transfer_data. *)

PeekToSend(e) ==
    LET p == [bytes |-> Lesser(ChunkSize, Len(send_bytes[e])),
              fds |-> Lesser(MaxTransferFds, Len(send_fds[e]))]
    IN
    /\ IoStep(e, "write", IF p = Nothing THEN "peek" ELSE "send")
    /\ peeked' = [peeked EXCEPT ![e] = p]
    /\ revents' = [revents EXCEPT ![e] = {}]
    /\ UNCHANGED <<shared, parser, want_to_write, written, mainLocals, outside>>

Unsent(e) == peeked[e].bytes - written[e].bytes

\* Mistake: every write carries the descriptors again.
ChunkWithFdsAgain(e, n) ==
    [i \in 1..n |-> [byte |-> send_bytes[e][written[e].bytes + i],
                    fds |-> IF i = 1 THEN SubSeq(send_fds[e], 1, peeked[e].fds) ELSE <<>>]]

\* The descriptors ride on the first byte that is written.
Chunk(e, n) ==
    [i \in 1..n |-> [byte |-> send_bytes[e][written[e].bytes + i],
                    fds |-> IF written[e].bytes = 0 /\ i = 1
                            THEN SubSeq(send_fds[e], 1, peeked[e].fds) ELSE <<>>]]

\* Mistake: as many descriptors are taken to have left as there is room for.
SendSomeAndCountTheRoom(e, n) ==
    /\ io_pc[e] = "send" /\ open[Peer(e)]
    /\ n <= Unsent(e) /\ n <= SocketBuffer - Len(wire[e])
    /\ wire' = [wire EXCEPT ![e] = @ \o Chunk(e, n)]
    /\ written' = [written EXCEPT ![e] = [bytes |-> @.bytes + n, fds |-> MaxTransferFds]]
    /\ UNCHANGED <<shared, parser, io_pc, polled, peeked, mainLocals, open, frames,
                   delivered>>

\* One write of the socket.
SendSome(e, n) ==
    /\ io_pc[e] = "send" /\ open[Peer(e)]
    /\ n <= Unsent(e) /\ n <= SocketBuffer - Len(wire[e])
    /\ wire' = [wire EXCEPT ![e] = @ \o Chunk(e, n)]
    /\ written' = [written EXCEPT ![e] = [bytes |-> @.bytes + n, fds |-> peeked[e].fds]]
    /\ UNCHANGED <<shared, parser, io_pc, polled, peeked, mainLocals, open, frames,
                   delivered>>

\* EPIPE, or any other error: TransferState::SocketClosed.
SendFails(e) ==
    /\ IoStep(e, "send", "peek")
    /\ Unsent(e) > 0
    /\ ~open[Peer(e)] \/ "os_error" \in Ops[e]
    /\ io_thread_state' = [io_thread_state EXCEPT ![e] = "Stopped"]
    /\ peeked' = [peeked EXCEPT ![e] = Nothing]
    /\ written' = [written EXCEPT ![e] = Nothing]
    /\ UNCHANGED <<is_being_transferred, peer_eof, queues, pipes, parser, polled,
                   mainLocals, outside>>

\* Mistake: all that was peeked is discarded, sent or not.
DiscardPeeked(e) ==
    /\ IoStep(e, "send", "peek")
    /\ \/ Unsent(e) = 0
       \/ open[Peer(e)] /\ Len(wire[e]) >= SocketBuffer
    /\ send_bytes' = [send_bytes EXCEPT ![e] = Drop(@, peeked[e].bytes)]
    /\ send_fds' = [send_fds EXCEPT ![e] = Drop(@, peeked[e].fds)]
    /\ peeked' = [peeked EXCEPT ![e] = Nothing]
    /\ written' = [written EXCEPT ![e] = Nothing]
    /\ UNCHANGED <<control, retained_fds, incoming_messages, pipes, parser, polled,
                   mainLocals, outside>>

\* Everything peeked has left or the socket would block: discard what has left.
DiscardWritten(e) ==
    /\ IoStep(e, "send", "peek")
    /\ \/ Unsent(e) = 0
       \/ open[Peer(e)] /\ Len(wire[e]) >= SocketBuffer
    /\ send_bytes' = [send_bytes EXCEPT ![e] = Drop(@, written[e].bytes)]
    /\ send_fds' = [send_fds EXCEPT ![e] = Drop(@, written[e].fds)]
    /\ peeked' = [peeked EXCEPT ![e] = Nothing]
    /\ written' = [written EXCEPT ![e] = Nothing]
    /\ UNCHANGED <<control, retained_fds, incoming_messages, pipes, parser, polled,
                   mainLocals, outside>>

-----------------------------------------------------------------------------
(* The IO thread: read_incoming_messages. *)

\* recvmsg(2) does not read past bytes that carry descriptors into others that do.
CarriersIn(w, n) == {i \in 1..n : w[i].fds # <<>>}
FdsIn(w, n) == IF CarriersIn(w, n) = {} THEN <<>>
               ELSE w[CHOOSE i \in CarriersIn(w, n) : TRUE].fds

\* One receive_message.  Past a limit the rest of what was received is dropped.
ReceiveSome(e, n) ==
    LET w == wire[Peer(e)]
        data == [i \in 1..n |-> w[i].byte]
        tooManyBytes == Len(unprocessed_bytes[e]) + n > MaxUnprocessedBytes
        tooManyFds == Len(unprocessed_fds[e]) + Len(FdsIn(w, n)) > MaxUnprocessedFds
        stop == tooManyBytes \/ tooManyFds
    IN
    /\ n <= ChunkSize /\ n <= Len(w) /\ Cardinality(CarriersIn(w, n)) <= 1
    /\ IoStep(e, "receive", IF stop THEN "parse" ELSE "receive")
    /\ wire' = [wire EXCEPT ![Peer(e)] = Drop(@, n)]
    /\ peer_eof' = [peer_eof EXCEPT ![e] = @ \/ stop]
    /\ unprocessed_bytes' = [unprocessed_bytes EXCEPT
            ![e] = IF tooManyBytes THEN @ ELSE @ \o data]
    /\ unprocessed_fds' = [unprocessed_fds EXCEPT
            ![e] = IF stop THEN @ ELSE @ \o FdsIn(w, n)]
    /\ UNCHANGED <<io_thread_state, is_being_transferred, queues, pipes, batch, counts,
                   polled, transfer, mainLocals, open, frames, delivered>>

\* EAGAIN, end of file, or an error.
ReceiveEnds(e) ==
    /\ IoStep(e, "receive", "parse")
    /\ \/ wire[Peer(e)] = <<>> /\ peer_eof' = [peer_eof EXCEPT ![e] = @ \/ ~open[Peer(e)]]
       \/ "os_error" \in Ops[e] /\ peer_eof' = [peer_eof EXCEPT ![e] = TRUE]
    /\ UNCHANGED <<io_thread_state, is_being_transferred, queues, pipes, parser, polled,
                   transfer, mainLocals, outside>>

\* The header at the front.  Bytes from the middle of a frame can say anything.
Garbage == [type : {"Payload", "Acknowledgement", "Unknown"},
            payload_size : PayloadSizes \cup {0}, fd_count : FdCounts \cup {0},
            fds : {<<>>}]
HeadersAt(e) ==
    LET first == unprocessed_bytes[e][1] IN
    IF Len(unprocessed_bytes[e]) < HeaderSize THEN {}
    ELSE IF first[2] = 1 THEN {frames[Peer(e)][first[1]]}
    ELSE Garbage

\* Mistake: the largest message is refused.
RejectedAtLimit(h) ==
    \/ h.type = "Unknown"
    \/ h.type = "Payload" /\ (h.payload_size >= MaxPayload \/ h.fd_count > MaxMessageFds)
    \/ h.type = "Acknowledgement" /\ h.payload_size # 0

Rejected(h) ==
    \/ h.type = "Unknown"
    \/ h.type = "Payload" /\ (h.payload_size > MaxPayload \/ h.fd_count > MaxMessageFds)
    \/ h.type = "Acknowledgement" /\ h.payload_size # 0

Incomplete(e, h) ==
    /\ h.type = "Payload"
    /\ \/ HeaderSize + h.payload_size > Len(unprocessed_bytes[e])
       \/ h.fd_count > Len(unprocessed_fds[e])

ParseMessage(e) ==
    \E h \in HeadersAt(e) :
        /\ io_pc[e] = "parse"
        /\ h.type = "Payload" /\ ~Rejected(h) /\ ~Incomplete(e, h)
        /\ batch' = [batch EXCEPT ![e] = Append(@,
                [bytes |-> SubSeq(unprocessed_bytes[e], HeaderSize + 1,
                                  HeaderSize + h.payload_size),
                 fds |-> SubSeq(unprocessed_fds[e], 1, h.fd_count)])]
        /\ received_fd_count' = [received_fd_count EXCEPT ![e] = @ + h.fd_count]
        /\ unprocessed_fds' = [unprocessed_fds EXCEPT ![e] = Drop(@, h.fd_count)]
        /\ unprocessed_bytes' = [unprocessed_bytes EXCEPT
                ![e] = Drop(@, HeaderSize + h.payload_size)]
        /\ UNCHANGED <<shared, acknowledged_fd_count, ioLocals, mainLocals, outside>>

ParseAcknowledgement(e) ==
    \E h \in HeadersAt(e) :
        /\ io_pc[e] = "parse"
        /\ h.type = "Acknowledgement" /\ ~Rejected(h)
        /\ acknowledged_fd_count' = [acknowledged_fd_count EXCEPT ![e] = @ + h.fd_count]
        /\ unprocessed_bytes' = [unprocessed_bytes EXCEPT ![e] = Drop(@, HeaderSize)]
        /\ UNCHANGED <<shared, unprocessed_fds, batch, received_fd_count, ioLocals,
                       mainLocals, outside>>

\* No header, an incomplete message, or one that breaks the protocol.
ParseEnds(e) ==
    /\ \/ HeadersAt(e) = {} /\ UNCHANGED peer_eof
       \/ \E h \in HeadersAt(e) :
            /\ Rejected(h) \/ Incomplete(e, h)
            /\ peer_eof' = [peer_eof EXCEPT ![e] = @ \/ Rejected(h)]
    /\ IoStep(e, "parse", AfterParsing(e, peer_eof'[e]))
    /\ UNCHANGED <<io_thread_state, is_being_transferred, queues, pipes, parser, polled,
                   transfer, mainLocals, outside>>

\* How many of the retained descriptors are let go of.
ReleaseEverything(e) == Len(retained_fds[e])  \* mistake: all of them
Released(e) == Lesser(acknowledged_fd_count[e], Len(retained_fds[e]))

ReleaseAcknowledgedFds(e) ==
    LET overrun == acknowledged_fd_count[e] > Len(retained_fds[e]) IN
    /\ IoStep(e, "release_acked", AfterReleasing(e, peer_eof[e] \/ overrun))
    /\ retained_fds' = [retained_fds EXCEPT ![e] = Drop(@, Released(e))]
    /\ peer_eof' = [peer_eof EXCEPT ![e] = @ \/ overrun]
    /\ acknowledged_fd_count' = [acknowledged_fd_count EXCEPT ![e] = 0]
    /\ UNCHANGED <<io_thread_state, is_being_transferred, send_bytes, send_fds,
                   incoming_messages, pipes, unprocessed, batch, received_fd_count,
                   polled, transfer, mainLocals, outside>>

\* Mistake: descriptors of messages that are not complete yet are acknowledged with the others.
AcknowledgeAllReceived(e) == [type |-> "Acknowledgement", payload_size |-> 0, fds |-> <<>>,
                              fd_count |-> received_fd_count[e] + Len(unprocessed_fds[e])]
Acknowledgement(e) == [type |-> "Acknowledgement", payload_size |-> 0,
                       fd_count |-> received_fd_count[e], fds |-> <<>>]

AcknowledgeReceivedFds(e) ==
    /\ IoStep(e, "acknowledge", AfterAcknowledging(e, peer_eof[e]))
    /\ frames' = [frames EXCEPT ![e] = Append(@, Acknowledgement(e))]
    /\ send_bytes' = [send_bytes EXCEPT
            ![e] = @ \o Bytes(Len(frames[e]) + 1, Acknowledgement(e))]
    /\ wakeup_pipe' = [wakeup_pipe EXCEPT ![e] = TRUE]
    /\ received_fd_count' = [received_fd_count EXCEPT ![e] = 0]
    /\ UNCHANGED <<control, send_fds, retained_fds, incoming_messages, notify_pipe,
                   unprocessed, batch, acknowledged_fd_count, polled, transfer,
                   mainLocals, open, wire, delivered>>

PublishBatch(e) ==
    /\ IoStep(e, "publish", AfterPublishing(e, peer_eof[e]))
    /\ IncomingMutexIsFree(e)
    /\ incoming_messages' = [incoming_messages EXCEPT ![e] = @ \o batch[e]]
    /\ Broadcast(e)
    /\ notify_pipe' = [notify_pipe EXCEPT ![e] = TRUE]
    /\ batch' = [batch EXCEPT ![e] = <<>>]
    /\ UNCHANGED <<control, send_bytes, send_fds, retained_fds, wakeup_pipe, unprocessed,
                   counts, polled, transfer, mainRest, outside>>

ReportEof(e) ==
    /\ IoStep(e, "report_eof", AfterReading(revents[e]))
    /\ Broadcast(e)
    /\ notify_pipe' = [notify_pipe EXCEPT ![e] = TRUE]
    /\ UNCHANGED <<control, queues, wakeup_pipe, parser, polled, transfer, mainRest,
                   outside>>

-----------------------------------------------------------------------------
(* The IO thread: the end of io_thread_loop, and the end of the process. *)

Die(e) ==
    /\ io_pc' = [io_pc EXCEPT ![e] = "dead"]
    /\ main_pc' = [main_pc EXCEPT ![e] = "dead"]
    /\ CloseSocket(e)
    /\ UNCHANGED <<shared, parser, polled, transfer, mainRest, frames, delivered>>

\* VERIFY(m_io_thread_state == Stopped) passes, or aborts the process.
VerifyStopped(e) ==
    \/ /\ IoStep(e, "verify", "check_transferred")
       /\ io_thread_state[e] = "Stopped"
       /\ UNCHANGED <<shared, parser, polled, transfer, mainLocals, outside>>
    \/ /\ io_pc[e] = "verify" /\ io_thread_state[e] # "Stopped"
       /\ Die(e)

CheckTransferred(e) ==
    /\ IoStep(e, "check_transferred", IF is_being_transferred[e] THEN "done" ELSE "mark_eof")
    /\ UNCHANGED <<shared, parser, polled, transfer, mainLocals, outside>>

MarkEof(e) ==
    /\ IoStep(e, "mark_eof", "final_notify")
    /\ peer_eof' = [peer_eof EXCEPT ![e] = TRUE]
    /\ UNCHANGED <<io_thread_state, is_being_transferred, queues, pipes, parser, polled,
                   transfer, mainLocals, outside>>

\* Mistake: only a waiting thread is told.
FinalBroadcastOnly(e) ==
    /\ IoStep(e, "final_notify", "done")
    /\ Broadcast(e)
    /\ UNCHANGED <<control, queues, pipes, parser, polled, transfer, mainRest, outside>>

FinalNotify(e) ==
    /\ IoStep(e, "final_notify", "done")
    /\ Broadcast(e)
    /\ notify_pipe' = [notify_pipe EXCEPT ![e] = TRUE]
    /\ UNCHANGED <<control, queues, wakeup_pipe, parser, polled, transfer, mainRest,
                   outside>>

Crash(e) == "crash" \in Ops[e] /\ open[e] /\ main_pc[e] # "dead" /\ Die(e)

-----------------------------------------------------------------------------
IoThread(e) ==
    \/ PeekSendQueue(e) \/ LoadState(e) \/ Poll(e) \/ PollFails(e) \/ DrainWakeupPipe(e)
    \/ StopOnHangup(e) \/ PeekToSend(e) \/ SendFails(e) \/ DiscardWritten(e)
    \/ \E n \in 1..ChunkSize : SendSome(e, n) \/ ReceiveSome(e, n)
    \/ ReceiveEnds(e) \/ ParseMessage(e) \/ ParseAcknowledgement(e) \/ ParseEnds(e)
    \/ ReleaseAcknowledgedFds(e) \/ AcknowledgeReceivedFds(e) \/ PublishBatch(e)
    \/ ReportEof(e) \/ VerifyStopped(e) \/ CheckTransferred(e) \/ MarkEof(e)
    \/ FinalNotify(e)

\* What the main thread does once it has begun, and when its event loop runs the hook.
MainContinues(e) ==
    \/ EnqueueMessage(e) \/ WakeIoThread(e) \/ ActivateReadHook(e) \/ TakeMessages(e)
    \/ ReturnShouldShutdown(e) \/ TestReadable(e) \/ BlockOnCondition(e)
    \/ StoreDesiredState(e) \/ JoinAndClose(e) \/ JoinAndRelease(e) \/ CreateTransport(e)
    \/ LockToWait(e) /\ main_pc[e] = "woken"

MainBegins(e) ==
    \/ \E size \in PayloadSizes, n \in FdCounts : PostMessage(e, size, n)
    \/ SetUpReadHook(e)
    \/ LockToWait(e) /\ main_pc[e] = "idle"
    \/ \E op \in StopOps : BeginStop(e, op)

Next == \E e \in Endpoint : IoThread(e) \/ MainContinues(e) \/ MainBegins(e) \/ Crash(e)

\* Both threads are scheduled, the event loop runs, and a transport gets its hook; nobody
\* has to post, wait or stop.
Fairness == \A e \in Endpoint :
    WF_vars(IoThread(e)) /\ WF_vars(MainContinues(e)) /\ WF_vars(SetUpReadHook(e))

Spec == Init /\ [][Next]_vars
FairSpec == Spec /\ Fairness

-----------------------------------------------------------------------------
(* Properties. *)

Message == [bytes : Seq(Nat \X Nat), fds : Seq(Nat)]
Carrier == [byte : Nat \X Nat, fds : Seq(Nat)]
Amount == [bytes : Nat, fds : Nat]

\* The values each variable of TransportSocket, of its threads and of the socket takes.
TypeOK ==
    /\ io_thread_state \in [Endpoint -> IOThreadState]
    /\ is_being_transferred \in [Endpoint -> BOOLEAN]
    /\ peer_eof \in [Endpoint -> BOOLEAN]
    /\ send_bytes \in [Endpoint -> Seq(Nat \X Nat)]
    /\ send_fds \in [Endpoint -> Seq(Nat)]
    /\ retained_fds \in [Endpoint -> Seq(Nat)]
    /\ incoming_messages \in [Endpoint -> Seq(Message)]
    /\ wakeup_pipe \in [Endpoint -> BOOLEAN]
    /\ notify_pipe \in [Endpoint -> BOOLEAN]
    /\ io_pc \in [Endpoint -> IOPc]
    /\ want_to_write \in [Endpoint -> BOOLEAN]
    /\ revents \in [Endpoint -> SUBSET {"IN", "HUP", "OUT", "WAKE"}]
    /\ unprocessed_bytes \in [Endpoint -> Seq(Nat \X Nat)]
    /\ unprocessed_fds \in [Endpoint -> Seq(Nat)]
    /\ batch \in [Endpoint -> Seq(Message)]
    /\ received_fd_count \in [Endpoint -> Nat]
    /\ acknowledged_fd_count \in [Endpoint -> Nat]
    /\ peeked \in [Endpoint -> Amount]
    /\ written \in [Endpoint -> Amount]
    /\ main_pc \in [Endpoint -> MainPc]
    /\ posting \in [Endpoint -> Frame]
    /\ stop_op \in [Endpoint -> StopOps]
    /\ hooked \in [Endpoint -> BOOLEAN]
    /\ saw_shutdown \in [Endpoint -> BOOLEAN]
    /\ posts \in [Endpoint -> Nat]
    /\ fds_posted \in [Endpoint -> Nat]
    /\ open \in [Endpoint -> BOOLEAN]
    /\ wire \in [Endpoint -> Seq(Carrier)]
    /\ frames \in [Endpoint -> Seq(Frame)]
    /\ delivered \in [Endpoint -> Seq(Message)]

\* The messages an end has enqueued, as its peer should get them.
Intended(fs, n) ==
    [bytes |-> [i \in 1..fs[n].payload_size |-> <<n, HeaderSize + i>>], fds |-> fs[n].fds]
MessagesIn(fs) ==
    LET upTo[n \in 0..Len(fs)] ==
            IF n = 0 THEN <<>>
            ELSE IF fs[n].type = "Payload" THEN Append(upTo[n - 1], Intended(fs, n))
            ELSE upTo[n - 1]
    IN  upTo
Sent(e) == MessagesIn(frames[e])[Len(frames[e])]
Parsed(e) == delivered[e] \o incoming_messages[e] \o batch[e]

\* Framing and transfer_data keep the stream whole: what an end has parsed is a prefix of
\* what its peer posted, every message once, in order, with its own bytes and descriptors.
InOrderDelivery == \A e \in Endpoint :
    /\ Len(Parsed(e)) <= Len(Sent(Peer(e)))
    /\ Parsed(e) = SubSeq(Sent(Peer(e)), 1, Len(Parsed(e)))

\* TransportSocket implements the channel that its users rely on.
Channel == INSTANCE MessageChannel WITH
    Message <- Message,
    sent <- [e \in Endpoint |-> Sent(e)],
    received <- delivered
ImplementsChannel == Channel!Spec

\* MUST(m_stream.discard(...)) in SendQueue::discard never fails: although post_message
\* works on the queue between peek and discard, what is discarded is what was peeked.
DiscardFits == \A e \in Endpoint : io_pc[e] = "send" =>
    /\ written[e].bytes <= Len(send_bytes[e])
    /\ written[e].fds <= Len(send_fds[e])

\* "After file descriptor is sent, it is moved to the wait queue until an acknowledgement is
\* received from the peer": a descriptor that the peer has not yet taken out of its
\* unprocessed ones is still held by the sender.
InFlightFds(e) ==
    UNION {{s[i] : i \in 1..Len(s)} : s \in {send_fds[e], unprocessed_fds[Peer(e)]}
            \cup {wire[e][i].fds : i \in 1..Len(wire[e])}}
FdsRetainedUntilReceived == \A e \in Endpoint :
    open[e] /\ open[Peer(e)] =>
        InFlightFds(e) \subseteq {retained_fds[e][i] : i \in 1..Len(retained_fds[e])}

\* "Peer acknowledged more FDs than we sent" is never the peer's fault: acknowledgements
\* never run ahead of the descriptors retained.
NoExcessAcknowledgement == \A e \in Endpoint :
    acknowledged_fd_count[e] <= Len(retained_fds[e])

\* m_peer_eof becomes true only because the peer is gone or because this end is stopping:
\* two ends of this code never disconnect each other by breaking the framing protocol.
EofMeansDisconnected == \A e \in Endpoint :
    peer_eof[e] => ~open[Peer(e)] \/ stop_op[e] # "none"

\* The socket is closed only once the IO thread that uses it has ended.
NoIoOnClosedSocket == \A e \in Endpoint : ~open[e] => io_pc[e] \in {"done", "dead"}

\* Nothing that the IO thread has told the main thread is missed.  While there are messages to
\* read, wait_until_readable does not sleep and the hook, once it is set, is notified or reading;
\* when the IO thread has ended, other than for a transfer, the hook has learnt that it must
\* shut down, or is notified or reading and will.
NoLostNotification == \A e \in Endpoint :
    /\ incoming_messages[e] # <<>> =>
         /\ main_pc[e] # "blocked"
         /\ hooked[e] => notify_pipe[e] \/ main_pc[e] \in {"take", "dead"}
    /\ io_pc[e] = "done" =>
         \/ stop_op[e] = "transfer" \/ saw_shutdown[e]
         \/ notify_pipe[e] \/ main_pc[e] \in {"take", "should_shutdown"}

\* The IO thread does not sleep in poll over something that was sent or stored before: bytes or
\* descriptors in the send queue make it wait for the socket, a state other than Running ends
\* the loop, or else the wakeup pipe has a byte or is about to get it.
NoLostWakeup == \A e \in Endpoint : io_pc[e] = "poll" =>
    /\ send_bytes[e] # <<>> \/ send_fds[e] # <<>> =>
         want_to_write[e] \/ wakeup_pipe[e] \/ main_pc[e] = "wake"
    /\ io_thread_state[e] # "Running" =>
         \/ wakeup_pipe[e] \/ main_pc[e] = "stop_wake"
         \/ io_thread_state[e] = "SendPendingMessagesAndStop" /\ want_to_write[e]

\* Once close_after_sending_all_pending_messages has returned, with the peer still there,
\* nothing that was posted before is left in the send queue.
PendingMessagesSent == \A e \in Endpoint :
    ~open[e] /\ stop_op[e] = "close_after_sending" /\ open[Peer(e)] /\ main_pc[e] # "dead"
        => send_bytes[e] = <<>>

\* Every message that is posted arrives, whatever else is on the way.
EveryMessageArrives == \A e \in Endpoint : \A k \in 1..MaxPosts[e] :
    Len(Sent(e)) >= k ~> Len(delivered[Peer(e)]) >= k

\* Every descriptor that is retained is acknowledged and let go of.
EveryFdIsReleased == \A e \in Endpoint : retained_fds[e] # <<>> ~> retained_fds[e] = <<>>

\* read_hook_is_notified_on_peer_hangup, read_hook_is_notified_when_io_thread_exits_on_close.
HangupReachesHook == \A e \in Endpoint :
    ~open[Peer(e)] \/ ~open[e] ~> saw_shutdown[e] \/ main_pc[e] = "dead"

\* stop_io_thread always gets its thread back: close returns.
StopReturns == \A e \in Endpoint : main_pc[e] = "join" ~> main_pc[e] # "join"
-----------------------------------------------------------------------------
(* The inductive invariant behind TypeOK, DiscardFits and NoIoOnClosedSocket. *)

\* A transport is being handed over from the moment release_for_transfer begins.
Stopping(e) == main_pc[e] \in {"store", "stop_wake", "join"}
HandedOver(e) ==
    \/ main_pc[e] = "released"
    \/ stop_op[e] = "transfer" /\ main_pc[e] \in {"take", "should_shutdown"}

\* A descriptor changes hands or is closed only when the IO thread has been joined.
JoinedFirst == \A e \in Endpoint :
    /\ HandedOver(e) => io_pc[e] = "done" /\ open[e]
    /\ Stopping(e) => open[e]
    /\ stop_op[e] = "transfer" => \/ Stopping(e) \/ HandedOver(e) \/ main_pc[e] = "dead"
    /\ main_pc[e] = "released" => stop_op[e] = "transfer"
    /\ main_pc[e] = "dead" => io_pc[e] = "dead"
    /\ ~open[e] => io_pc[e] \in {"done", "dead"}

\* What the IO thread has peeked stays at the front of the queue until it is discarded.
Peeked(e) ==
    IF io_pc[e] = "send"
    THEN /\ written[e].bytes <= peeked[e].bytes /\ peeked[e].bytes <= Len(send_bytes[e])
         /\ written[e].fds <= peeked[e].fds /\ peeked[e].fds <= Len(send_fds[e])
    ELSE io_pc[e] # "dead" => written[e] = Nothing
PeekedStays == \A e \in Endpoint : Peeked(e)

\* Every byte on its way belongs to a frame its sender has enqueued.
BytesBelong == \A e \in Endpoint :
    /\ \A i \in 1..Len(send_bytes[e]) : send_bytes[e][i][1] \in 1..Len(frames[e])
    /\ \A i \in 1..Len(wire[e]) : wire[e][i].byte[1] \in 1..Len(frames[e])
    /\ \A i \in 1..Len(unprocessed_bytes[e]) :
            unprocessed_bytes[e][i][1] \in 1..Len(frames[Peer(e)])

\* Joined threads, queues that only lose what was sent, and known frames: the inductive
\* invariant of io_thread_loop, stop_io_thread and read_incoming_messages.
IndInv == TypeOK /\ JoinedFirst /\ PeekedStays /\ BytesBelong
=============================================================================
