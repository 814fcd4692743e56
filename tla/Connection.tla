----------------------------- MODULE Connection -----------------------------
(***************************************************************************)
(* IPC::ConnectionBase and IPC::Connection (Libraries/LibIPC): two         *)
(* processes, each with one main thread, its event loop and its end of a   *)
(* transport.  The thread runs the read hook and the deferred invocations, *)
(* dispatches messages to handlers, and may block in a synchronous call at *)
(* any point between two events or inside a handler.                       *)
(*                                                                         *)
(* A message is known by its place among those its sender has posted.  The *)
(* transport is the channel that TransportSocket provides, seen from above *)
(* (MessageChannel): it publishes the peer's messages in order, and tells  *)
(* of the peer's end possibly before it has published the last of them.    *)
(***************************************************************************)
EXTENDS Naturals, Sequences

CONSTANTS
    Endpoint,  \* the two processes
    MaxPosts,  \* bound: messages without an answer that each end posts
    MaxCalls,  \* bound: synchronous calls that each end makes
    Ops        \* what else each end may do or suffer

OpNames == {"malformed", "misbehaved", "handler_error", "exit_on_death", "crash"}

ASSUME PeersAssumption == \E a, b \in Endpoint : a # b /\ Endpoint = {a, b}
ASSUME BoundAssumption ==
    /\ MaxPosts \in [Endpoint -> Nat] /\ MaxCalls \in [Endpoint -> Nat]
    /\ Ops \in [Endpoint -> SUBSET OpNames]

VARIABLES
    \* the transport
    sent,         \* sent[e]: all messages e has posted
    leaves,       \* leaves[e]: how many of them get out of e
    arrived,      \* arrived[e]: how many of the peer's messages are in m_incoming_messages
    taken,        \* taken[e]: how many of those the connection has read
    open,         \* is_open
    io,           \* the IO thread: running, has stored m_peer_eof, or is over
    notify_pipe,  \* the read hook's pipe holds a byte
    \* the event loop
    queued,       \* events that were posted
    events,       \* events that process() has taken and not yet run
    \* the connection
    unprocessed,  \* m_unprocessed_messages
    messages,     \* what handle_messages has still to look at
    current,      \* the message whose handler runs, 0 if none
    waiting,      \* the call that waits for its answer, 0 if none
    running,      \* the process is alive
    \* history
    handled,      \* handled[e]: the messages dispatched to e's handlers
    results       \* results[e]: how e's calls ended; answer 0 if they failed

transport == <<sent, leaves, arrived, taken, open, io, notify_pipe>>
loop == <<queued, events>>
vars == <<transport, loop, unprocessed, messages, current, waiting, running, handled, results>>

Peer(e) == CHOOSE p \in Endpoint : p # e
Incoming(e) == sent[Peer(e)]

\* Messages of the peer's endpoint magic are answers; those of the local one go to the stub.
IsRequest(e, i) == Incoming(e)[i].type \in {"post", "call"}
IsAnswer(e, i) == Incoming(e)[i].type = "answer"

Init ==
    /\ sent = [e \in Endpoint |-> <<>>] /\ leaves = [e \in Endpoint |-> 0]
    /\ arrived = [e \in Endpoint |-> 0] /\ taken = [e \in Endpoint |-> 0]
    /\ open = [e \in Endpoint |-> TRUE] /\ io = [e \in Endpoint |-> "running"]
    /\ notify_pipe = [e \in Endpoint |-> FALSE]
    /\ queued = [e \in Endpoint |-> <<>>] /\ events = [e \in Endpoint |-> <<>>]
    /\ unprocessed = [e \in Endpoint |-> <<>>] /\ messages = [e \in Endpoint |-> <<>>]
    /\ current = [e \in Endpoint |-> 0] /\ waiting = [e \in Endpoint |-> 0]
    /\ running = [e \in Endpoint |-> TRUE]
    /\ handled = [e \in Endpoint |-> <<>>] /\ results = [e \in Endpoint |-> <<>>]
-----------------------------------------------------------------------------
(* The transport. *)

\* read_incoming_messages publishes some messages and notifies the hook.
Publish(e) ==
    /\ running[e] /\ open[e] /\ io[e] # "stopped"
    /\ \E n \in (arrived[e] + 1)..leaves[Peer(e)] : arrived' = [arrived EXCEPT ![e] = n]
    /\ notify_pipe' = [notify_pipe EXCEPT ![e] = TRUE]
    /\ UNCHANGED <<sent, leaves, taken, open, io, loop, unprocessed, messages, current,
                   waiting, running, handled, results>>

\* m_peer_eof is stored, perhaps with a batch still to be published; then the thread ends.
ReachEof(e) ==
    /\ running[e] /\ open[e] /\ ~open[Peer(e)]
    /\ \/ io[e] = "running" /\ io' = [io EXCEPT ![e] = "eof"]
       \/ io[e] = "eof" /\ arrived[e] = leaves[Peer(e)] /\ io' = [io EXCEPT ![e] = "stopped"]
    /\ notify_pipe' = [notify_pipe EXCEPT ![e] = TRUE]
    /\ UNCHANGED <<sent, leaves, arrived, taken, open, loop, unprocessed, messages, current,
                   waiting, running, handled, results>>

\* post_message of a connection that is open.
Post(e, message) ==
    /\ sent' = [sent EXCEPT ![e] = Append(@, message)]
    /\ leaves' = [leaves EXCEPT ![e] = @ + 1]

\* What the peer had not yet been sent when an end closes may be lost.
CloseEnd(e) ==
    /\ \E n \in arrived[Peer(e)]..leaves[e] : leaves' = [leaves EXCEPT ![e] = n]
    /\ open' = [open EXCEPT ![e] = FALSE]

\* Transport::close, then die().  The IO thread, if it still runs, notifies the hook once more.
Shutdown(e) ==
    /\ IF open[e] THEN CloseEnd(e) ELSE UNCHANGED <<leaves, open>>
    /\ io' = [io EXCEPT ![e] = "stopped"]
    /\ notify_pipe' = [notify_pipe EXCEPT ![e] = @ \/ io[e] # "stopped"]
    /\ running' = [running EXCEPT ![e] = "exit_on_death" \notin Ops[e]]
-----------------------------------------------------------------------------
(* The event loop. *)

\* Nothing of the connection is on the main thread's stack.
Idle(e) == running[e] /\ messages[e] = <<>> /\ current[e] = 0 /\ waiting[e] = 0

\* EventLoop::pump: the posted events, and a notification if the hook's pipe is readable.
Pump(e) ==
    /\ Idle(e) /\ events[e] = <<>>
    /\ queued[e] # <<>> \/ notify_pipe[e]
    /\ events' = [events EXCEPT ![e] = queued[e] \o IF notify_pipe[e] THEN <<"hook">> ELSE <<>>]
    /\ queued' = [queued EXCEPT ![e] = <<>>]
    /\ UNCHANGED <<transport, unprocessed, messages, current, waiting, running, handled, results>>

\* drain_messages_from_peer: the messages that parse join the unprocessed ones.
Parsed(e) ==
    LET upTo[n \in taken[e]..arrived[e]] ==
            IF n = taken[e] THEN <<>>
            ELSE IF Incoming(e)[n].type = "malformed" THEN upTo[n - 1]
            ELSE Append(upTo[n - 1], n)
    IN  upTo[arrived[e]]
ShouldShutdown(e) == io[e] # "running" \/ \E i \in (taken[e] + 1)..arrived[e] :
                                              Incoming(e)[i].type = "malformed"

\* Mistake: the messages are read and stay where they are.
DrainByCopy(e) ==
    /\ queued' = [queued EXCEPT ![e] = @
           \o (IF unprocessed[e] \o Parsed(e) # <<>> THEN <<"handle">> ELSE <<>>)
           \o (IF ShouldShutdown(e) THEN <<"shutdown">> ELSE <<>>)]
    /\ UNCHANGED taken

Drain(e) ==
    /\ taken' = [taken EXCEPT ![e] = arrived[e]]
    /\ queued' = [queued EXCEPT ![e] = @
           \o (IF unprocessed[e] \o Parsed(e) # <<>> THEN <<"handle">> ELSE <<>>)
           \o (IF ShouldShutdown(e) THEN <<"shutdown">> ELSE <<>>)]

\* Mistake: the hook of a closed connection does nothing.
RunHookIfOpen(e) ==
    /\ Idle(e) /\ events[e] # <<>> /\ Head(events[e]) = "hook"
    /\ events' = [events EXCEPT ![e] = Tail(@)]
    /\ notify_pipe' = [notify_pipe EXCEPT ![e] = FALSE]
    /\ \/ ~open[e] /\ UNCHANGED <<taken, queued, messages, unprocessed>>
       \/ /\ open[e]
          /\ Drain(e)
          /\ messages' = [messages EXCEPT ![e] = unprocessed[e] \o Parsed(e)]
          /\ unprocessed' = [unprocessed EXCEPT ![e] = <<>>]
    /\ UNCHANGED <<sent, leaves, arrived, open, io, current, waiting, running, handled, results>>

\* The hook empties its pipe, drains and dispatches.
RunHook(e) ==
    /\ Idle(e) /\ events[e] # <<>> /\ Head(events[e]) = "hook"
    /\ events' = [events EXCEPT ![e] = Tail(@)]
    /\ notify_pipe' = [notify_pipe EXCEPT ![e] = FALSE]
    /\ Drain(e)
    /\ messages' = [messages EXCEPT ![e] = unprocessed[e] \o Parsed(e)]
    /\ unprocessed' = [unprocessed EXCEPT ![e] = <<>>]
    /\ UNCHANGED <<sent, leaves, arrived, open, io, current, waiting, running, handled, results>>

\* A deferred handle_messages moves all the unprocessed messages out.
RunHandleMessages(e) ==
    /\ Idle(e) /\ events[e] # <<>> /\ Head(events[e]) = "handle"
    /\ events' = [events EXCEPT ![e] = Tail(@)]
    /\ messages' = [messages EXCEPT ![e] = unprocessed[e]]
    /\ unprocessed' = [unprocessed EXCEPT ![e] = <<>>]
    /\ UNCHANGED <<transport, queued, current, waiting, running, handled, results>>

RunShutdown(e) ==
    /\ Idle(e) /\ events[e] # <<>> /\ Head(events[e]) = "shutdown"
    /\ events' = [events EXCEPT ![e] = Tail(@)]
    /\ Shutdown(e)
    /\ UNCHANGED <<sent, arrived, taken, queued, unprocessed, messages, current, waiting,
                   handled, results>>
-----------------------------------------------------------------------------
(* handle_messages. *)

InHandler(e) == running[e] /\ current[e] # 0 /\ waiting[e] = 0

\* The next message: an answer nobody waits for is skipped, a request is dispatched.
HandleNext(e) ==
    /\ running[e] /\ messages[e] # <<>> /\ current[e] = 0 /\ waiting[e] = 0
    /\ messages' = [messages EXCEPT ![e] = Tail(@)]
    /\ LET i == Head(messages[e]) IN
       \/ IsAnswer(e, i) /\ UNCHANGED <<current, handled>>
       \/ /\ IsRequest(e, i)
          /\ current' = [current EXCEPT ![e] = i]
          /\ handled' = [handled EXCEPT ![e] = Append(@, i)]
    /\ UNCHANGED <<transport, loop, unprocessed, waiting, running, results>>

\* The handler returns; a call is answered if the connection is still open.
HandlerReturns(e) ==
    /\ InHandler(e)
    /\ IF open[e] /\ Incoming(e)[current[e]].type = "call"
       THEN Post(e, [type |-> "answer", of |-> current[e]])
       ELSE UNCHANGED <<sent, leaves>>
    /\ current' = [current EXCEPT ![e] = 0]
    /\ UNCHANGED <<arrived, taken, open, io, notify_pipe, loop, unprocessed, messages, waiting,
                   running, handled, results>>

\* It returns an error: there is no answer.
HandlerFails(e) ==
    /\ InHandler(e) /\ "handler_error" \in Ops[e]
    /\ current' = [current EXCEPT ![e] = 0]
    /\ UNCHANGED <<transport, loop, unprocessed, messages, waiting, running, handled, results>>

\* ConnectionFromClient::did_misbehave, in a handler.
DidMisbehave(e) ==
    /\ InHandler(e) /\ "misbehaved" \in Ops[e] /\ open[e]
    /\ Shutdown(e)
    /\ UNCHANGED <<sent, arrived, taken, loop, unprocessed, messages, current, waiting, handled,
                   results>>
-----------------------------------------------------------------------------
(* Sending. *)

\* The main thread runs code of the application: between two events, or in a handler.
InApplication(e) == Idle(e) \/ InHandler(e)
Count(e, type) == Len(SelectSeq(sent[e], LAMBDA m : m.type = type))

PostMessage(e) ==
    /\ InApplication(e) /\ open[e] /\ Count(e, "post") + Count(e, "malformed") < MaxPosts[e]
    /\ \/ Post(e, [type |-> "post", of |-> 0])
       \/ "malformed" \in Ops[e] /\ Post(e, [type |-> "malformed", of |-> 0])
    /\ UNCHANGED <<arrived, taken, open, io, notify_pipe, loop, unprocessed, messages, current,
                   waiting, running, handled, results>>

\* send_sync_but_allow_failure: the request is posted, then wait_for_specific_endpoint_message.
SendSync(e) ==
    /\ InApplication(e) /\ open[e] /\ Count(e, "call") < MaxCalls[e]
    /\ Post(e, [type |-> "call", of |-> 0])
    /\ waiting' = [waiting EXCEPT ![e] = Len(sent[e]) + 1]
    /\ UNCHANGED <<arrived, taken, open, io, notify_pipe, loop, unprocessed, messages, current,
                   running, handled, results>>

\* The call that was waiting ends.
Return(e, answer) ==
    /\ results' = [results EXCEPT ![e] = Append(@, [call |-> waiting[e], answer |-> answer])]
    /\ waiting' = [waiting EXCEPT ![e] = 0]

Answers(e) == {k \in 1..Len(unprocessed[e]) : IsAnswer(e, unprocessed[e][k])}
Without(s, k) == SubSeq(s, 1, k - 1) \o SubSeq(s, k + 1, Len(s))

\* Mistake: the answer is left among the unprocessed messages.
PeekAnswer(e) ==
    /\ running[e] /\ waiting[e] # 0
    /\ \E k \in Answers(e) :
        /\ \A j \in Answers(e) : k <= j
        /\ Return(e, unprocessed[e][k])
    /\ UNCHANGED <<transport, loop, unprocessed, messages, current, running, handled>>

\* The first answer among the unprocessed messages is the one.
TakeAnswer(e) ==
    /\ running[e] /\ waiting[e] # 0
    /\ \E k \in Answers(e) :
        /\ \A j \in Answers(e) : k <= j
        /\ unprocessed' = [unprocessed EXCEPT ![e] = Without(@, k)]
        /\ Return(e, unprocessed[e][k])
    /\ UNCHANGED <<transport, loop, messages, current, running, handled>>

\* wait_until_readable has something to return for.
Readable(e) ==
    /\ running[e] /\ waiting[e] # 0 /\ Answers(e) = {}
    /\ arrived[e] > taken[e] \/ io[e] = "stopped"

\* Mistake: what was read is dispatched while the call waits.
WaitAndDispatch(e) ==
    /\ Readable(e) /\ ~ShouldShutdown(e)
    /\ Drain(e)
    /\ LET read == unprocessed[e] \o Parsed(e) IN
       /\ handled' = [handled EXCEPT ![e] = @ \o SelectSeq(read, LAMBDA i : IsRequest(e, i))]
       /\ unprocessed' = [unprocessed EXCEPT ![e] = SelectSeq(read, LAMBDA i : IsAnswer(e, i))]
    /\ UNCHANGED <<sent, leaves, arrived, open, io, notify_pipe, events, messages, current,
                   waiting, running, results>>

\* It drains and looks again.
WaitAndDrain(e) ==
    /\ Readable(e) /\ ~ShouldShutdown(e)
    /\ Drain(e)
    /\ unprocessed' = [unprocessed EXCEPT ![e] = @ \o Parsed(e)]
    /\ UNCHANGED <<sent, leaves, arrived, open, io, notify_pipe, events, messages, current,
                   waiting, running, handled, results>>

\* Mistake: only a connection that is closed ends the wait.
WaitUntilClosed(e) ==
    /\ Readable(e) /\ ShouldShutdown(e) /\ ~open[e]
    /\ Return(e, 0)
    /\ UNCHANGED <<transport, loop, unprocessed, messages, current, running, handled>>

\* The peer is gone: the call fails and the connection shuts down, without dispatching.
WaitUntilEof(e) ==
    /\ Readable(e) /\ ShouldShutdown(e)
    /\ Drain(e)
    /\ unprocessed' = [unprocessed EXCEPT ![e] = @ \o Parsed(e)]
    /\ Shutdown(e)
    /\ Return(e, 0)
    /\ UNCHANGED <<sent, arrived, events, messages, current, handled>>

\* A call that is made after the connection was closed fails at once.
SendSyncWhenClosed(e) ==
    /\ InApplication(e) /\ ~open[e] /\ Len(results[e]) < MaxCalls[e]
    /\ results' = [results EXCEPT ![e] = Append(@, [call |-> 0, answer |-> 0])]
    /\ UNCHANGED <<transport, loop, unprocessed, messages, current, waiting, running, handled>>
-----------------------------------------------------------------------------
Crash(e) ==
    /\ running[e] /\ "crash" \in Ops[e]
    /\ running' = [running EXCEPT ![e] = FALSE]
    /\ IF open[e] THEN CloseEnd(e) ELSE UNCHANGED <<leaves, open>>
    /\ UNCHANGED <<sent, arrived, taken, io, notify_pipe, loop, unprocessed, messages, current,
                   waiting, handled, results>>

Transport(e) == Publish(e) \/ ReachEof(e)

MainThread(e) ==
    \/ Pump(e) \/ RunHook(e) \/ RunHandleMessages(e) \/ RunShutdown(e)
    \/ HandleNext(e) \/ HandlerReturns(e)
    \/ TakeAnswer(e) \/ WaitAndDrain(e) \/ WaitUntilEof(e)

Application(e) ==
    \/ HandlerFails(e) \/ DidMisbehave(e)
    \/ PostMessage(e) \/ SendSync(e) \/ SendSyncWhenClosed(e)

Next == \E e \in Endpoint : Transport(e) \/ MainThread(e) \/ Application(e) \/ Crash(e)

Spec == Init /\ [][Next]_vars

\* The IO threads run, and the main threads return to what they have to do.
FairSpec == Spec /\ \A e \in Endpoint : WF_vars(Transport(e)) /\ WF_vars(MainThread(e))
-----------------------------------------------------------------------------
Message == [type : {"post", "call", "answer", "malformed"}, of : Nat]

TypeOK ==
    /\ sent \in [Endpoint -> Seq(Message)]
    /\ leaves \in [Endpoint -> Nat] /\ arrived \in [Endpoint -> Nat] /\ taken \in [Endpoint -> Nat]
    /\ open \in [Endpoint -> BOOLEAN] /\ running \in [Endpoint -> BOOLEAN]
    /\ notify_pipe \in [Endpoint -> BOOLEAN]
    /\ io \in [Endpoint -> {"running", "eof", "stopped"}]
    /\ queued \in [Endpoint -> Seq({"handle", "shutdown"})]
    /\ events \in [Endpoint -> Seq({"hook", "handle", "shutdown"})]
    /\ unprocessed \in [Endpoint -> Seq(Nat)] /\ messages \in [Endpoint -> Seq(Nat)]
    /\ handled \in [Endpoint -> Seq(Nat)]
    /\ current \in [Endpoint -> Nat] /\ waiting \in [Endpoint -> Nat]
    /\ results \in [Endpoint -> Seq([call : Nat, answer : Nat])]
    /\ \A e \in Endpoint :
        /\ leaves[e] <= Len(sent[e])
        /\ arrived[e] <= leaves[Peer(e)] /\ taken[e] <= arrived[e]
        /\ unprocessed[e] \in Seq(1..taken[e]) /\ messages[e] \in Seq(1..taken[e])
        /\ handled[e] \in Seq(1..taken[e]) /\ current[e] <= taken[e]
        /\ waiting[e] <= Len(sent[e])
        /\ results[e] \in Seq([call : 0..Len(sent[e]), answer : 0..taken[e]])

\* Every request that was read is dispatched exactly once and in the order in which the peer
\* posted it, however often the thread was blocked in calls of its own in between.
DispatchedInOrder == \A e \in Endpoint :
    LET line == handled[e] \o messages[e] \o unprocessed[e] IN
    /\ \A j, k \in 1..Len(line) : j < k => line[j] < line[k]
    /\ \A i \in 1..taken[e] : IsRequest(e, i) => \E k \in 1..Len(line) : line[k] = i

\* A call that succeeds has got the answer to itself, although answers are told apart by
\* their type only.
AnswerIsToThisCall == \A e \in Endpoint : \A k \in 1..Len(results[e]) :
    LET r == results[e][k] IN r.answer # 0 => Incoming(e)[r.answer].of = r.call

\* Every call returns, with an answer or because the peer is gone, unless the peer's handler
\* fails or the two ends are for ever in calls to each other.
EveryCallEnds == \A e \in Endpoint : "handler_error" \notin Ops[Peer(e)] =>
    (waiting[e] # 0 ~> \/ waiting[e] = 0 \/ ~running[e]
                       \/ [](waiting[e] # 0 /\ waiting[Peer(e)] # 0))

\* Every request that arrives is dispatched unless its receiver dies or is for ever in a call,
\* even if it was read on behalf of a call.
EveryRequestIsDispatched == \A e \in Endpoint :
    \A i \in 1..(MaxPosts[Peer(e)] + MaxCalls[Peer(e)] + MaxCalls[e]) :
        (i <= arrived[e] /\ IsRequest(e, i))
            ~> \/ \E k \in 1..Len(handled[e]) : handled[e][k] = i
               \/ ~running[e] \/ [](waiting[e] # 0)
=============================================================================
