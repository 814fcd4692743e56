--------------------------- MODULE MessageChannel ---------------------------
(***************************************************************************)
(* What an IPC transport promises the Connection or the MessagePort above  *)
(* it: two ends, and in each direction a lossless first-in first-out       *)
(* channel of messages, each with its own attachments.  TransportSocket    *)
(* implements it (TransportSocket!Channel).                                *)
(***************************************************************************)
EXTENDS Naturals, Sequences

CONSTANTS Endpoint, Message

VARIABLES
    sent,      \* sent[e]: the messages end e has sent, oldest first
    received   \* received[e]: the messages end e has been given, oldest first

Other(e) == CHOOSE p \in Endpoint : p # e

Init == sent = [e \in Endpoint |-> <<>>] /\ received = [e \in Endpoint |-> <<>>]

\* Any message may be sent: the one that is last afterwards.
Send(e) ==
    /\ Len(sent'[e]) > Len(sent[e])
    /\ sent'[e][Len(sent'[e])] \in Message
    /\ sent' = [sent EXCEPT ![e] = Append(@, sent'[e][Len(sent'[e])])]
    /\ UNCHANGED received

\* A reader gets the next few messages at once.
Receive(e, n) ==
    LET next == Len(received[e]) + 1 IN
    /\ next + n - 1 <= Len(sent[Other(e)])
    /\ received' = [received EXCEPT ![e] = @ \o SubSeq(sent[Other(e)], next, next + n - 1)]
    /\ UNCHANGED sent

Next == \E e \in Endpoint :
    \/ Send(e)
    \/ \E n \in 1..Len(sent[Other(e)]) : Receive(e, n)

Spec == Init /\ [][Next]_<<sent, received>>
=============================================================================
