------------------------ MODULE TransportStreamProofs ------------------------
(***************************************************************************)
(* Proofs about what goes through a TransportSocket: every message arrives *)
(* whole and in order, with its own descriptors, and descriptors are       *)
(* retained until they have arrived.                                       *)
(***************************************************************************)
EXTENDS TransportSocketProofs, LeastNumber, FiniteSetTheorems

-----------------------------------------------------------------------------
(* Sums over sequences of numbers, and runs of consecutive numbers.        *)

\* Totals(z)[n] is the sum of the first n elements of z.
Totals(z) ==
    LET f[n \in 0..Len(z)] == IF n = 0 THEN 0 ELSE f[n - 1] + z[n]
    IN  f

\* The n numbers after a.
From(a, n) == [i \in 1..n |-> a + i]

-----------------------------------------------------------------------------
(* The stream that frames make: their bytes and descriptors.               *)

FrameSizes(fs) == [n \in 1..Len(fs) |-> HeaderSize + fs[n].payload_size]
FrameFds(fs) == [n \in 1..Len(fs) |-> Len(fs[n].fds)]
FrameAcks(fs) == [n \in 1..Len(fs) |->
                     IF fs[n].type = "Acknowledgement" THEN fs[n].fd_count ELSE 0]
WireFds(w) == [i \in 1..Len(w) |-> Len(w[i].fds)]

\* Bytes, descriptors and acknowledged descriptors in the first n frames.
BytesUpTo(fs, n) == Totals(FrameSizes(fs))[n]
FdsUpTo(fs, n) == Totals(FrameFds(fs))[n]
AcksUpTo(fs, n) == Totals(FrameAcks(fs))[n]

\* b is byte x of the stream.
IsByte(fs, b, x) ==
    /\ b[1] \in 1..Len(fs) /\ b[2] \in 1..(HeaderSize + fs[b[1]].payload_size)
    /\ x = BytesUpTo(fs, b[1] - 1) + b[2]

\* Descriptors are numbered as they are posted.
FrameFits(fs, n) ==
    IF fs[n].type = "Payload"
    THEN /\ fs[n].fds = From(FdsUpTo(fs, n - 1), fs[n].fd_count)
         /\ fs[n].payload_size \in PayloadSizes /\ fs[n].fd_count \in FdCounts
    ELSE fs[n].fds = <<>> /\ fs[n].payload_size = 0

\* After k frames come the bytes that were received and not parsed, then those on the wire ...
BytesFlow(fs, k, received, w) ==
    /\ \A i \in 1..Len(received) : IsByte(fs, received[i], BytesUpTo(fs, k) + i)
    /\ \A i \in 1..Len(w) : IsByte(fs, w[i].byte, BytesUpTo(fs, k) + Len(received) + i)
\* ... then those of the queue of which m have been written, up to the end of the stream.
BytesLinked(fs, k, received, w, queue, m) ==
    LET gone == BytesUpTo(fs, k) + Len(received) + Len(w) IN
    /\ \A i \in 1..(Len(queue) - m) : IsByte(fs, queue[m + i], gone + i)
    /\ BytesUpTo(fs, Len(fs)) = gone + (Len(queue) - m)

\* So do the descriptors.
FdsFlow(fs, k, received, w) ==
    /\ received = From(FdsUpTo(fs, k), Len(received))
    /\ \A i \in 1..Len(w) : w[i].fds =
            From(FdsUpTo(fs, k) + Len(received) + Totals(WireFds(w))[i - 1], Len(w[i].fds))
    /\ FdsUpTo(fs, k) + Len(received) + Totals(WireFds(w))[Len(w)] <= FdsUpTo(fs, Len(fs))
FdsLinked(fs, k, received, w, queue, m) ==
    LET gone == FdsUpTo(fs, k) + Len(received) + Totals(WireFds(w))[Len(w)] IN
    /\ \A i \in 1..(Len(queue) - m) : queue[m + i] = gone + i
    /\ FdsUpTo(fs, Len(fs)) = gone + (Len(queue) - m)
-----------------------------------------------------------------------------
(* The invariant of the two streams.                                       *)

PostingFits(e) ==
    LET all == FdsUpTo(frames[e], Len(frames[e]))
        f == posting[e]
    IN
    /\ f.type = "Payload" /\ f.fds = From(all, f.fd_count)
    /\ fds_posted[e] = all + f.fd_count
    /\ main_pc[e] \notin {"enqueue", "dead"} => f = NoFrame
    /\ main_pc[e] = "enqueue" => f.payload_size \in PayloadSizes /\ f.fd_count \in FdCounts

\* How many descriptors e has let go of.
LetGo(e) == fds_posted[e] - Len(retained_fds[e])

RetainedFits(e) ==
    /\ Len(retained_fds[e]) <= fds_posted[e]
    /\ retained_fds[e] = From(LetGo(e), Len(retained_fds[e]))
    /\ open[Peer(e)] => \A i \in 1..Len(send_fds[e]) :
            LetGo(e) < send_fds[e][i] /\ send_fds[e][i] <= fds_posted[e]

\* The descriptors that were peeked leave with the first byte.
FdsRide(e) == io_pc[e] = "send" =>
    written[e].fds = IF written[e].bytes = 0 THEN 0 ELSE peeked[e].fds

\* The IO thread of e will not write any more: it is leaving its loop, or one of its writes
\* has failed.
Ending == {"verify", "check_transferred", "mark_eof", "final_notify", "done", "dead"}
Ended(e) ==
    \/ io_pc[e] \in Ending
    \/ /\ io_pc[e] \in {"peek", "load"} /\ io_thread_state[e] = "Stopped"
       /\ "os_error" \in Ops[e]

StopFits(e) ==
    /\ stop_op[e] # "none" => stop_op[e] \in Ops[e]
    /\ Stopping(e) => stop_op[e] # "none"

\* What is on its way from e to p, of whose frames p has parsed k ...
Flows(e, p, k) ==
    /\ BytesFlow(frames[e], k, unprocessed_bytes[p], wire[e])
    /\ FdsFlow(frames[e], k, unprocessed_fds[p], wire[e])
Links(e, p, k) ==
    /\ BytesLinked(frames[e], k, unprocessed_bytes[p], wire[e], send_bytes[e], written[e].bytes)
    /\ FdsLinked(frames[e], k, unprocessed_fds[p], wire[e], send_fds[e], written[e].fds)
\* ... and what p has made of them: it has their messages, has acknowledged their descriptors
\* or will, and has released what they acknowledge or will.
ParsedFits(e, p, k) ==
    /\ Parsed(p) = MessagesIn(frames[e])[k]
    /\ FdsUpTo(frames[e], k) = AcksUpTo(frames[p], Len(frames[p])) + received_fd_count[p]
    /\ AcksUpTo(frames[e], k) = LetGo(p) + acknowledged_fd_count[p]

Stream(e, k) ==
    /\ Flows(e, Peer(e), k) /\ ParsedFits(e, Peer(e), k)
    /\ Links(e, Peer(e), k) \/ Ended(e) \/ ~open[Peer(e)]

EndFits(e) ==
    /\ \A n \in 1..Len(frames[e]) : FrameFits(frames[e], n)
    /\ PostingFits(e) /\ RetainedFits(e) /\ FdsRide(e) /\ StopFits(e)

\* In both directions the frames that were enqueued are, byte for byte and descriptor for
\* descriptor, the ones that read_incoming_messages has parsed, then those that were received, that
\* are on the wire and that wait in the send queue, whichever step of transfer_data,
\* read_incoming_messages or send_acknowledgement each thread is at; descriptors are retained, and
\* acknowledgements counted, to match.
StreamInv == \A e \in Endpoint : EndFits(e) /\ \E k \in 0..Len(frames[e]) : Stream(e, k)

\* No receive that is possible now makes read_incoming_messages go over its limit of unprocessed
\* bytes or descriptors, where it would drop what it has just received.
WithinLimits == \A e \in Endpoint, n \in 1..ChunkSize :
    LET w == wire[Peer(e)] IN
    n <= Len(w) /\ Cardinality(CarriersIn(w, n)) <= 1 =>
        /\ Len(unprocessed_bytes[e]) + n <= MaxUnprocessedBytes
        /\ Len(unprocessed_fds[e]) + Len(FdsIn(w, n)) <= MaxUnprocessedFds

\* Nothing is transferred, and no end goes on sending after one of its writes has failed.
Unbroken == \A e \in Endpoint :
    "transfer" \notin Ops[e] /\ ~({"os_error", "close_after_sending"} \subseteq Ops[e])
-----------------------------------------------------------------------------
(* Sums.                                                                   *)

\* The recursion that defines Totals has a solution.
LEMMA TotalsProperties ==
    ASSUME NEW z \in Seq(Nat)
    PROVE  /\ Totals(z) \in [0..Len(z) -> Nat] /\ Totals(z)[0] = 0
           /\ \A n \in 1..Len(z) : Totals(z)[n] = Totals(z)[n - 1] + z[n]
<1> DEFINE b == Len(z)
           Body(f, n) == IF n = 0 THEN 0 ELSE f[n - 1] + z[n]
           Rec(f, c) == f = [n \in 0..c |-> Body(f, n)]
<1>1. b \in Nat /\ \A n \in 1..b : z[n] \in Nat
  BY ElementOfSeq
<1>2. Totals(z) = CHOOSE f : Rec(f, b)
  BY DEF Totals
<1> HIDE DEF b, Body
<1>3. \A c \in 0..b : \E f : Rec(f, c)
  <2> DEFINE T == {c \in 0..b : ~\E f : Rec(f, c)}
  <2> SUFFICES ASSUME T # {} PROVE FALSE
    OBVIOUS
  <2>1. PICK c \in T : \A k \in T : c <= k
    <3>1. T \subseteq Nat
      BY <1>1
    <3> HIDE DEF T
    <3> QED
      BY <3>1, LeastElement
  <2>2. CASE c = 0
    <3>1. Rec([n \in 0..c |-> 0], c)
      BY <1>1, <2>2 DEF Body
    <3> QED
      BY <3>1
  <2>3. CASE c # 0
    <3>1. c - 1 \in 0..b /\ ~(c <= c - 1)
      BY <1>1, <2>3
    <3>2. PICK f : Rec(f, c - 1)
      BY <2>1, <3>1
    <3> DEFINE g == [n \in 0..c |-> Body(f, n)]
    <3>3. \A n \in 0..(c - 1) : f[n] = Body(f, n) /\ n \in 0..c
      <4>1. \A n \in 0..(c - 1) : f[n] = Body(f, n)
        BY <3>2
      <4>2. \A n \in 0..(c - 1) : n \in 0..c
        BY <1>1, <3>1
      <4> QED
        BY <4>1, <4>2
    <3>4. \A n \in 0..c : n # 0 => n - 1 \in 0..(c - 1)
      BY <1>1
    <3>5. Rec(g, c)
      <4>1. \A n \in 0..c : g[n] = Body(f, n)
        OBVIOUS
      <4>2. \A n \in 0..c : n # 0 => f[n - 1] = g[n - 1]
        BY <3>3, <3>4, <4>1
      <4> HIDE DEF g
      <4>3. \A n \in 0..c : Body(f, n) = Body(g, n)
        BY <4>2 DEF Body
      <4> QED
        BY <4>3 DEF g
    <3> QED
      BY <3>5
  <2> QED
    BY <2>2, <2>3
<1> DEFINE F == CHOOSE f : Rec(f, b)
<1>4. Rec(F, b)
  <2> HIDE DEF Rec
  <2>1. \E f : Rec(f, b)
    BY <1>1, <1>3
  <2> QED
    BY <2>1
<1> HIDE DEF F
<1>5. F = [n \in 0..b |-> F[n]] /\ F[0] = 0 /\ \A n \in 1..b : F[n] = F[n - 1] + z[n]
  <2>1. \A n \in 0..b : F[n] = Body(F, n)
    BY <1>4
  <2>2. 0 \in 0..b /\ \A n \in 1..b : n \in 0..b /\ n # 0
    BY <1>1
  <2>3. F[0] = 0 /\ \A n \in 1..b : F[n] = F[n - 1] + z[n]
    BY <2>1, <2>2 DEF Body
  <2> QED
    BY <1>4, <2>3
<1> HIDE DEF Rec
<1>6. \A n \in 0..b : F[n] \in Nat
  <2> DEFINE T == {n \in 0..b : F[n] \notin Nat}
  <2> SUFFICES ASSUME T # {} PROVE FALSE
    OBVIOUS
  <2>1. PICK n \in T : \A k \in T : n <= k
    <3>1. T \subseteq Nat
      BY <1>1
    <3> HIDE DEF T
    <3> QED
      BY <3>1, LeastElement
  <2>2. n # 0
    BY <1>5, <2>1
  <2>3. n \in 1..b /\ n - 1 \in 0..b /\ ~(n <= n - 1)
    BY <1>1, <2>2
  <2>4. F[n - 1] \in Nat
    BY <2>1, <2>3
  <2>5. F[n] = F[n - 1] + z[n] /\ z[n] \in Nat
    BY <1>1, <1>5, <2>3
  <2>6. F[n] \in Nat
    BY <2>4, <2>5
  <2> QED
    BY <2>1, <2>6
<1>7. F \in [0..b -> Nat]
  BY <1>5, <1>6
<1> QED
  BY <1>2, <1>5, <1>7 DEF F, b

\* The same, element by element.
LEMMA TotalsValues ==
    ASSUME NEW z \in Seq(Nat)
    PROVE  /\ Len(z) \in Nat /\ \A i \in 1..Len(z) : z[i] \in Nat
           /\ Totals(z)[0] = 0 /\ \A i \in 0..Len(z) : Totals(z)[i] \in Nat
           /\ \A i \in 1..Len(z) : Totals(z)[i] = Totals(z)[i - 1] + z[i]
<1>1. Len(z) \in Nat /\ \A i \in 1..Len(z) : z[i] \in Nat
  BY ElementOfSeq
<1>2. Totals(z) \in [0..Len(z) -> Nat]
  BY TotalsProperties
<1>3. \A i \in 0..Len(z) : Totals(z)[i] \in Nat
  BY <1>2
<1>4. Totals(z)[0] = 0 /\ \A i \in 1..Len(z) : Totals(z)[i] = Totals(z)[i - 1] + z[i]
  BY TotalsProperties
<1> QED
  BY <1>1, <1>3, <1>4

\* Totals never get smaller, and stay the same over elements that are 0.
LEMMA TotalsGrow ==
    ASSUME NEW z \in Seq(Nat), NEW m \in 0..Len(z), NEW n \in m..Len(z)
    PROVE  /\ Totals(z)[m] <= Totals(z)[n] /\ Totals(z)[m] \in Nat /\ Totals(z)[n] \in Nat
           /\ (\A i \in (m + 1)..n : z[i] = 0) => Totals(z)[m] = Totals(z)[n]
<1> DEFINE t == Totals(z)
           Zero(c) == \A i \in (m + 1)..c : z[i] = 0
           Bad(c) == ~(t[m] <= t[c] /\ (Zero(c) => t[m] = t[c]))
           T == {c \in m..Len(z) : Bad(c)}
<1>1. /\ Len(z) \in Nat /\ \A i \in 1..Len(z) : z[i] \in Nat
      /\ \A i \in 0..Len(z) : t[i] \in Nat
      /\ \A i \in 1..Len(z) : t[i] = t[i - 1] + z[i]
  BY TotalsValues
<1> HIDE DEF t
<1>2. T = {}
  <2> SUFFICES ASSUME T # {} PROVE FALSE
    OBVIOUS
  <2>1. PICK c \in T : \A k \in T : c <= k
    <3>1. T \subseteq Nat
      BY <1>1
    <3> HIDE DEF T
    <3> QED
      BY <3>1, LeastElement
  <2>2. c # m
    BY <1>1, <2>1
  <2>3. c \in Nat /\ c \in 1..Len(z) /\ c - 1 \in m..Len(z) /\ ~(c <= c - 1) /\ c - 1 \in 0..Len(z)
    BY <1>1, <2>2
  <2>4. ~Bad(c - 1)
    <3> HIDE DEF Bad
    <3> QED
      BY <2>1, <2>3
  <2>5. t[c] = t[c - 1] + z[c] /\ z[c] \in Nat /\ t[c - 1] \in Nat /\ t[m] \in Nat /\ t[c] \in Nat
    BY <1>1, <2>3
  <2>6. Zero(c) => Zero(c - 1) /\ z[c] = 0
    BY <1>1, <2>2, <2>3
  <2> HIDE DEF Zero
  <2>7. ~Bad(c)
    <3> DEFINE a == t[m]
               b == t[c - 1]
               d == t[c]
               x == z[c]
    <3>1. /\ a \in Nat /\ b \in Nat /\ d \in Nat /\ x \in Nat /\ d = b + x /\ a <= b
          /\ Zero(c - 1) => a = b
      BY <2>4, <2>5
    <3>2. Zero(c) => Zero(c - 1) /\ x = 0
      BY <2>6
    <3> HIDE DEF a, b, d, x
    <3>3. a <= d
      BY <3>1
    <3>4. Zero(c) => a = d
      BY <3>1, <3>2
    <3> QED
      BY <3>3, <3>4 DEF a, d
  <2> QED
    BY <2>1, <2>7
<1>3. ~Bad(n)
  BY <1>2
<1>4. m \in 0..Len(z) /\ n \in 0..Len(z)
  BY <1>1
<1> QED
  BY <1>1, <1>3, <1>4 DEF t

\* Where y is a part of z, its totals are those of z from there on.
LEMMA TotalsOfPart ==
    ASSUME NEW z \in Seq(Nat), NEW y \in Seq(Nat), NEW c \in 0..Len(z), NEW m \in 0..Len(y),
           c + m <= Len(z), \A i \in 1..m : y[i] = z[c + i]
    PROVE  Totals(z)[c + m] = Totals(z)[c] + Totals(y)[m]
<1> DEFINE t == Totals(z)
           u == Totals(y)
           Bad(n) == ~(t[c + n] = t[c] + u[n])
           T == {n \in 0..m : Bad(n)}
<1>a. /\ Len(z) \in Nat /\ \A i \in 0..Len(z) : t[i] \in Nat
      /\ \A i \in 1..Len(z) : t[i] = t[i - 1] + z[i]
  BY TotalsValues
<1>b. /\ Len(y) \in Nat /\ u[0] = 0 /\ \A i \in 0..Len(y) : u[i] \in Nat
      /\ \A i \in 1..Len(y) : u[i] = u[i - 1] + y[i]
      /\ \A i \in 1..Len(y) : y[i] \in Nat
  BY TotalsValues
<1> HIDE DEF t, u
<1>1. m \in Nat /\ c \in Nat /\ m <= Len(y) /\ c <= Len(z)
  BY <1>a, <1>b
<1>2. T = {}
  <2> SUFFICES ASSUME T # {} PROVE FALSE
    OBVIOUS
  <2>1. PICK n \in T : \A k \in T : n <= k
    <3>1. T \subseteq Nat
      BY <1>1
    <3> HIDE DEF T
    <3> QED
      BY <3>1, LeastElement
  <2>2. n # 0
    <3>1. c + 0 = c /\ t[c] \in Nat
      BY <1>1, <1>a
    <3> QED
      BY <1>b, <2>1, <3>1
  <2>0. n \in 0..m
    OBVIOUS
  <2>3. /\ n \in 1..m /\ n - 1 \in 0..m /\ ~(n <= n - 1) /\ n \in 1..Len(y) /\ n - 1 \in 0..Len(y)
        /\ c + n \in 1..Len(z) /\ c + (n - 1) = (c + n) - 1 /\ c + (n - 1) \in 0..Len(z)
    <3> HIDE DEF T
    <3>1. n \in Nat /\ 1 <= n /\ n <= m
      BY <1>1, <2>0, <2>2
    <3>2. Len(y) \in Nat /\ Len(z) \in Nat
      BY <1>a, <1>b
    <3> QED
      BY <1>1, <3>1, <3>2
  <2>4. ~Bad(n - 1)
    <3> HIDE DEF Bad
    <3> QED
      BY <2>1, <2>3
  <2>5. t[c + n] = t[c + (n - 1)] + z[c + n]
    BY <1>1, <1>a, <1>b, <2>3
  <2>6. u[n] = u[n - 1] + y[n] /\ y[n] = z[c + n] /\ y[n] \in Nat /\ u[n - 1] \in Nat /\ t[c] \in Nat
    BY <1>1, <1>a, <1>b, <2>3
  <2>7. ~Bad(n)
    <3>1. t[c + (n - 1)] = t[c] + u[n - 1]
      BY <2>4
    <3> DEFINE x == y[n]
               v == u[n - 1]
               a == t[c]
    <3>2. t[c + n] = (a + v) + x /\ u[n] = v + x /\ x \in Nat /\ v \in Nat /\ a \in Nat
      BY <2>5, <2>6, <3>1
    <3> HIDE DEF x, v, a
    <3>3. t[c + n] = a + u[n]
      BY <3>2
    <3> QED
      BY <3>3 DEF a
  <2> QED
    BY <2>1, <2>7
<1>3. ~Bad(m)
  <2>1. m \in 0..m
    BY <1>1
  <2> QED
    BY <1>2, <2>1
<1> QED
  BY <1>3 DEF t, u
-----------------------------------------------------------------------------
(* Runs of numbers.                                                        *)

\* From(a, n) is a sequence of n numbers.
LEMMA FromProperties ==
    ASSUME NEW a \in Nat, NEW n \in Nat
    PROVE  /\ From(a, n) \in Seq(Nat) /\ Len(From(a, n)) = n
           /\ \A i \in 1..n : From(a, n)[i] = a + i
<1>1. From(a, n) \in [1..n -> Nat]
  BY DEF From
<1>2. From(a, n) \in Seq(Nat) /\ Len(From(a, n)) = n
  BY <1>1, FunctionIsSequence
<1> QED
  BY <1>2 DEF From

\* A sequence that counts on from a is a run.
LEMMA IsFrom ==
    ASSUME NEW a \in Nat, NEW s \in Seq(Nat), \A i \in 1..Len(s) : s[i] = a + i
    PROVE  s = From(a, Len(s))
<1>1. Len(s) \in Nat /\ s = [i \in 1..Len(s) |-> s[i]]
  BY LenProperties
<1>2. [i \in 1..Len(s) |-> s[i]] = [i \in 1..Len(s) |-> a + i]
  OBVIOUS
<1> QED
  BY <1>1, <1>2 DEF From

\* Taking from the front of a run, and what is left.
LEMMA FromParts ==
    ASSUME NEW a \in Nat, NEW n \in Nat, NEW m \in 0..n
    PROVE  /\ SubSeq(From(a, n), 1, m) = From(a, m)
           /\ Drop(From(a, n), m) = From(a + m, n - m)
<1> DEFINE s == From(a, n)
           p == SubSeq(s, 1, m)
           d == Drop(s, m)
<1>1. s \in Seq(Nat) /\ Len(s) = n /\ \A i \in 1..n : s[i] = a + i
  BY FromProperties
<1> HIDE DEF s
<1>m. m \in Nat /\ m <= Len(s)
  BY <1>1
<1>2. p \in Seq(Nat) /\ Len(p) = m /\ \A i \in 1..m : p[i] = s[i]
  BY <1>1, <1>m
<1>3. d \in Seq(Nat) /\ Len(d) = n - m /\ \A i \in 1..(n - m) : d[i] = s[m + i]
  <2>1. /\ d \in Seq(Nat) /\ Len(d) = Len(s) - m
        /\ \A i \in 1..Len(d) : d[i] = s[m + i]
    BY <1>1, <1>m, DropType
  <2> QED
    BY <1>1, <2>1
<1> HIDE DEF p, d
<1>4. p = From(a, Len(p))
  <2>1. \A i \in 1..Len(p) : p[i] = a + i
    BY <1>1, <1>2, <1>m
  <2> QED
    BY <1>2, <2>1, IsFrom
<1>5. d = From(a + m, Len(d))
  <2>1. \A i \in 1..Len(d) : d[i] = a + m + i
    <3> SUFFICES ASSUME NEW i \in 1..(n - m) PROVE d[i] = a + m + i
      BY <1>3
    <3>1. m + i \in 1..n
      OBVIOUS
    <3> QED
      BY <1>1, <1>3, <1>m, <3>1
  <2> QED
    BY <1>3, <2>1, IsFrom
<1> QED
  BY <1>2, <1>3, <1>4, <1>5 DEF p, d, s

\* Two runs, one after the other.
LEMMA FromConcat ==
    ASSUME NEW a \in Nat, NEW m \in Nat, NEW n \in Nat
    PROVE  From(a, m) \o From(a + m, n) = From(a, m + n)
<1> DEFINE s == From(a, m)
           t == From(a + m, n)
<1>1. s \in Seq(Nat) /\ Len(s) = m /\ \A i \in 1..m : s[i] = a + i
  BY FromProperties
<1>2. t \in Seq(Nat) /\ Len(t) = n /\ \A i \in 1..n : t[i] = a + m + i
  <2>1. a + m \in Nat
    OBVIOUS
  <2> QED
    BY <2>1, FromProperties
<1> HIDE DEF s, t
<1>3. /\ s \o t \in Seq(Nat) /\ Len(s \o t) = m + n
      /\ \A i \in 1..(m + n) : (s \o t)[i] = IF i <= m THEN s[i] ELSE t[i - m]
  BY <1>1, <1>2, ConcatProperties
<1>4. \A i \in 1..Len(s \o t) : (s \o t)[i] = a + i
  <2> SUFFICES ASSUME NEW i \in 1..(m + n) PROVE (s \o t)[i] = a + i
    BY <1>3
  <2>1. CASE i <= m
    BY <1>1, <1>3, <2>1
  <2>2. CASE i > m
    <3>1. i - m \in 1..n /\ a + m + (i - m) = a + i /\ ~(i <= m)
      BY <2>2
    <3> QED
      BY <1>2, <1>3, <3>1
  <2>3. i <= m \/ i > m
    OBVIOUS
  <2> QED
    BY <2>1, <2>2, <2>3
<1> QED
  BY <1>3, <1>4, IsFrom DEF s, t

-----------------------------------------------------------------------------
(* Frames.                                                                 *)

\* What is summed up are numbers.
LEMMA FrameNumbers ==
    ASSUME NEW fs \in Seq(Frame)
    PROVE  /\ FrameSizes(fs) \in Seq(Nat) /\ Len(FrameSizes(fs)) = Len(fs)
           /\ FrameFds(fs) \in Seq(Nat) /\ Len(FrameFds(fs)) = Len(fs)
           /\ FrameAcks(fs) \in Seq(Nat) /\ Len(FrameAcks(fs)) = Len(fs)
<1>1. /\ Len(fs) \in Nat /\ HeaderSize \in Nat
      /\ \A n \in 1..Len(fs) : /\ fs[n].payload_size \in Nat /\ fs[n].fd_count \in Nat
                               /\ fs[n].fds \in Seq(Nat)
  <2>1. \A n \in 1..Len(fs) : fs[n] \in Frame
    BY ElementOfSeq
  <2>2. Len(fs) \in Nat /\ HeaderSize \in Nat
    BY SizeAssumption DEF SizeAssumption
  <2> QED
    BY <2>1, <2>2 DEF Frame
<1>2. FrameSizes(fs) \in [1..Len(fs) -> Nat]
  BY <1>1 DEF FrameSizes
<1>3. FrameFds(fs) \in [1..Len(fs) -> Nat]
  BY <1>1 DEF FrameFds
<1>4. FrameAcks(fs) \in [1..Len(fs) -> Nat]
  BY <1>1 DEF FrameAcks
<1> QED
  BY <1>1, <1>2, <1>3, <1>4, FunctionIsSequence

\* The sums, frame by frame.
LEMMA FrameSums ==
    ASSUME NEW fs \in Seq(Frame)
    PROVE  /\ BytesUpTo(fs, 0) = 0 /\ FdsUpTo(fs, 0) = 0 /\ AcksUpTo(fs, 0) = 0
           /\ \A n \in 0..Len(fs) : /\ BytesUpTo(fs, n) \in Nat /\ FdsUpTo(fs, n) \in Nat
                                    /\ AcksUpTo(fs, n) \in Nat
           /\ \A n \in 1..Len(fs) :
                /\ BytesUpTo(fs, n) = BytesUpTo(fs, n - 1) + (HeaderSize + fs[n].payload_size)
                /\ FdsUpTo(fs, n) = FdsUpTo(fs, n - 1) + Len(fs[n].fds)
                /\ AcksUpTo(fs, n) = AcksUpTo(fs, n - 1)
                     + (IF fs[n].type = "Acknowledgement" THEN fs[n].fd_count ELSE 0)
<1>1. /\ FrameSizes(fs) \in Seq(Nat) /\ Len(FrameSizes(fs)) = Len(fs)
      /\ FrameFds(fs) \in Seq(Nat) /\ Len(FrameFds(fs)) = Len(fs)
      /\ FrameAcks(fs) \in Seq(Nat) /\ Len(FrameAcks(fs)) = Len(fs)
  BY FrameNumbers
<1>2. /\ BytesUpTo(fs, 0) = 0 /\ \A n \in 0..Len(fs) : BytesUpTo(fs, n) \in Nat
      /\ \A n \in 1..Len(fs) : BytesUpTo(fs, n) = BytesUpTo(fs, n - 1) + FrameSizes(fs)[n]
  BY <1>1, TotalsValues DEF BytesUpTo
<1>3. /\ FdsUpTo(fs, 0) = 0 /\ \A n \in 0..Len(fs) : FdsUpTo(fs, n) \in Nat
      /\ \A n \in 1..Len(fs) : FdsUpTo(fs, n) = FdsUpTo(fs, n - 1) + FrameFds(fs)[n]
  BY <1>1, TotalsValues DEF FdsUpTo
<1>4. /\ AcksUpTo(fs, 0) = 0 /\ \A n \in 0..Len(fs) : AcksUpTo(fs, n) \in Nat
      /\ \A n \in 1..Len(fs) : AcksUpTo(fs, n) = AcksUpTo(fs, n - 1) + FrameAcks(fs)[n]
  BY <1>1, TotalsValues DEF AcksUpTo
<1>5. \A n \in 1..Len(fs) :
        /\ FrameSizes(fs)[n] = HeaderSize + fs[n].payload_size
        /\ FrameFds(fs)[n] = Len(fs[n].fds)
        /\ FrameAcks(fs)[n] = IF fs[n].type = "Acknowledgement" THEN fs[n].fd_count ELSE 0
  BY DEF FrameSizes, FrameFds, FrameAcks
<1> QED
  BY <1>2, <1>3, <1>4, <1>5

\* They grow with the number of frames.
LEMMA FrameSumsGrow ==
    ASSUME NEW fs \in Seq(Frame), NEW m \in 0..Len(fs), NEW n \in m..Len(fs)
    PROVE  /\ BytesUpTo(fs, m) <= BytesUpTo(fs, n) /\ FdsUpTo(fs, m) <= FdsUpTo(fs, n)
           /\ AcksUpTo(fs, m) <= AcksUpTo(fs, n)
  BY FrameNumbers, TotalsGrow DEF BytesUpTo, FdsUpTo, AcksUpTo

\* The sums over a sequence are those over a longer one with the same beginning.
LEMMA TotalsOfFirst ==
    ASSUME NEW z \in Seq(Nat), NEW y \in Seq(Nat), Len(y) <= Len(z),
           \A j \in 1..Len(y) : y[j] = z[j], NEW n \in 0..Len(y)
    PROVE  Totals(z)[n] = Totals(y)[n]
<1>1. Len(z) \in Nat /\ Len(y) \in Nat
  OBVIOUS
<1>2. 0 \in 0..Len(z) /\ 0 + n <= Len(z) /\ n \in 0..Len(z)
  BY <1>1
<1>3. \A i \in 1..n : y[i] = z[0 + i]
  BY <1>1
<1>4. Totals(z)[0 + n] = Totals(z)[0] + Totals(y)[n]
  BY <1>2, <1>3, TotalsOfPart
<1>5. Totals(z)[0] = 0
  BY TotalsValues
<1>6. Totals(y)[n] \in Nat /\ 0 + n = n
  BY TotalsValues
<1> QED
  BY <1>4, <1>5, <1>6

\* A frame more leaves the sums of those before it alone.
LEMMA FrameSumsAppend ==
    ASSUME NEW fs \in Seq(Frame), NEW f \in Frame
    PROVE  /\ Append(fs, f) \in Seq(Frame) /\ Len(Append(fs, f)) = Len(fs) + 1
           /\ Append(fs, f)[Len(fs) + 1] = f /\ \A n \in 1..Len(fs) : Append(fs, f)[n] = fs[n]
           /\ \A n \in 0..Len(fs) : /\ BytesUpTo(Append(fs, f), n) = BytesUpTo(fs, n)
                                    /\ FdsUpTo(Append(fs, f), n) = FdsUpTo(fs, n)
                                    /\ AcksUpTo(Append(fs, f), n) = AcksUpTo(fs, n)
<1> DEFINE gs == Append(fs, f)
<1>1. /\ gs \in Seq(Frame) /\ Len(gs) = Len(fs) + 1 /\ gs[Len(fs) + 1] = f
      /\ \A n \in 1..Len(fs) : gs[n] = fs[n]
  BY AppendProperties
<1> HIDE DEF gs
<1>2. Len(fs) \in Nat /\ \A n \in 1..Len(fs) : n \in 1..Len(gs)
  BY <1>1
<1>3. \A n \in 1..Len(fs) : /\ FrameSizes(fs)[n] = FrameSizes(gs)[n]
                            /\ FrameFds(fs)[n] = FrameFds(gs)[n]
                            /\ FrameAcks(fs)[n] = FrameAcks(gs)[n]
  BY <1>1, <1>2 DEF FrameSizes, FrameFds, FrameAcks
<1>4. /\ FrameSizes(fs) \in Seq(Nat) /\ Len(FrameSizes(fs)) = Len(fs)
      /\ FrameFds(fs) \in Seq(Nat) /\ Len(FrameFds(fs)) = Len(fs)
      /\ FrameAcks(fs) \in Seq(Nat) /\ Len(FrameAcks(fs)) = Len(fs)
  BY FrameNumbers
<1>5. /\ FrameSizes(gs) \in Seq(Nat) /\ Len(FrameSizes(gs)) = Len(fs) + 1
      /\ FrameFds(gs) \in Seq(Nat) /\ Len(FrameFds(gs)) = Len(fs) + 1
      /\ FrameAcks(gs) \in Seq(Nat) /\ Len(FrameAcks(gs)) = Len(fs) + 1
  BY <1>1, FrameNumbers
<1>6. ASSUME NEW n \in 0..Len(fs)
      PROVE  /\ BytesUpTo(gs, n) = BytesUpTo(fs, n) /\ FdsUpTo(gs, n) = FdsUpTo(fs, n)
             /\ AcksUpTo(gs, n) = AcksUpTo(fs, n)
  <2>1. Totals(FrameSizes(gs))[n] = Totals(FrameSizes(fs))[n]
    <3> DEFINE z == FrameSizes(gs)
               y == FrameSizes(fs)
    <3>1. /\ z \in Seq(Nat) /\ y \in Seq(Nat) /\ Len(y) <= Len(z)
          /\ (\A j \in 1..Len(y) : y[j] = z[j]) /\ n \in 0..Len(y)
      BY <1>2, <1>3, <1>4, <1>5
    <3> HIDE DEF z, y
    <3>2. Totals(z)[n] = Totals(y)[n]
      BY <3>1, TotalsOfFirst
    <3> QED
      BY <3>2 DEF z, y
  <2>2. Totals(FrameFds(gs))[n] = Totals(FrameFds(fs))[n]
    <3> DEFINE z == FrameFds(gs)
               y == FrameFds(fs)
    <3>1. /\ z \in Seq(Nat) /\ y \in Seq(Nat) /\ Len(y) <= Len(z)
          /\ (\A j \in 1..Len(y) : y[j] = z[j]) /\ n \in 0..Len(y)
      BY <1>2, <1>3, <1>4, <1>5
    <3> HIDE DEF z, y
    <3>2. Totals(z)[n] = Totals(y)[n]
      BY <3>1, TotalsOfFirst
    <3> QED
      BY <3>2 DEF z, y
  <2>3. Totals(FrameAcks(gs))[n] = Totals(FrameAcks(fs))[n]
    <3> DEFINE z == FrameAcks(gs)
               y == FrameAcks(fs)
    <3>1. /\ z \in Seq(Nat) /\ y \in Seq(Nat) /\ Len(y) <= Len(z)
          /\ (\A j \in 1..Len(y) : y[j] = z[j]) /\ n \in 0..Len(y)
      BY <1>2, <1>3, <1>4, <1>5
    <3> HIDE DEF z, y
    <3>2. Totals(z)[n] = Totals(y)[n]
      BY <3>1, TotalsOfFirst
    <3> QED
      BY <3>2 DEF z, y
  <2> QED
    BY <2>1, <2>2, <2>3 DEF BytesUpTo, FdsUpTo, AcksUpTo
<1> QED
  BY <1>1, <1>6 DEF gs
-----------------------------------------------------------------------------
(* Bytes of a stream.                                                      *)

\* Byte x of the stream is after all frames before its own, and before all others.
LEMMA ByteBounds ==
    ASSUME NEW fs \in Seq(Frame), NEW b \in Nat \X Nat, NEW x, IsByte(fs, b, x), NEW k \in 0..Len(fs)
    PROVE  /\ x \in Nat /\ b[1] \in Nat /\ b[2] \in Nat
           /\ k < b[1] => BytesUpTo(fs, k) < x
           /\ b[1] <= k => x <= BytesUpTo(fs, k)
<1> DEFINE n == b[1]
           i == b[2]
           h == HeaderSize + fs[n].payload_size
<1>1. n \in Nat /\ i \in Nat /\ Len(fs) \in Nat /\ k \in Nat
  OBVIOUS
<1>2. n \in 1..Len(fs) /\ i \in 1..h /\ x = BytesUpTo(fs, n - 1) + i
  BY DEF IsByte
<1>3. n - 1 \in 0..Len(fs) /\ n \in 0..Len(fs)
  BY <1>1, <1>2
<1>4. /\ BytesUpTo(fs, n - 1) \in Nat /\ BytesUpTo(fs, n) \in Nat /\ BytesUpTo(fs, k) \in Nat
      /\ BytesUpTo(fs, n) = BytesUpTo(fs, n - 1) + h
  BY <1>2, <1>3, FrameSums
<1>h. h \in Nat
  <2>1. fs[n] \in Frame
    BY <1>2, ElementOfSeq
  <2>2. fs[n].payload_size \in Nat
    BY <2>1 DEF Frame
  <2>3. HeaderSize \in Nat
    BY SizeAssumption DEF SizeAssumption
  <2> QED
    BY <2>2, <2>3
<1> HIDE DEF n, i, h
<1>5. k < n => BytesUpTo(fs, k) <= BytesUpTo(fs, n - 1)
  <2> SUFFICES ASSUME k < n PROVE BytesUpTo(fs, k) <= BytesUpTo(fs, n - 1)
    OBVIOUS
  <2>1. n - 1 \in k..Len(fs)
    BY <1>1, <1>3
  <2> QED
    BY <2>1, FrameSumsGrow
<1>6. n <= k => BytesUpTo(fs, n) <= BytesUpTo(fs, k)
  <2> SUFFICES ASSUME n <= k PROVE BytesUpTo(fs, n) <= BytesUpTo(fs, k)
    OBVIOUS
  <2>1. k \in n..Len(fs)
    BY <1>1, <1>3
  <2> QED
    BY <1>3, <2>1, FrameSumsGrow
<1>7. x \in Nat /\ (k < n => BytesUpTo(fs, k) < x) /\ (n <= k => x <= BytesUpTo(fs, k))
  BY <1>1, <1>2, <1>4, <1>5, <1>6, <1>h
<1> QED
  BY <1>1, <1>7 DEF n, i

\* No two bytes have the same place.
LEMMA ByteUnique ==
    ASSUME NEW fs \in Seq(Frame), NEW b \in Nat \X Nat, NEW c \in Nat \X Nat, NEW x,
           IsByte(fs, b, x), IsByte(fs, c, x)
    PROVE  b = c
<1>0. /\ b[1] \in 1..Len(fs) /\ c[1] \in 1..Len(fs) /\ Len(fs) \in Nat
      /\ x = BytesUpTo(fs, b[1] - 1) + b[2] /\ x = BytesUpTo(fs, c[1] - 1) + c[2]
  BY DEF IsByte
<1>1. ~(b[1] < c[1])
  <2> SUFFICES ASSUME b[1] < c[1] PROVE FALSE
    OBVIOUS
  <2> DEFINE k == b[1]
  <2>1. k \in 0..Len(fs) /\ k <= k
    BY <1>0
  <2>2. BytesUpTo(fs, k) < x /\ x <= BytesUpTo(fs, k) /\ x \in Nat
    BY <2>1, ByteBounds
  <2>3. BytesUpTo(fs, k) \in Nat
    BY <2>1, FrameSums
  <2> HIDE DEF k
  <2> QED
    BY <2>2, <2>3
<1>2. ~(c[1] < b[1])
  <2> SUFFICES ASSUME c[1] < b[1] PROVE FALSE
    OBVIOUS
  <2> DEFINE k == c[1]
  <2>1. k \in 0..Len(fs) /\ k <= k
    BY <1>0
  <2>2. BytesUpTo(fs, k) < x /\ x <= BytesUpTo(fs, k) /\ x \in Nat
    BY <2>1, ByteBounds
  <2>3. BytesUpTo(fs, k) \in Nat
    BY <2>1, FrameSums
  <2> HIDE DEF k
  <2> QED
    BY <2>2, <2>3
<1>3. b[1] = c[1]
  BY <1>0, <1>1, <1>2
<1>4. b[1] - 1 \in 0..Len(fs)
  BY <1>0
<1>5. BytesUpTo(fs, b[1] - 1) \in Nat /\ b[2] \in Nat /\ c[2] \in Nat
  BY <1>4, FrameSums
<1>6. b[2] = c[2]
  BY <1>0, <1>3, <1>5
<1> QED
  BY <1>3, <1>6

\* A byte after those of k frames: there is another frame, and if it is among the first of
\* that frame's, it is the one with its place there.
LEMMA ByteOfFrame ==
    ASSUME NEW fs \in Seq(Frame), NEW b \in Nat \X Nat, NEW k \in 0..Len(fs), NEW i \in Nat \ {0},
           IsByte(fs, b, BytesUpTo(fs, k) + i)
    PROVE  /\ k < Len(fs) /\ k + 1 \in 1..Len(fs)
           /\ i <= HeaderSize + fs[k + 1].payload_size => b = <<k + 1, i>>
<1>1. Len(fs) \in Nat /\ k \in Nat /\ b[1] \in 1..Len(fs) /\ BytesUpTo(fs, k) \in Nat
  BY FrameSums DEF IsByte
<1>2. k < b[1]
  <2> SUFFICES ASSUME ~(k < b[1]) PROVE FALSE
    OBVIOUS
  <2>1. b[1] <= k
    BY <1>1
  <2>2. BytesUpTo(fs, k) + i <= BytesUpTo(fs, k)
    BY <2>1, ByteBounds
  <2> QED
    BY <1>1, <2>2
<1>3. k < Len(fs) /\ k + 1 \in 1..Len(fs) /\ (k + 1) - 1 = k
  BY <1>1, <1>2
<1>4. ASSUME i <= HeaderSize + fs[k + 1].payload_size PROVE b = <<k + 1, i>>
  <2>1. fs[k + 1] \in Frame
    BY <1>3, ElementOfSeq
  <2>2. HeaderSize + fs[k + 1].payload_size \in Nat
    <3>1. fs[k + 1].payload_size \in Nat
      BY <2>1 DEF Frame
    <3>2. HeaderSize \in Nat
      BY SizeAssumption DEF SizeAssumption
    <3> QED
      BY <3>1, <3>2
  <2>3. i \in 1..(HeaderSize + fs[k + 1].payload_size)
    BY <1>4, <2>2
  <2> DEFINE c == <<k + 1, i>>
  <2>4. c \in Nat \X Nat /\ c[1] = k + 1 /\ c[2] = i
    BY <1>1
  <2>5. IsByte(fs, c, BytesUpTo(fs, k) + i)
    BY <1>3, <2>3, <2>4 DEF IsByte
  <2> HIDE DEF c
  <2>6. b = c
    BY <2>4, <2>5, ByteUnique
  <2> QED
    BY <2>6 DEF c
<1> QED
  BY <1>3, <1>4

\* Another frame does not move the bytes of those before it, and its own come last.
LEMMA ByteAppend ==
    ASSUME NEW fs \in Seq(Frame), NEW f \in Frame
    PROVE  /\ \A b \in Nat \X Nat : \A x : IsByte(fs, b, x) => IsByte(Append(fs, f), b, x)
           /\ \A i \in 1..(HeaderSize + f.payload_size) :
                 IsByte(Append(fs, f), <<Len(fs) + 1, i>>, BytesUpTo(fs, Len(fs)) + i)
           /\ BytesUpTo(Append(fs, f), Len(fs) + 1) =
                 BytesUpTo(fs, Len(fs)) + (HeaderSize + f.payload_size)
<1> DEFINE gs == Append(fs, f)
           L == Len(fs)
<1>1. /\ gs \in Seq(Frame) /\ Len(gs) = L + 1 /\ gs[L + 1] = f
      /\ \A n \in 1..L : gs[n] = fs[n]
      /\ \A n \in 0..L : BytesUpTo(gs, n) = BytesUpTo(fs, n)
  BY FrameSumsAppend
<1>2. L \in Nat
  OBVIOUS
<1> HIDE DEF gs, L
<1>3. ASSUME NEW b \in Nat \X Nat, NEW x, IsByte(fs, b, x) PROVE IsByte(gs, b, x)
  <2>1. /\ b[1] \in 1..L /\ b[2] \in 1..(HeaderSize + fs[b[1]].payload_size)
        /\ x = BytesUpTo(fs, b[1] - 1) + b[2]
    BY <1>3 DEF IsByte, L
  <2>2. b[1] - 1 \in 0..L /\ b[1] \in 1..Len(gs)
    BY <1>1, <1>2, <2>1
  <2>3. gs[b[1]] = fs[b[1]] /\ BytesUpTo(gs, b[1] - 1) = BytesUpTo(fs, b[1] - 1)
    BY <1>1, <2>1, <2>2
  <2> QED
    BY <2>1, <2>2, <2>3 DEF IsByte
<1>4. ASSUME NEW i \in 1..(HeaderSize + f.payload_size)
      PROVE  IsByte(gs, <<L + 1, i>>, BytesUpTo(fs, L) + i)
  <2>1. L + 1 \in 1..Len(gs) /\ (L + 1) - 1 = L /\ L \in 0..L
    BY <1>1, <1>2
  <2>2. BytesUpTo(gs, L) = BytesUpTo(fs, L)
    BY <1>1, <2>1
  <2> QED
    BY <1>1, <2>1, <2>2 DEF IsByte
<1>5. BytesUpTo(gs, L + 1) = BytesUpTo(fs, L) + (HeaderSize + f.payload_size)
  <2>1. L + 1 \in 1..Len(gs) /\ (L + 1) - 1 = L /\ L \in 0..L
    BY <1>1, <1>2
  <2>2. BytesUpTo(gs, L + 1) = BytesUpTo(gs, (L + 1) - 1) + (HeaderSize + gs[L + 1].payload_size)
    BY <1>1, <2>1, FrameSums
  <2> QED
    BY <1>1, <2>1, <2>2
<1> QED
  BY <1>3, <1>4, <1>5 DEF gs, L
-----------------------------------------------------------------------------
(* Messages of a stream.                                                   *)

\* The recursion that defines MessagesIn has a solution.
LEMMA MessagesProperties ==
    ASSUME NEW fs \in Seq(Frame)
    PROVE  /\ MessagesIn(fs)[0] = <<>>
           /\ \A n \in 1..Len(fs) : MessagesIn(fs)[n] =
                 IF fs[n].type = "Payload" THEN Append(MessagesIn(fs)[n - 1], Intended(fs, n))
                 ELSE MessagesIn(fs)[n - 1]
<1> DEFINE b == Len(fs)
           Body(f, n) ==
                IF n = 0 THEN <<>>
                ELSE IF fs[n].type = "Payload" THEN Append(f[n - 1], Intended(fs, n))
                ELSE f[n - 1]
           Rec(f, c) == f = [n \in 0..c |-> Body(f, n)]
<1>1. b \in Nat
  OBVIOUS
<1>2. MessagesIn(fs) = CHOOSE f : Rec(f, b)
  BY DEF MessagesIn
<1> HIDE DEF b, Body
<1>3. \A c \in 0..b : \E f : Rec(f, c)
  <2> DEFINE T == {c \in 0..b : ~\E f : Rec(f, c)}
  <2> SUFFICES ASSUME T # {} PROVE FALSE
    OBVIOUS
  <2>1. PICK c \in T : \A k \in T : c <= k
    <3>1. T \subseteq Nat
      BY <1>1
    <3> HIDE DEF T
    <3> QED
      BY <3>1, LeastElement
  <2>2. CASE c = 0
    <3>1. Rec([n \in 0..c |-> <<>>], c)
      BY <1>1, <2>2 DEF Body
    <3> QED
      BY <3>1
  <2>3. CASE c # 0
    <3>1. c - 1 \in 0..b /\ ~(c <= c - 1)
      BY <1>1, <2>3
    <3>2. PICK f : Rec(f, c - 1)
      BY <2>1, <3>1
    <3> DEFINE g == [n \in 0..c |-> Body(f, n)]
    <3>3. \A n \in 0..(c - 1) : f[n] = Body(f, n) /\ n \in 0..c
      <4>1. \A n \in 0..(c - 1) : f[n] = Body(f, n)
        BY <3>2
      <4>2. \A n \in 0..(c - 1) : n \in 0..c
        BY <1>1, <3>1
      <4> QED
        BY <4>1, <4>2
    <3>4. \A n \in 0..c : n # 0 => n - 1 \in 0..(c - 1)
      BY <1>1
    <3>5. Rec(g, c)
      <4>1. \A n \in 0..c : g[n] = Body(f, n)
        OBVIOUS
      <4>2. \A n \in 0..c : n # 0 => f[n - 1] = g[n - 1]
        BY <3>3, <3>4, <4>1
      <4> HIDE DEF g
      <4>3. \A n \in 0..c : Body(f, n) = Body(g, n)
        BY <4>2 DEF Body
      <4> QED
        BY <4>3 DEF g
    <3> QED
      BY <3>5
  <2> QED
    BY <2>2, <2>3
<1> DEFINE F == CHOOSE f : Rec(f, b)
<1>4. Rec(F, b)
  <2> HIDE DEF Rec
  <2>1. \E f : Rec(f, b)
    BY <1>1, <1>3
  <2> QED
    BY <2>1
<1> HIDE DEF F
<1>5. \A n \in 0..b : F[n] = Body(F, n)
  BY <1>4
<1>6. 0 \in 0..b /\ \A n \in 1..b : n \in 0..b /\ n # 0
  BY <1>1
<1>7. F[0] = <<>>
  BY <1>5, <1>6 DEF Body
<1>8. \A n \in 1..b : F[n] = IF fs[n].type = "Payload" THEN Append(F[n - 1], Intended(fs, n))
                             ELSE F[n - 1]
  BY <1>5, <1>6 DEF Body
<1> QED
  BY <1>2, <1>7, <1>8 DEF F, b

\* What is intended of a frame is a message.
LEMMA IntendedType ==
    ASSUME NEW fs \in Seq(Frame), NEW n \in 1..Len(fs)
    PROVE  Intended(fs, n) \in Message
<1>1. fs[n] \in Frame /\ n \in Nat /\ HeaderSize \in Nat
  BY ElementOfSeq, SizeAssumption DEF SizeAssumption
<1>2. fs[n].payload_size \in Nat /\ fs[n].fds \in Seq(Nat)
  BY <1>1 DEF Frame
<1> DEFINE s == [i \in 1..fs[n].payload_size |-> <<n, HeaderSize + i>>]
<1>3. s \in [1..fs[n].payload_size -> Nat \X Nat]
  BY <1>1, <1>2
<1>4. s \in Seq(Nat \X Nat)
  BY <1>2, <1>3, FunctionIsSequence
<1> HIDE DEF s
<1>5. [bytes |-> s, fds |-> fs[n].fds] \in Message
  BY <1>2, <1>4 DEF Message
<1> QED
  BY <1>5 DEF Intended, s

\* The messages of some frames come first among those of more.
LEMMA MessagesGrow ==
    ASSUME NEW fs \in Seq(Frame), NEW m \in 0..Len(fs), NEW n \in m..Len(fs)
    PROVE  /\ MessagesIn(fs)[m] \in Seq(Message) /\ MessagesIn(fs)[n] \in Seq(Message)
           /\ Len(MessagesIn(fs)[m]) <= Len(MessagesIn(fs)[n])
           /\ \A i \in 1..Len(MessagesIn(fs)[m]) : MessagesIn(fs)[n][i] = MessagesIn(fs)[m][i]
<1> DEFINE M == MessagesIn(fs)
<1>1. /\ Len(fs) \in Nat /\ M[0] = <<>>
      /\ \A c \in 1..Len(fs) :
            M[c] = IF fs[c].type = "Payload" THEN Append(M[c - 1], Intended(fs, c)) ELSE M[c - 1]
  BY MessagesProperties
<1> HIDE DEF M
<1>2. \A c \in 0..Len(fs) : M[c] \in Seq(Message)
  <2> DEFINE T == {c \in 0..Len(fs) : M[c] \notin Seq(Message)}
  <2> SUFFICES ASSUME T # {} PROVE FALSE
    OBVIOUS
  <2>1. PICK c \in T : \A k \in T : c <= k
    <3>1. T \subseteq Nat
      BY <1>1
    <3> HIDE DEF T
    <3> QED
      BY <3>1, LeastElement
  <2>2. c # 0
    <3>1. <<>> \in Seq(Message) /\ M[c] \notin Seq(Message)
      OBVIOUS
    <3> QED
      BY <1>1, <3>1
  <2>3. c \in 1..Len(fs) /\ c - 1 \in 0..Len(fs) /\ ~(c <= c - 1)
    BY <1>1, <2>2
  <2>4. M[c - 1] \in Seq(Message)
    BY <2>1, <2>3
  <2>5. Intended(fs, c) \in Message
    BY <2>3, IntendedType
  <2>6. Append(M[c - 1], Intended(fs, c)) \in Seq(Message)
    BY <2>4, <2>5, AppendProperties
  <2>7. M[c] \in Seq(Message)
    BY <1>1, <2>3, <2>4, <2>6
  <2> QED
    BY <2>1, <2>7
<1> DEFINE Bad(c) == ~(/\ Len(M[m]) <= Len(M[c])
                       /\ \A i \in 1..Len(M[m]) : M[c][i] = M[m][i])
           T == {c \in m..Len(fs) : Bad(c)}
<1>3. T = {}
  <2> SUFFICES ASSUME T # {} PROVE FALSE
    OBVIOUS
  <2>1. PICK c \in T : \A k \in T : c <= k
    <3>1. T \subseteq Nat
      BY <1>1
    <3> HIDE DEF T
    <3> QED
      BY <3>1, LeastElement
  <2>2. c # m
    BY <1>1, <1>2, <2>1
  <2>3. c \in 1..Len(fs) /\ c - 1 \in m..Len(fs) /\ c - 1 \in 0..Len(fs) /\ ~(c <= c - 1)
    BY <1>1, <2>2
  <2>4. ~Bad(c - 1)
    <3> HIDE DEF Bad
    <3> QED
      BY <2>1, <2>3
  <2> DEFINE s == M[m]
             u == M[c - 1]
             x == Intended(fs, c)
  <2>5. s \in Seq(Message) /\ u \in Seq(Message) /\ x \in Message
    BY <1>2, <2>3, IntendedType
  <2>6. Len(s) <= Len(u) /\ \A i \in 1..Len(s) : u[i] = s[i]
    BY <2>4
  <2>7. M[c] = u \/ M[c] = Append(u, x)
    BY <1>1, <2>3
  <2> HIDE DEF s, u, x
  <2>8. /\ Len(Append(u, x)) = Len(u) + 1 /\ Len(u) \in Nat /\ Len(s) \in Nat
        /\ \A i \in 1..Len(u) : Append(u, x)[i] = u[i]
    BY <2>5, AppendProperties
  <2>9. Len(s) <= Len(M[c]) /\ \A i \in 1..Len(s) : M[c][i] = s[i]
    <3>1. CASE M[c] = u
      BY <2>6, <3>1
    <3>2. CASE M[c] = Append(u, x)
      <4>1. \A i \in 1..Len(s) : i \in 1..Len(u)
        BY <2>6, <2>8
      <4>2. Len(s) <= Len(M[c])
        BY <2>6, <2>8, <3>2
      <4> QED
        BY <2>6, <2>8, <3>2, <4>1, <4>2
    <3> QED
      BY <2>7, <3>1, <3>2
  <2>10. ~Bad(c)
    BY <2>9 DEF s
  <2> QED
    BY <2>1, <2>10
<1>4. ~Bad(n)
  BY <1>3
<1>5. m \in 0..Len(fs) /\ n \in 0..Len(fs)
  BY <1>1
<1> QED
  BY <1>2, <1>4, <1>5 DEF M

\* Another frame leaves the messages before it alone.
LEMMA MessagesAppend ==
    ASSUME NEW fs \in Seq(Frame), NEW f \in Frame, NEW n \in 0..Len(fs)
    PROVE  MessagesIn(Append(fs, f))[n] = MessagesIn(fs)[n]
<1> DEFINE gs == Append(fs, f)
           M == MessagesIn(fs)
           N == MessagesIn(gs)
           T == {c \in 0..Len(fs) : N[c] # M[c]}
<1>1. /\ gs \in Seq(Frame) /\ Len(gs) = Len(fs) + 1 /\ Len(fs) \in Nat
      /\ \A c \in 1..Len(fs) : gs[c] = fs[c]
  BY AppendProperties
<1> HIDE DEF gs
<1>2. /\ M[0] = <<>>
      /\ \A c \in 1..Len(fs) :
            M[c] = IF fs[c].type = "Payload" THEN Append(M[c - 1], Intended(fs, c)) ELSE M[c - 1]
  BY MessagesProperties
<1>3. /\ N[0] = <<>>
      /\ \A c \in 1..Len(gs) :
            N[c] = IF gs[c].type = "Payload" THEN Append(N[c - 1], Intended(gs, c)) ELSE N[c - 1]
  BY <1>1, MessagesProperties
<1> HIDE DEF M, N
<1>4. T = {}
  <2> SUFFICES ASSUME T # {} PROVE FALSE
    OBVIOUS
  <2>1. PICK c \in T : \A k \in T : c <= k
    <3>1. T \subseteq Nat
      BY <1>1
    <3> HIDE DEF T
    <3> QED
      BY <3>1, LeastElement
  <2>2. c # 0
    BY <1>2, <1>3, <2>1
  <2>3. c \in 1..Len(fs) /\ c \in 1..Len(gs) /\ c - 1 \in 0..Len(fs) /\ ~(c <= c - 1)
    BY <1>1, <2>2
  <2>4. N[c - 1] = M[c - 1]
    BY <2>1, <2>3
  <2>5. gs[c] = fs[c]
    BY <1>1, <2>3
  <2>6. Intended(gs, c) = Intended(fs, c)
    BY <2>5 DEF Intended
  <2>7. N[c] = M[c]
    BY <1>2, <1>3, <2>3, <2>4, <2>5, <2>6
  <2> QED
    BY <2>1, <2>7
<1> QED
  BY <1>4 DEF gs, M, N
-----------------------------------------------------------------------------
(* What the threads do to the bytes of a stream.                           *)

\* Where a byte is in the stream does not depend on how the counts before it are grouped.
LEMMA SumsAssociate ==
    ASSUME NEW a \in Nat, NEW b \in Nat, NEW c \in Nat
    PROVE  (a + b) + c = a + (b + c)
  OBVIOUS

\* An index past the first part is one of the second.
LEMMA PastFirst ==
    ASSUME NEW a \in Nat, NEW n \in Nat, NEW i \in 1..(a + n), ~(i <= a)
    PROVE  i - a \in 1..n /\ i - a \in Nat \ {0} /\ a + (i - a) = i
  OBVIOUS

\* enqueue_message: a frame more.
LEMMA BytesEnqueued ==
    ASSUME NEW fs \in Seq(Frame), NEW f \in Frame, NEW k \in 0..Len(fs),
           NEW received \in Seq(Nat \X Nat), NEW w \in Seq(Carrier),
           NEW queue \in Seq(Nat \X Nat), NEW m \in 0..Len(queue)
    PROVE  /\ BytesFlow(fs, k, received, w) => BytesFlow(Append(fs, f), k, received, w)
           /\ BytesLinked(fs, k, received, w, queue, m) =>
                BytesLinked(Append(fs, f), k, received, w, queue \o Bytes(Len(fs) + 1, f), m)
<1> DEFINE gs == Append(fs, f)
           new == Bytes(Len(fs) + 1, f)
           size == HeaderSize + f.payload_size
<1>1. /\ \A b \in Nat \X Nat : \A x : IsByte(fs, b, x) => IsByte(gs, b, x)
      /\ \A i \in 1..size : IsByte(gs, <<Len(fs) + 1, i>>, BytesUpTo(fs, Len(fs)) + i)
      /\ BytesUpTo(gs, Len(fs) + 1) = BytesUpTo(fs, Len(fs)) + size
  BY ByteAppend
<1>2. /\ BytesUpTo(gs, k) = BytesUpTo(fs, k) /\ Len(gs) = Len(fs) + 1 /\ Len(fs) \in Nat
  BY FrameSumsAppend
<1>3. /\ BytesUpTo(fs, k) \in Nat /\ BytesUpTo(fs, Len(fs)) \in Nat
  BY FrameSums
<1>4. size \in Nat
  BY SizeAssumption DEF SizeAssumption, Frame
<1>5. new \in Seq(Nat \X Nat) /\ Len(new) = size /\ \A i \in 1..size : new[i] = <<Len(fs) + 1, i>>
  <2>1. Len(fs) + 1 \in Nat
    OBVIOUS
  <2>2. new \in Seq(Nat \X Nat) /\ \A i \in 1..Len(new) : new[i] = <<Len(fs) + 1, i>>
    BY <2>1, BytesType
  <2>3. new \in [1..size -> Nat \X Nat]
    BY <1>4, <2>1 DEF Bytes
  <2>4. Len(new) = size
    BY <1>4, <2>3, FunctionIsSequence
  <2> QED
    BY <2>2, <2>4
<1>6. /\ \A i \in 1..Len(received) : received[i] \in Nat \X Nat
      /\ \A i \in 1..Len(w) : w[i].byte \in Nat \X Nat
      /\ \A i \in 1..Len(queue) : queue[i] \in Nat \X Nat
      /\ Len(received) \in Nat /\ Len(w) \in Nat /\ Len(queue) \in Nat /\ m \in Nat /\ m <= Len(queue)
  <2>1. /\ Len(received) \in Nat /\ Len(w) \in Nat /\ Len(queue) \in Nat
    OBVIOUS
  <2>2. \A i \in 1..Len(received) : received[i] \in Nat \X Nat
    BY ElementOfSeq
  <2>3. \A i \in 1..Len(w) : w[i].byte \in Nat \X Nat
    <3>1. \A i \in 1..Len(w) : w[i] \in Carrier
      BY ElementOfSeq
    <3> QED
      BY <3>1 DEF Carrier
  <2>4. \A i \in 1..Len(queue) : queue[i] \in Nat \X Nat
    BY ElementOfSeq
  <2> QED
    BY <2>1, <2>2, <2>3, <2>4
<1> HIDE DEF gs, new, size
<1>7. ASSUME BytesFlow(fs, k, received, w) PROVE BytesFlow(gs, k, received, w)
  BY <1>1, <1>2, <1>6, <1>7 DEF BytesFlow
<1>8. ASSUME BytesLinked(fs, k, received, w, queue, m)
      PROVE  BytesLinked(gs, k, received, w, queue \o new, m)
  <2> DEFINE before == BytesUpTo(fs, k) + Len(received) + Len(w)
  <2>1. /\ \A i \in 1..(Len(queue) - m) : IsByte(fs, queue[m + i], before + i)
        /\ BytesUpTo(fs, Len(fs)) = before + (Len(queue) - m)
    BY <1>8 DEF BytesLinked
  <2>2. before \in Nat
    BY <1>3, <1>6
  <2> DEFINE q == queue \o new
  <2>3. /\ Len(q) = Len(queue) + size
        /\ \A i \in 1..(Len(queue) + size) :
              q[i] = IF i <= Len(queue) THEN queue[i] ELSE new[i - Len(queue)]
    BY <1>5, ConcatProperties
  <2>6. BytesUpTo(gs, k) + Len(received) + Len(w) = before
    BY <1>2
  <2> HIDE DEF before, q
  <2>4. ASSUME NEW i \in 1..(Len(q) - m)
        PROVE  IsByte(gs, q[m + i], before + i)
    <3>0. m + i \in 1..(Len(queue) + size) /\ i \in Nat \ {0}
      BY <1>4, <1>6, <2>3
    <3>1. CASE m + i <= Len(queue)
      <4>1. i \in 1..(Len(queue) - m) /\ m + i \in 1..Len(queue)
        BY <1>6, <3>0, <3>1
      <4>2. q[m + i] = queue[m + i]
        BY <2>3, <3>0, <3>1
      <4> QED
        BY <1>1, <1>6, <2>1, <4>1, <4>2
    <3>2. CASE ~(m + i <= Len(queue))
      <4> DEFINE j == (m + i) - Len(queue)
      <4>1. j \in 1..size
        BY <1>4, <1>6, <3>0, <3>2, PastFirst
      <4>4. BytesUpTo(fs, Len(fs)) + j = before + i
        BY <1>6, <2>1, <2>2, <3>0
      <4>2. q[m + i] = new[j]
        BY <2>3, <3>0, <3>2
      <4> HIDE DEF j
      <4>3. IsByte(gs, new[j], BytesUpTo(fs, Len(fs)) + j)
        BY <1>1, <1>5, <4>1
      <4> QED
        BY <4>4, <4>2, <4>3
    <3> QED
      BY <3>1, <3>2
  <2>5. BytesUpTo(gs, Len(gs)) = before + (Len(q) - m)
    BY <1>1, <1>2, <1>3, <1>4, <1>6, <2>1, <2>2, <2>3
  <2>7. BytesLinked(gs, k, received, w, q, m)
    BY <2>4, <2>5, <2>6 DEF BytesLinked
  <2> QED
    BY <2>7 DEF q
<1> QED
  BY <1>7, <1>8 DEF gs, new

\* transfer_data: n bytes of the queue are written.
LEMMA BytesWritten ==
    ASSUME NEW fs \in Seq(Frame), NEW k \in 0..Len(fs),
           NEW received \in Seq(Nat \X Nat), NEW w \in Seq(Carrier),
           NEW queue \in Seq(Nat \X Nat), NEW m \in 0..Len(queue),
           NEW n \in Nat, m + n <= Len(queue), NEW chunk \in Seq(Carrier), Len(chunk) = n,
           \A i \in 1..n : chunk[i].byte = queue[m + i],
           BytesFlow(fs, k, received, w), BytesLinked(fs, k, received, w, queue, m)
    PROVE  /\ BytesFlow(fs, k, received, w \o chunk)
           /\ BytesLinked(fs, k, received, w \o chunk, queue, m + n)
<1> DEFINE before == BytesUpTo(fs, k) + Len(received)
<1>1. /\ BytesUpTo(fs, k) \in Nat /\ Len(received) \in Nat /\ Len(w) \in Nat /\ Len(queue) \in Nat
      /\ m \in Nat
  BY FrameSums
<1>2. before \in Nat
  BY <1>1
<1>3. /\ Len(w \o chunk) = Len(w) + n
      /\ \A i \in 1..(Len(w) + n) :
            (w \o chunk)[i] = IF i <= Len(w) THEN w[i] ELSE chunk[i - Len(w)]
  BY ConcatProperties
<1>4. /\ \A i \in 1..Len(received) : IsByte(fs, received[i], BytesUpTo(fs, k) + i)
      /\ \A i \in 1..Len(w) : IsByte(fs, w[i].byte, before + i)
  BY DEF BytesFlow
<1>5. /\ \A i \in 1..(Len(queue) - m) : IsByte(fs, queue[m + i], before + Len(w) + i)
      /\ BytesUpTo(fs, Len(fs)) = before + Len(w) + (Len(queue) - m)
  BY DEF BytesLinked
<1> HIDE DEF before
<1>6. ASSUME NEW i \in 1..(Len(w) + n) PROVE IsByte(fs, (w \o chunk)[i].byte, before + i)
  <2>1. CASE i <= Len(w)
    <3>1. i \in 1..Len(w) /\ (w \o chunk)[i] = w[i]
      BY <1>1, <1>3, <2>1
    <3> QED
      BY <1>4, <3>1
  <2>2. CASE ~(i <= Len(w))
    <3> DEFINE j == i - Len(w)
    <3>0. j \in 1..n /\ j \in Nat \ {0} /\ Len(w) + j = i
      BY <1>1, <2>2, PastFirst
    <3>1. j \in 1..n /\ j \in 1..(Len(queue) - m) /\ before + Len(w) + j = before + i
      <4> HIDE DEF j
      <4>1. j <= n
        BY <3>0
      <4>2. j \in 1..(Len(queue) - m)
        BY <1>1, <3>0, <4>1
      <4>3. before + Len(w) + j = before + i
        <5> DEFINE l == Len(w)
        <5>1. l \in Nat /\ j \in Nat /\ before \in Nat /\ l + j = i
          BY <1>1, <1>2, <3>0
        <5> HIDE DEF l
        <5>2. (before + l) + j = before + (l + j)
          BY <5>1
        <5> QED
          BY <5>1, <5>2 DEF l
      <4> QED
        BY <3>0, <4>2, <4>3
    <3>2. (w \o chunk)[i] = chunk[j]
      BY <1>3, <2>2
    <3> HIDE DEF j
    <3>3. chunk[j].byte = queue[m + j]
      BY <3>1
    <3> QED
      BY <1>5, <3>1, <3>2, <3>3
  <2> QED
    BY <2>1, <2>2
<1>7. BytesFlow(fs, k, received, w \o chunk)
  BY <1>3, <1>4, <1>6 DEF BytesFlow, before
<1>8. ASSUME NEW i \in 1..(Len(queue) - (m + n))
      PROVE  IsByte(fs, queue[(m + n) + i], before + (Len(w) + n) + i)
  <2>1. n + i \in 1..(Len(queue) - m) /\ before + Len(w) + (n + i) = before + (Len(w) + n) + i
    BY <1>1, <1>2
  <2>2. m + (n + i) = (m + n) + i
    BY <1>1
  <2>3. IsByte(fs, queue[m + (n + i)], before + Len(w) + (n + i))
    BY <1>5, <2>1
  <2> QED
    BY <2>1, <2>2, <2>3
<1>9. BytesUpTo(fs, Len(fs)) = before + (Len(w) + n) + (Len(queue) - (m + n))
  BY <1>1, <1>2, <1>5
<1>10. BytesLinked(fs, k, received, w \o chunk, queue, m + n)
  BY <1>3, <1>8, <1>9 DEF BytesLinked, before
<1> QED
  BY <1>7, <1>10

\* SendQueue::discard: what was written leaves the queue.
LEMMA BytesDiscarded ==
    ASSUME NEW fs, NEW k, NEW received, NEW w, NEW queue \in Seq(Nat \X Nat), NEW m \in 0..Len(queue),
           BytesLinked(fs, k, received, w, queue, m)
    PROVE  BytesLinked(fs, k, received, w, Drop(queue, m), 0)
<1> DEFINE d == Drop(queue, m)
<1>1. Len(queue) \in Nat /\ m \in Nat /\ m <= Len(queue)
  OBVIOUS
<1>2. Len(d) = Len(queue) - m /\ \A i \in 1..Len(d) : d[i] = queue[m + i]
  BY <1>1, DropType
<1> HIDE DEF d
<1>3. Len(d) - 0 = Len(queue) - m /\ \A i \in 1..(Len(queue) - m) : d[0 + i] = queue[m + i]
  BY <1>1, <1>2
<1> QED
  BY <1>3 DEF BytesLinked, d

\* receive_message: n bytes come from the wire.
LEMMA BytesReceived ==
    ASSUME NEW fs \in Seq(Frame), NEW k \in 0..Len(fs),
           NEW received \in Seq(Nat \X Nat), NEW w \in Seq(Carrier), NEW n \in 0..Len(w),
           NEW data \in Seq(Nat \X Nat), Len(data) = n, \A i \in 1..n : data[i] = w[i].byte,
           BytesFlow(fs, k, received, w)
    PROVE  /\ BytesFlow(fs, k, received \o data, Drop(w, n))
           /\ \A queue, m : BytesLinked(fs, k, received, w, queue, m) =>
                BytesLinked(fs, k, received \o data, Drop(w, n), queue, m)
<1> DEFINE b == BytesUpTo(fs, k)
           d == Drop(w, n)
           r == received \o data
           R == Len(received)
<1>1. b \in Nat /\ R \in Nat /\ Len(w) \in Nat /\ n \in Nat /\ n <= Len(w)
  BY FrameSums
<1>2. Len(d) = Len(w) - n /\ \A i \in 1..Len(d) : d[i] = w[n + i]
  BY <1>1, DropType
<1>3. Len(r) = R + n /\ \A i \in 1..(R + n) : r[i] = IF i <= R THEN received[i] ELSE data[i - R]
  BY ConcatProperties
<1>4. /\ \A i \in 1..R : IsByte(fs, received[i], b + i)
      /\ \A i \in 1..Len(w) : IsByte(fs, w[i].byte, b + R + i)
  BY DEF BytesFlow
<1> HIDE DEF b, d, r, R
<1>5. ASSUME NEW i \in 1..(R + n) PROVE IsByte(fs, r[i], b + i)
  <2>1. CASE i <= R
    <3>1. i \in 1..R /\ r[i] = received[i]
      BY <1>1, <1>3, <2>1
    <3> QED
      BY <1>4, <3>1
  <2>2. CASE ~(i <= R)
    <3> DEFINE j == i - R
    <3>1. j \in 1..n /\ j \in 1..Len(w) /\ b + R + j = b + i
      BY <1>1, <2>2
    <3>2. r[i] = data[j]
      BY <1>3, <2>2
    <3> HIDE DEF j
    <3> QED
      BY <1>4, <3>1, <3>2
  <2> QED
    BY <2>1, <2>2
<1>6. ASSUME NEW i \in 1..Len(d) PROVE IsByte(fs, d[i].byte, b + Len(r) + i)
  <2>1. n + i \in 1..Len(w) /\ b + R + (n + i) = b + Len(r) + i
    BY <1>1, <1>2, <1>3
  <2> QED
    BY <1>2, <1>4, <2>1
<1>7. BytesFlow(fs, k, r, d)
  BY <1>3, <1>5, <1>6 DEF BytesFlow, b
<1>8. b + Len(r) + Len(d) = b + R + Len(w)
  BY <1>1, <1>2, <1>3
<1>9. ASSUME NEW queue, NEW m, BytesLinked(fs, k, received, w, queue, m)
      PROVE  BytesLinked(fs, k, r, d, queue, m)
  BY <1>8, <1>9 DEF BytesLinked, b, R
<1> QED
  BY <1>7, <1>9 DEF r, d

\* A frame has a header and descriptors.
LEMMA FrameTypes ==
    ASSUME NEW fs \in Seq(Frame), NEW n \in 1..Len(fs)
    PROVE  /\ fs[n] \in Frame /\ fs[n].payload_size \in Nat /\ fs[n].fd_count \in Nat
           /\ fs[n].fds \in Seq(Nat) /\ fs[n].type \in {"Payload", "Acknowledgement"}
<1>1. fs[n] \in Frame
  BY ElementOfSeq
<1> QED
  BY <1>1 DEF Frame

\* A middle part of a sequence.
LEMMA MiddlePart ==
    ASSUME NEW S, NEW s \in Seq(S), NEW a \in Nat, NEW p \in Nat, a + p <= Len(s)
    PROVE  /\ SubSeq(s, a + 1, a + p) \in Seq(S) /\ Len(SubSeq(s, a + 1, a + p)) = p
           /\ \A i \in 1..p : SubSeq(s, a + 1, a + p)[i] = s[a + i]
  OBVIOUS

\* read_incoming_messages: a header that is complete is the next frame's ...
LEMMA HeaderIsNext ==
    ASSUME NEW fs \in Seq(Frame), NEW k \in 0..Len(fs), NEW received \in Seq(Nat \X Nat), NEW w,
           HeaderSize <= Len(received), BytesFlow(fs, k, received, w)
    PROVE  k < Len(fs) /\ k + 1 \in 1..Len(fs) /\ received[1] = <<k + 1, 1>>
<1>1. 1 \in 1..Len(received)
  BY SizeAssumption DEF SizeAssumption
<1>2. IsByte(fs, received[1], BytesUpTo(fs, k) + 1) /\ received[1] \in Nat \X Nat
  BY <1>1, ElementOfSeq DEF BytesFlow
<1>3. /\ k < Len(fs) /\ k + 1 \in 1..Len(fs)
      /\ 1 <= HeaderSize + fs[k + 1].payload_size => received[1] = <<k + 1, 1>>
  BY <1>2, ByteOfFrame
<1>4. fs[k + 1].payload_size \in Nat
  BY <1>3, FrameTypes
<1>5. 1 <= HeaderSize + fs[k + 1].payload_size
  <2>1. HeaderSize \in Nat \ {0}
    BY SizeAssumption DEF SizeAssumption
  <2> DEFINE p == fs[k + 1].payload_size
  <2>2. p \in Nat
    BY <1>4
  <2> HIDE DEF p
  <2>3. 1 <= HeaderSize + p
    BY <2>1, <2>2
  <2> QED
    BY <2>3 DEF p
<1> QED
  BY <1>3, <1>5

\* ... and its bytes leave.
LEMMA BytesParsed ==
    ASSUME NEW fs \in Seq(Frame), NEW k \in 0..Len(fs), k + 1 \in 1..Len(fs),
           NEW received \in Seq(Nat \X Nat), NEW w \in Seq(Carrier),
           HeaderSize + fs[k + 1].payload_size <= Len(received), BytesFlow(fs, k, received, w)
    PROVE  LET size == HeaderSize + fs[k + 1].payload_size IN
           /\ SubSeq(received, HeaderSize + 1, size) = Intended(fs, k + 1).bytes
           /\ BytesFlow(fs, k + 1, Drop(received, size), w)
           /\ \A queue, m : BytesLinked(fs, k, received, w, queue, m) =>
                BytesLinked(fs, k + 1, Drop(received, size), w, queue, m)
<1> DEFINE p == fs[k + 1].payload_size
           size == HeaderSize + p
           b == BytesUpTo(fs, k)
           r == Drop(received, size)
           s == SubSeq(received, HeaderSize + 1, size)
<1>1. p \in Nat /\ HeaderSize \in Nat \ {0}
  BY FrameTypes, SizeAssumption DEF SizeAssumption
<1>2. size \in Nat /\ size <= Len(received) /\ HeaderSize <= size
  <2>1. size <= Len(received)
    OBVIOUS
  <2> HIDE DEF p
  <2>2. size \in Nat /\ HeaderSize <= size
    BY <1>1
  <2> QED
    BY <2>1, <2>2
<1>3. b \in Nat /\ BytesUpTo(fs, k + 1) = b + size
  <2>1. b \in Nat
    BY FrameSums
  <2>2. (k + 1) - 1 = k
    OBVIOUS
  <2>3. BytesUpTo(fs, k + 1) = BytesUpTo(fs, (k + 1) - 1) + (HeaderSize + fs[k + 1].payload_size)
    BY FrameSums
  <2> QED
    BY <2>1, <2>2, <2>3
<1>4. Len(r) = Len(received) - size /\ \A i \in 1..Len(r) : r[i] = received[size + i]
  BY <1>2, DropType
<1>5. /\ \A i \in 1..Len(received) : IsByte(fs, received[i], b + i)
      /\ \A i \in 1..Len(w) : IsByte(fs, w[i].byte, b + Len(received) + i)
  BY DEF BytesFlow
<1>6. s = Intended(fs, k + 1).bytes
  <2>1. \A i \in 1..size : received[i] = <<k + 1, i>>
    <3>1. SUFFICES ASSUME NEW i \in 1..size PROVE received[i] = <<k + 1, i>>
      OBVIOUS
    <3>2. i \in 1..Len(received) /\ i \in Nat \ {0} /\ i <= HeaderSize + fs[k + 1].payload_size
      BY <1>2
    <3>3. received[i] \in Nat \X Nat
      BY <3>2, ElementOfSeq
    <3>4. IsByte(fs, received[i], BytesUpTo(fs, k) + i)
      BY <1>5, <3>2
    <3>5. i <= HeaderSize + fs[k + 1].payload_size => received[i] = <<k + 1, i>>
      <4> DEFINE x == received[i]
      <4>1. x \in Nat \X Nat /\ IsByte(fs, x, BytesUpTo(fs, k) + i) /\ i \in Nat \ {0}
        BY <3>2, <3>3, <3>4
      <4> HIDE DEF x
      <4>2. i <= HeaderSize + fs[k + 1].payload_size => x = <<k + 1, i>>
        BY <4>1, ByteOfFrame
      <4> QED
        BY <4>2 DEF x
    <3> QED
      BY <3>2, <3>5
  <2> HIDE DEF p
  <2>2. s \in Seq(Nat \X Nat) /\ Len(s) = p /\ \A i \in 1..p : s[i] = received[HeaderSize + i]
    <3>1. HeaderSize \in Nat /\ p \in Nat /\ HeaderSize + p <= Len(received)
      BY <1>1, <1>2
    <3> QED
      BY <3>1, MiddlePart
  <2>3. \A i \in 1..p : s[i] = <<k + 1, HeaderSize + i>>
    <3>1. SUFFICES ASSUME NEW i \in 1..p PROVE s[i] = <<k + 1, HeaderSize + i>>
      OBVIOUS
    <3>2. HeaderSize + i \in 1..size
      BY <1>1
    <3> QED
      BY <2>1, <2>2, <3>2
  <2> HIDE DEF s
  <2>4. s = [i \in 1..p |-> s[i]]
    BY <2>2
  <2>5. s = [i \in 1..p |-> <<k + 1, HeaderSize + i>>]
    BY <2>3, <2>4
  <2> QED
    BY <2>5 DEF Intended, p
<1> HIDE DEF r, size
<1>7. BytesFlow(fs, k + 1, r, w)
  <2>1. ASSUME NEW i \in 1..Len(r) PROVE IsByte(fs, r[i], BytesUpTo(fs, k + 1) + i)
    <3> HIDE DEF b
    <3>1. size + i \in 1..Len(received)
      BY <1>2, <1>4
    <3>2. b + (size + i) = (b + size) + i
      BY <1>2, <1>3, SumsAssociate
    <3> QED
      BY <1>3, <1>4, <1>5, <3>1, <3>2
  <2>2. BytesUpTo(fs, k + 1) + Len(r) = b + Len(received)
    <3> HIDE DEF b
    <3> QED
      BY <1>2, <1>3, <1>4
  <2>3. \A i \in 1..Len(w) : IsByte(fs, w[i].byte, BytesUpTo(fs, k + 1) + Len(r) + i)
    BY <1>5, <2>2
  <2> QED
    BY <2>1, <2>3 DEF BytesFlow
<1>8. ASSUME NEW queue, NEW m, BytesLinked(fs, k, received, w, queue, m)
      PROVE  BytesLinked(fs, k + 1, r, w, queue, m)
  <2>1. BytesUpTo(fs, k + 1) + Len(r) = BytesUpTo(fs, k) + Len(received)
    <3> HIDE DEF b
    <3>1. BytesUpTo(fs, k + 1) + Len(r) = b + Len(received)
      BY <1>2, <1>3, <1>4
    <3> QED
      BY <3>1 DEF b
  <2> QED
    BY <1>8, <2>1 DEF BytesLinked
<1> QED
  BY <1>6, <1>7, <1>8 DEF r, size, p, s
-----------------------------------------------------------------------------
(* What they do to its descriptors.                                        *)

\* What is on the wire: bytes, and the numbers of descriptors that came with them.
LEMMA WireNumbers ==
    ASSUME NEW w \in Seq(Carrier)
    PROVE  /\ Len(w) \in Nat /\ WireFds(w) \in Seq(Nat) /\ Len(WireFds(w)) = Len(w)
           /\ \A i \in 1..Len(w) : /\ WireFds(w)[i] = Len(w[i].fds) /\ Len(w[i].fds) \in Nat
                                   /\ w[i].fds \in Seq(Nat) /\ w[i].byte \in Nat \X Nat
           /\ Totals(WireFds(w))[0] = 0 /\ \A i \in 0..Len(w) : Totals(WireFds(w))[i] \in Nat
           /\ \A i \in 1..Len(w) :
                Totals(WireFds(w))[i] = Totals(WireFds(w))[i - 1] + Len(w[i].fds)
<1>1. Len(w) \in Nat
  OBVIOUS
<1>2. \A i \in 1..Len(w) : w[i] \in Carrier
  BY ElementOfSeq
<1>3. \A i \in 1..Len(w) : w[i].fds \in Seq(Nat) /\ w[i].byte \in Nat \X Nat
  BY <1>2 DEF Carrier
<1>4. \A i \in 1..Len(w) : Len(w[i].fds) \in Nat
  BY <1>3, LenProperties
<1>5. WireFds(w) \in [1..Len(w) -> Nat] /\ \A i \in 1..Len(w) : WireFds(w)[i] = Len(w[i].fds)
  BY <1>4 DEF WireFds
<1>6. WireFds(w) \in Seq(Nat) /\ Len(WireFds(w)) = Len(w)
  BY <1>1, <1>5, FunctionIsSequence
<1>7. /\ Totals(WireFds(w))[0] = 0
      /\ \A i \in 0..Len(w) : Totals(WireFds(w))[i] \in Nat
      /\ \A i \in 1..Len(w) : Totals(WireFds(w))[i] = Totals(WireFds(w))[i - 1] + WireFds(w)[i]
  BY <1>6, TotalsValues
<1> QED
  BY <1>1, <1>3, <1>4, <1>5, <1>6, <1>7

\* Sums over a wire that has got longer at its end, or lost its front.
LEMMA WireConcat ==
    ASSUME NEW w \in Seq(Carrier), NEW v \in Seq(Carrier)
    PROVE  /\ w \o v \in Seq(Carrier) /\ Len(w \o v) = Len(w) + Len(v)
           /\ \A i \in 1..Len(w) : (w \o v)[i] = w[i]
           /\ \A i \in 1..Len(v) : (w \o v)[Len(w) + i] = v[i]
           /\ \A i \in 0..Len(w) : Totals(WireFds(w \o v))[i] = Totals(WireFds(w))[i]
           /\ \A i \in 0..Len(v) : Totals(WireFds(w \o v))[Len(w) + i] =
                Totals(WireFds(w))[Len(w)] + Totals(WireFds(v))[i]
<1> DEFINE c == w \o v
           L == Len(w)
           K == Len(v)
           z == WireFds(c)
           y == WireFds(w)
           x == WireFds(v)
<1>1. L \in Nat /\ K \in Nat
  OBVIOUS
<1>2. c \in Seq(Carrier) /\ Len(c) = L + K
  BY ConcatProperties
<1>3. \A i \in 1..L : c[i] = w[i]
  BY ConcatProperties
<1>4. \A i \in 1..K : c[L + i] = v[i] /\ L + i \in 1..(L + K)
  BY ConcatProperties
<1> HIDE DEF c
<1>5. /\ z \in Seq(Nat) /\ Len(z) = L + K
      /\ \A i \in 1..(L + K) : z[i] = Len(c[i].fds)
      /\ Totals(z)[0] = 0 /\ \A i \in 0..(L + K) : Totals(z)[i] \in Nat
  BY <1>2, WireNumbers
<1>6. /\ y \in Seq(Nat) /\ Len(y) = L /\ \A i \in 1..L : y[i] = Len(w[i].fds)
      /\ \A i \in 0..L : Totals(y)[i] \in Nat
  BY WireNumbers
<1>7. x \in Seq(Nat) /\ Len(x) = K /\ \A i \in 1..K : x[i] = Len(v[i].fds)
  BY WireNumbers
<1> HIDE DEF z, y, x, L, K
<1>8. ASSUME NEW i \in 1..L PROVE y[i] = z[0 + i]
  <2>1. 0 + i = i /\ i \in 1..(L + K)
    BY <1>1
  <2> QED
    BY <1>3, <1>5, <1>6, <2>1
<1>9. \A i \in 1..K : x[i] = z[L + i]
  BY <1>1, <1>4, <1>5, <1>7
<1>10. ASSUME NEW i \in 0..L PROVE Totals(z)[i] = Totals(y)[i]
  <2>1. 0 \in 0..Len(z) /\ i \in 0..Len(y) /\ 0 + i <= Len(z) /\ 0 + i = i /\ i \in 0..(L + K)
    BY <1>1, <1>5, <1>6
  <2>2. \A j \in 1..i : y[j] = z[0 + j]
    BY <1>1, <1>8
  <2>3. Totals(z)[0 + i] = Totals(z)[0] + Totals(y)[i]
    BY <1>5, <1>6, <2>1, <2>2, TotalsOfPart
  <2>4. Totals(y)[i] \in Nat
    BY <1>6
  <2> QED
    BY <1>5, <2>1, <2>3, <2>4
<1>11. ASSUME NEW i \in 0..K PROVE Totals(z)[L + i] = Totals(y)[L] + Totals(x)[i]
  <2>1. L \in 0..Len(z) /\ i \in 0..Len(x) /\ L + i <= Len(z) /\ L \in 0..L
    BY <1>1, <1>5, <1>7
  <2>2. \A j \in 1..i : x[j] = z[L + j]
    BY <1>1, <1>9
  <2>3. Totals(z)[L + i] = Totals(z)[L] + Totals(x)[i]
    BY <1>5, <1>7, <2>1, <2>2, TotalsOfPart
  <2> QED
    BY <1>10, <2>1, <2>3
<1> QED
  BY <1>2, <1>3, <1>4, <1>10, <1>11 DEF c, z, y, x, L, K

\* recvmsg takes n bytes off the wire: the descriptors of the rest add up as before.
LEMMA WireDrop ==
    ASSUME NEW w \in Seq(Carrier), NEW n \in 0..Len(w)
    PROVE  /\ Drop(w, n) \in Seq(Carrier) /\ Len(Drop(w, n)) = Len(w) - n
           /\ \A i \in 1..(Len(w) - n) : Drop(w, n)[i] = w[n + i] /\ n + i \in 1..Len(w)
           /\ \A i \in 0..(Len(w) - n) : Totals(WireFds(w))[n + i] =
                Totals(WireFds(w))[n] + Totals(WireFds(Drop(w, n)))[i]
<1> DEFINE d == Drop(w, n)
           z == WireFds(w)
           y == WireFds(d)
<1>1. Len(w) \in Nat /\ n \in Nat /\ n <= Len(w)
  OBVIOUS
<1>2. /\ d \in Seq(Carrier) /\ Len(d) = Len(w) - n
      /\ \A i \in 1..Len(d) : d[i] = w[n + i] /\ n + i \in 1..Len(w)
  BY <1>1, DropType
<1> HIDE DEF d
<1>3. z \in Seq(Nat) /\ Len(z) = Len(w) /\ \A i \in 1..Len(w) : z[i] = Len(w[i].fds)
  BY WireNumbers
<1>4. y \in Seq(Nat) /\ Len(y) = Len(d) /\ \A i \in 1..Len(d) : y[i] = Len(d[i].fds)
  BY <1>2, WireNumbers
<1> HIDE DEF z, y
<1>5. \A i \in 1..Len(d) : y[i] = z[n + i]
  BY <1>2, <1>3, <1>4
<1>6. ASSUME NEW i \in 0..Len(d) PROVE Totals(z)[n + i] = Totals(z)[n] + Totals(y)[i]
  <2>1. n \in 0..Len(z) /\ i \in 0..Len(y) /\ n + i <= Len(z)
    BY <1>1, <1>2, <1>3, <1>4
  <2>2. \A j \in 1..i : y[j] = z[n + j]
    BY <1>1, <1>2, <1>5
  <2> QED
    BY <1>3, <1>4, <2>1, <2>2, TotalsOfPart
<1> QED
  BY <1>2, <1>6 DEF d, z, y

\* enqueue_message: the descriptors of a frame more.
LEMMA FdsEnqueued ==
    ASSUME NEW fs \in Seq(Frame), NEW f \in Frame, NEW k \in 0..Len(fs),
           NEW received \in Seq(Nat), NEW w \in Seq(Carrier),
           NEW queue \in Seq(Nat), NEW m \in 0..Len(queue),
           \A i \in 1..Len(f.fds) : f.fds[i] = FdsUpTo(fs, Len(fs)) + i
    PROVE  /\ FdsFlow(fs, k, received, w) => FdsFlow(Append(fs, f), k, received, w)
           /\ FdsLinked(fs, k, received, w, queue, m) =>
                FdsLinked(Append(fs, f), k, received, w, queue \o f.fds, m)
<1> DEFINE gs == Append(fs, f)
           size == Len(f.fds)
<1>1. f.fds \in Seq(Nat) /\ size \in Nat
  BY LenProperties DEF Frame
<1>2. /\ FdsUpTo(gs, k) = FdsUpTo(fs, k) /\ Len(gs) = Len(fs) + 1 /\ gs \in Seq(Frame)
      /\ FdsUpTo(gs, Len(fs)) = FdsUpTo(fs, Len(fs)) /\ gs[Len(fs) + 1] = f
      /\ Len(fs) \in Nat
  BY FrameSumsAppend
<1>3. /\ FdsUpTo(fs, k) \in Nat /\ FdsUpTo(fs, Len(fs)) \in Nat
  BY FrameSums
<1>4. Totals(WireFds(w))[Len(w)] \in Nat
  BY WireNumbers
<1>5. Len(received) \in Nat /\ Len(queue) \in Nat /\ m \in Nat /\ m <= Len(queue)
  OBVIOUS
<1> HIDE DEF gs
<1>6. FdsUpTo(gs, Len(gs)) = FdsUpTo(fs, Len(fs)) + size
  <2>1. Len(gs) \in 1..Len(gs) /\ Len(gs) - 1 = Len(fs)
    BY <1>2
  <2>2. FdsUpTo(gs, Len(gs)) = FdsUpTo(gs, Len(gs) - 1) + Len(gs[Len(gs)].fds)
    BY <1>2, <2>1, FrameSums
  <2> QED
    BY <1>2, <2>1, <2>2
<1>7. ASSUME FdsFlow(fs, k, received, w) PROVE FdsFlow(gs, k, received, w)
  <2>1. FdsUpTo(gs, k) + Len(received) + Totals(WireFds(w))[Len(w)] <= FdsUpTo(gs, Len(gs))
    <3>1. FdsUpTo(fs, k) + Len(received) + Totals(WireFds(w))[Len(w)] <= FdsUpTo(fs, Len(fs))
      BY <1>7 DEF FdsFlow
    <3> DEFINE t == Totals(WireFds(w))[Len(w)]
               a == FdsUpTo(fs, k)
               g == FdsUpTo(fs, Len(fs))
               h == FdsUpTo(gs, Len(gs))
               R == Len(received)
    <3>2. /\ t \in Nat /\ a \in Nat /\ g \in Nat /\ R \in Nat /\ size \in Nat
          /\ h = g + size /\ a + R + t <= g
      BY <1>1, <1>3, <1>4, <1>5, <1>6, <3>1
    <3> HIDE DEF t, a, g, h, R, size
    <3>3. a + R + t <= h
      BY <3>2
    <3> QED
      BY <1>2, <3>3 DEF t, a, h, R
  <2> QED
    BY <1>2, <1>7, <2>1 DEF FdsFlow
<1> HIDE DEF size
<1>8. ASSUME FdsLinked(fs, k, received, w, queue, m)
      PROVE  FdsLinked(gs, k, received, w, queue \o f.fds, m)
  <2> DEFINE before == FdsUpTo(fs, k) + Len(received) + Totals(WireFds(w))[Len(w)]
             q == queue \o f.fds
  <2>1. /\ \A i \in 1..(Len(queue) - m) : queue[m + i] = before + i
        /\ FdsUpTo(fs, Len(fs)) = before + (Len(queue) - m)
    BY <1>8 DEF FdsLinked
  <2>2. before \in Nat
    BY <1>3, <1>4, <1>5
  <2>3. /\ Len(q) = Len(queue) + size
        /\ \A i \in 1..(Len(queue) + size) :
              q[i] = IF i <= Len(queue) THEN queue[i] ELSE f.fds[i - Len(queue)]
    BY <1>1, ConcatProperties DEF size
  <2>4. FdsUpTo(gs, k) + Len(received) + Totals(WireFds(w))[Len(w)] = before
    BY <1>2
  <2> HIDE DEF before, q
  <2>5. ASSUME NEW i \in 1..(Len(q) - m) PROVE q[m + i] = before + i
    <3>0. m + i \in 1..(Len(queue) + size) /\ i \in Nat \ {0}
      BY <1>1, <1>5, <2>3
    <3>1. CASE m + i <= Len(queue)
      <4>1. i \in 1..(Len(queue) - m)
        BY <1>5, <3>0, <3>1
      <4> QED
        BY <2>1, <2>3, <3>0, <3>1, <4>1
    <3>2. CASE ~(m + i <= Len(queue))
      <4> DEFINE j == (m + i) - Len(queue)
      <4>1. j \in 1..size
        BY <1>1, <1>5, <3>0, <3>2, PastFirst
      <4>2. FdsUpTo(fs, Len(fs)) + j = before + i
        BY <1>5, <2>1, <2>2, <3>0
      <4>3. q[m + i] = f.fds[j]
        BY <2>3, <3>0, <3>2
      <4> HIDE DEF j
      <4>4. f.fds[j] = FdsUpTo(fs, Len(fs)) + j
        BY <4>1 DEF size
      <4> QED
        BY <4>2, <4>3, <4>4
    <3> QED
      BY <3>1, <3>2
  <2>6. FdsUpTo(gs, Len(gs)) = before + (Len(q) - m)
    BY <1>1, <1>3, <1>5, <1>6, <2>1, <2>2, <2>3
  <2>7. FdsLinked(gs, k, received, w, q, m)
    BY <2>4, <2>5, <2>6 DEF FdsLinked
  <2> QED
    BY <2>7 DEF q
<1> QED
  BY <1>7, <1>8 DEF gs

\* SendQueue::discard.
LEMMA FdsDiscarded ==
    ASSUME NEW fs, NEW k, NEW received, NEW w, NEW queue \in Seq(Nat), NEW m \in 0..Len(queue),
           FdsLinked(fs, k, received, w, queue, m)
    PROVE  FdsLinked(fs, k, received, w, Drop(queue, m), 0)
<1> DEFINE d == Drop(queue, m)
<1>1. Len(queue) \in Nat /\ m \in Nat /\ m <= Len(queue)
  OBVIOUS
<1>2. Len(d) = Len(queue) - m /\ \A i \in 1..Len(d) : d[i] = queue[m + i]
  BY <1>1, DropType
<1> HIDE DEF d
<1>3. Len(d) - 0 = Len(queue) - m /\ \A i \in 1..(Len(queue) - m) : d[0 + i] = queue[m + i]
  BY <1>1, <1>2
<1> QED
  BY <1>3 DEF FdsLinked, d

\* read_incoming_messages: the descriptors of the next frame leave.
LEMMA FdsParsed ==
    ASSUME NEW fs \in Seq(Frame), NEW k \in 0..Len(fs), k + 1 \in 1..Len(fs),
           NEW received \in Seq(Nat), NEW w \in Seq(Carrier),
           Len(fs[k + 1].fds) <= Len(received), FdsFlow(fs, k, received, w)
    PROVE  LET c == Len(fs[k + 1].fds) IN
           /\ SubSeq(received, 1, c) = From(FdsUpTo(fs, k), c)
           /\ FdsFlow(fs, k + 1, Drop(received, c), w)
           /\ \A queue, m : FdsLinked(fs, k, received, w, queue, m) =>
                FdsLinked(fs, k + 1, Drop(received, c), w, queue, m)
<1> DEFINE c == Len(fs[k + 1].fds)
           b == FdsUpTo(fs, k)
           R == Len(received)
           r == Drop(received, c)
<1>1. c \in Nat /\ R \in Nat /\ c \in 0..R
  BY FrameTypes, LenProperties
<1>2. b \in Nat
  BY FrameSums
<1>3. FdsUpTo(fs, k + 1) = b + c
  <2>1. (k + 1) - 1 = k
    OBVIOUS
  <2>2. FdsUpTo(fs, k + 1) = FdsUpTo(fs, (k + 1) - 1) + Len(fs[k + 1].fds)
    BY FrameSums
  <2> QED
    BY <2>1, <2>2
<1>4. received = From(b, R)
  BY DEF FdsFlow
<1> HIDE DEF c, b, R
<1>5. SubSeq(received, 1, c) = From(b, c) /\ r = From(b + c, R - c)
  BY <1>1, <1>2, <1>4, FromParts
<1>6. Len(r) = R - c
  BY <1>1, DropType DEF R
<1>7. (b + c) + Len(r) = b + R
  BY <1>1, <1>2, <1>6
<1> HIDE DEF r
<1>8. FdsFlow(fs, k + 1, r, w)
  <2>1. r = From(FdsUpTo(fs, k + 1), Len(r))
    BY <1>3, <1>5, <1>6
  <2>2. \A i \in 1..Len(w) : w[i].fds =
            From(b + R + Totals(WireFds(w))[i - 1], Len(w[i].fds))
    BY DEF FdsFlow, b, R
  <2>3. FdsUpTo(fs, k + 1) + Len(r) = b + R
    BY <1>3, <1>7
  <2>4. b + R + Totals(WireFds(w))[Len(w)] <= FdsUpTo(fs, Len(fs))
    BY DEF FdsFlow, b, R
  <2> QED
    BY <2>1, <2>2, <2>3, <2>4 DEF FdsFlow
<1>9. ASSUME NEW queue, NEW m, FdsLinked(fs, k, received, w, queue, m)
      PROVE  FdsLinked(fs, k + 1, r, w, queue, m)
  <2>1. FdsUpTo(fs, k + 1) + Len(r) = FdsUpTo(fs, k) + Len(received)
    BY <1>3, <1>7 DEF b, R
  <2> QED
    BY <1>9, <2>1 DEF FdsLinked
<1> QED
  BY <1>5, <1>8, <1>9 DEF r, c, b

\* The numbers after the first a of a sequence.
LEMMA PartToEnd ==
    ASSUME NEW s \in Seq(Nat), NEW a \in Nat, NEW b \in a..Len(s)
    PROVE  /\ SubSeq(s, a + 1, b) \in Seq(Nat) /\ Len(SubSeq(s, a + 1, b)) = b - a
           /\ \A i \in 1..(b - a) : SubSeq(s, a + 1, b)[i] = s[a + i]
  OBVIOUS

\* transfer_data: the next descriptors of the queue, up to number c, ride on the first byte.
LEMMA FdsWritten ==
    ASSUME NEW fs \in Seq(Frame), NEW k \in 0..Len(fs),
           NEW received \in Seq(Nat), NEW w \in Seq(Carrier),
           NEW queue \in Seq(Nat), NEW m \in 0..Len(queue), NEW c \in m..Len(queue),
           NEW chunk \in Seq(Carrier), Len(chunk) > 0,
           chunk[1].fds = SubSeq(queue, m + 1, c),
           \A i \in 2..Len(chunk) : chunk[i].fds = <<>>,
           FdsFlow(fs, k, received, w), FdsLinked(fs, k, received, w, queue, m)
    PROVE  /\ FdsFlow(fs, k, received, w \o chunk)
           /\ FdsLinked(fs, k, received, w \o chunk, queue, c)
<1> DEFINE n == Len(chunk)
           L == Len(w)
           T == Totals(WireFds(w))
           U == Totals(WireFds(chunk))
           v == w \o chunk
           V == Totals(WireFds(v))
           base == FdsUpTo(fs, k) + Len(received)
<1>1. /\ n \in Nat /\ n > 0 /\ L \in Nat /\ m \in Nat /\ c \in Nat /\ m <= c /\ c <= Len(queue)
      /\ Len(queue) \in Nat
  OBVIOUS
<1>2. base \in Nat
  <2>1. FdsUpTo(fs, k) \in Nat
    BY FrameSums
  <2>2. Len(received) \in Nat
    OBVIOUS
  <2> QED
    BY <2>1, <2>2
<1>3. T[L] \in Nat /\ \A i \in 0..L : T[i] \in Nat
  <2>1. \A i \in 0..L : T[i] \in Nat
    BY WireNumbers
  <2>2. L \in 0..L
    BY <1>1
  <2> QED
    BY <2>1, <2>2
<1>4. /\ v \in Seq(Carrier) /\ Len(v) = L + n
      /\ \A i \in 1..L : v[i] = w[i]
      /\ \A i \in 1..n : v[L + i] = chunk[i]
      /\ \A i \in 0..L : V[i] = T[i]
      /\ \A i \in 0..n : V[L + i] = T[L] + U[i]
  BY WireConcat
<1>5. /\ WireFds(chunk) \in Seq(Nat) /\ Len(WireFds(chunk)) = n
      /\ \A i \in 1..n : WireFds(chunk)[i] = Len(chunk[i].fds)
      /\ U[0] = 0 /\ \A i \in 0..n : U[i] \in Nat
      /\ \A i \in 1..n : U[i] = U[i - 1] + Len(chunk[i].fds)
  BY WireNumbers
<1>6. /\ received = From(FdsUpTo(fs, k), Len(received))
      /\ \A i \in 1..L : w[i].fds = From(base + T[i - 1], Len(w[i].fds))
  BY DEF FdsFlow
<1>7. /\ \A i \in 1..(Len(queue) - m) : queue[m + i] = (base + T[L]) + i
      /\ FdsUpTo(fs, Len(fs)) = (base + T[L]) + (Len(queue) - m)
  BY DEF FdsLinked
<1> HIDE DEF n, L, T, U, v, V, base
<1>8. chunk[1].fds = From(base + T[L], c - m) /\ Len(chunk[1].fds) = c - m
  <2> DEFINE s == chunk[1].fds
             p == c - m
  <2>1. p \in Nat /\ p <= Len(queue) - m
    BY <1>1
  <2>2. m \in Nat /\ c \in m..Len(queue) /\ s = SubSeq(queue, m + 1, c)
    BY <1>1
  <2>r. /\ SubSeq(queue, m + 1, c) \in Seq(Nat) /\ Len(SubSeq(queue, m + 1, c)) = p
        /\ \A i \in 1..p : SubSeq(queue, m + 1, c)[i] = queue[m + i]
    BY <2>2, PartToEnd
  <2>3. s \in Seq(Nat) /\ Len(s) = p /\ \A i \in 1..p : s[i] = queue[m + i]
    BY <2>2, <2>r
  <2> HIDE DEF s, p
  <2>4. \A i \in 1..p : i \in 1..(Len(queue) - m)
    BY <1>1, <2>1
  <2>5. base + T[L] \in Nat
    BY <1>2, <1>3
  <2>6. \A i \in 1..Len(s) : s[i] = (base + T[L]) + i
    BY <1>7, <2>3, <2>4
  <2>7. s = From(base + T[L], Len(s))
    BY <2>3, <2>5, <2>6, IsFrom
  <2> QED
    BY <2>3, <2>7 DEF s, p
<1>9. \A i \in 1..n : U[i] = c - m
  <2>1. U[1] = c - m
    <3>1. 1 \in 1..n /\ 1 - 1 = 0
      BY <1>1
    <3>2. U[1] = U[0] + Len(chunk[1].fds)
      BY <1>5, <3>1
    <3> QED
      BY <1>1, <1>5, <1>8, <3>2
  <2>2. SUFFICES ASSUME NEW i \in 1..n PROVE U[1] = U[i]
    BY <2>1
  <2>3. 1 \in 0..n /\ i \in 1..n
    BY <1>1
  <2>4. \A j \in (1 + 1)..i : WireFds(chunk)[j] = 0
    <3>1. SUFFICES ASSUME NEW j \in (1 + 1)..i PROVE WireFds(chunk)[j] = 0
      OBVIOUS
    <3>2. j \in 2..n /\ j \in 1..n
      BY <1>1
    <3>3. chunk[j].fds = <<>>
      BY <3>2 DEF n
    <3> QED
      BY <1>5, <3>2, <3>3
  <2> QED
    BY <1>5, <2>3, <2>4, TotalsGrow DEF U
<1>10. ASSUME NEW i \in 1..(L + n) PROVE v[i].fds = From(base + V[i - 1], Len(v[i].fds))
  <2>1. CASE i <= L
    <3>1. i \in 1..L /\ i - 1 \in 0..L
      BY <1>1, <2>1
    <3> QED
      BY <1>4, <1>6, <3>1
  <2>2. CASE ~(i <= L)
    <3> DEFINE j == i - L
    <3>1. j \in 1..n /\ L + j = i
      BY <1>1, <2>2, PastFirst
    <3>2. j - 1 \in 0..n /\ i - 1 = L + (j - 1)
      BY <1>1, <3>1
    <3> HIDE DEF j
    <3>3. v[i] = chunk[j] /\ V[i - 1] = T[L] + U[j - 1]
      BY <1>4, <3>1, <3>2
    <3>4. CASE j = 1
      <4>1. V[i - 1] = T[L]
        BY <1>3, <1>5, <3>3, <3>4
      <4> QED
        BY <1>8, <3>3, <3>4, <4>1
    <3>5. CASE j # 1
      <4>1. j \in 2..n
        BY <1>1, <3>1, <3>5
      <4>2. chunk[j].fds = <<>>
        BY <4>1 DEF n
      <4>3. v[i].fds = <<>> /\ Len(v[i].fds) = 0
        BY <3>3, <4>2
      <4>4. From(base + V[i - 1], 0) = <<>>
        BY DEF From
      <4> QED
        BY <4>3, <4>4
    <3> QED
      BY <3>4, <3>5
  <2> QED
    BY <2>1, <2>2
<1>12. V[L + n] = T[L] + (c - m)
  <2>1. n \in 0..n /\ n \in 1..n
    BY <1>1
  <2> QED
    BY <1>4, <1>9, <2>1
<1>13. ASSUME NEW i \in 1..(Len(queue) - c) PROVE queue[c + i] = (base + V[L + n]) + i
  <2>1. (c - m) + i \in 1..(Len(queue) - m) /\ m + ((c - m) + i) = c + i
    BY <1>1
  <2>2. queue[c + i] = (base + T[L]) + ((c - m) + i)
    BY <1>7, <2>1
  <2>3. (base + T[L]) + ((c - m) + i) = (base + (T[L] + (c - m))) + i
    <3> DEFINE t == T[L]
               d == c - m
    <3>1. d \in Nat /\ i \in Nat
      BY <1>1
    <3>2. base \in Nat /\ t \in Nat
      BY <1>2, <1>3
    <3> HIDE DEF t, d
    <3>3. (base + t) + (d + i) = (base + (t + d)) + i
      BY <3>1, <3>2
    <3> QED
      BY <3>3 DEF t, d
  <2> QED
    BY <1>12, <2>2, <2>3
<1>14. FdsUpTo(fs, Len(fs)) = (base + V[L + n]) + (Len(queue) - c)
  <2>1. (base + T[L]) + (Len(queue) - m) = (base + (T[L] + (c - m))) + (Len(queue) - c)
    <3> DEFINE t == T[L]
               d == c - m
               r == Len(queue) - c
    <3>1. d \in Nat /\ r \in Nat /\ Len(queue) - m = d + r
      BY <1>1
    <3>2. base \in Nat /\ t \in Nat
      BY <1>2, <1>3
    <3> HIDE DEF t, d, r
    <3>3. (base + t) + (d + r) = (base + (t + d)) + r
      BY <3>1, <3>2
    <3>4. (base + t) + (Len(queue) - m) = (base + (t + d)) + r
      BY <3>1, <3>3
    <3> QED
      BY <3>4 DEF t, d, r
  <2> QED
    BY <1>7, <1>12, <2>1
<1>11. base + V[L + n] <= FdsUpTo(fs, Len(fs))
  <2>1. V[L + n] \in Nat
    <3> DEFINE t == T[L]
               d == c - m
    <3>1. d \in Nat
      BY <1>1
    <3>2. t \in Nat /\ V[L + n] = t + d
      BY <1>3, <1>12
    <3> HIDE DEF t, d
    <3> QED
      BY <3>1, <3>2
  <2>2. Len(queue) - c \in Nat
    BY <1>1
  <2> DEFINE x == V[L + n]
             r == Len(queue) - c
             g == FdsUpTo(fs, Len(fs))
  <2>3. x \in Nat /\ r \in Nat /\ g = (base + x) + r
    BY <1>14, <2>1, <2>2
  <2> HIDE DEF x, r, g
  <2>4. base + x <= g
    BY <1>2, <2>3
  <2> QED
    BY <2>4 DEF x, g
<1>15. FdsFlow(fs, k, received, v)
  BY <1>4, <1>6, <1>10, <1>11 DEF FdsFlow, base, V
<1>16. FdsLinked(fs, k, received, v, queue, c)
  BY <1>4, <1>13, <1>14 DEF FdsLinked, base, V
<1> QED
  BY <1>15, <1>16 DEF v

\* What is received at once has the descriptors of all its bytes.
LEMMA FdsOfReceived ==
    ASSUME NEW w \in Seq(Carrier), NEW n \in 0..Len(w), Cardinality(CarriersIn(w, n)) <= 1
    PROVE  /\ FdsIn(w, n) \in Seq(Nat) /\ Len(FdsIn(w, n)) = Totals(WireFds(w))[n]
           /\ \A b : (\A i \in 1..n : w[i].fds =
                            From(b + Totals(WireFds(w))[i - 1], Len(w[i].fds))) /\ b \in Nat
                => FdsIn(w, n) = From(b, Len(FdsIn(w, n)))
<1> DEFINE C == CarriersIn(w, n)
           z == WireFds(w)
           T == Totals(z)
<1>1. /\ n \in Nat /\ n <= Len(w) /\ Len(w) \in Nat /\ z \in Seq(Nat) /\ Len(z) = Len(w)
      /\ \A i \in 1..Len(w) : /\ z[i] = Len(w[i].fds) /\ Len(w[i].fds) \in Nat
                              /\ w[i].fds \in Seq(Nat)
      /\ T[0] = 0 /\ \A i \in 0..Len(w) : T[i] \in Nat
      /\ \A i \in 1..Len(w) : T[i] = T[i - 1] + Len(w[i].fds)
  BY WireNumbers
<1>2. \A i \in 1..n : i \in 1..Len(w) /\ i \in Nat \ {0}
  BY <1>1
<1>3. \A i \in 1..n : i \notin C => z[i] = 0
  <2>1. SUFFICES ASSUME NEW i \in 1..n, w[i].fds = <<>> PROVE z[i] = 0
    BY DEF CarriersIn
  <2> QED
    BY <1>1, <1>2, <2>1
<1>4. CASE C = {}
  <2>1. FdsIn(w, n) = <<>> /\ Len(FdsIn(w, n)) = 0
    BY <1>4 DEF FdsIn
  <2>2. \A i \in (0 + 1)..n : z[i] = 0
    BY <1>3, <1>4
  <2>3. 0 \in 0..Len(z) /\ n \in 0..Len(z)
    BY <1>1
  <2>4. T[0] = T[n]
    BY <1>1, <2>2, <2>3, TotalsGrow
  <2>5. \A b : From(b, 0) = <<>>
    BY DEF From
  <2> QED
    BY <1>1, <2>1, <2>4, <2>5
<1>5. CASE C # {}
  <2> DEFINE c == CHOOSE i \in C : TRUE
  <2>1. c \in C
    BY <1>5
  <2>2. FdsIn(w, n) = w[c].fds
    BY <1>5 DEF FdsIn
  <2> HIDE DEF c
  <2>3. c \in 1..n /\ c \in 1..Len(w) /\ c \in Nat \ {0}
    BY <1>2, <2>1 DEF CarriersIn
  <2>4. C = {c}
    <3>1. IsFiniteSet(1..n) /\ C \subseteq 1..n
      BY <1>1, FS_Interval DEF CarriersIn
    <3>2. IsFiniteSet(C)
      BY <3>1, FS_Subset
    <3> HIDE DEF C
    <3>3. {c} \in SUBSET C /\ IsFiniteSet({c}) /\ Cardinality({c}) = 1
      BY <2>1, FS_Singleton
    <3>4. Cardinality(C) <= 1
      BY DEF C
    <3>5. Cardinality({c}) <= Cardinality(C) /\ Cardinality(C) \in Nat
      BY <3>2, <3>3, FS_Subset, FS_CardinalityType
    <3>6. Cardinality(C) = Cardinality({c})
      BY <3>3, <3>4, <3>5
    <3> QED
      BY <3>2, <3>3, <3>6, FS_Subset
  <2> HIDE DEF C
  <2>5. T[c - 1] = 0
    <3>1. 0 \in 0..Len(z) /\ c - 1 \in 0..Len(z)
      BY <1>1, <2>3
    <3>2. \A i \in (0 + 1)..(c - 1) : z[i] = 0
      <4>1. SUFFICES ASSUME NEW i \in (0 + 1)..(c - 1) PROVE z[i] = 0
        OBVIOUS
      <4>2. i \in 1..n /\ i # c
        BY <1>1, <2>3
      <4> QED
        BY <1>3, <2>4, <4>2
    <3>3. T[0] = T[c - 1]
      BY <1>1, <3>1, <3>2, TotalsGrow
    <3> QED
      BY <1>1, <3>3
  <2>6. T[c] = Len(w[c].fds)
    BY <1>1, <2>3, <2>5
  <2>7. T[n] = T[c]
    <3>1. c \in 0..Len(z) /\ n \in c..Len(z)
      BY <1>1, <2>3
    <3>2. \A i \in (c + 1)..n : z[i] = 0
      <4>1. SUFFICES ASSUME NEW i \in (c + 1)..n PROVE z[i] = 0
        OBVIOUS
      <4>2. i \in 1..n /\ i # c
        BY <1>1, <2>3
      <4> QED
        BY <1>3, <2>4, <4>2
    <3> QED
      BY <1>1, <3>1, <3>2, TotalsGrow
  <2>8. FdsIn(w, n) \in Seq(Nat) /\ Len(FdsIn(w, n)) = T[n]
    BY <1>1, <2>2, <2>3, <2>6, <2>7
  <2>9. ASSUME NEW b, \A i \in 1..n : w[i].fds = From(b + T[i - 1], Len(w[i].fds)), b \in Nat
        PROVE  FdsIn(w, n) = From(b, Len(FdsIn(w, n)))
    <3>1. w[c].fds = From(b + T[c - 1], Len(w[c].fds))
      BY <2>3, <2>9
    <3>2. b + T[c - 1] = b
      BY <2>5, <2>9
    <3> QED
      BY <2>2, <3>1, <3>2
  <2> QED
    BY <2>8, <2>9
<1> QED
  BY <1>4, <1>5

\* receive_message: n bytes come from the wire, with their descriptors.
LEMMA FdsReceived ==
    ASSUME NEW fs \in Seq(Frame), NEW k \in 0..Len(fs),
           NEW received \in Seq(Nat), NEW w \in Seq(Carrier), NEW n \in 0..Len(w),
           Cardinality(CarriersIn(w, n)) <= 1, FdsFlow(fs, k, received, w)
    PROVE  /\ FdsFlow(fs, k, received \o FdsIn(w, n), Drop(w, n))
           /\ \A queue, m : FdsLinked(fs, k, received, w, queue, m) =>
                FdsLinked(fs, k, received \o FdsIn(w, n), Drop(w, n), queue, m)
<1> DEFINE F == FdsUpTo(fs, k)
           R == Len(received)
           L == Len(w)
           new == FdsIn(w, n)
           r == received \o new
           d == Drop(w, n)
           T == Totals(WireFds(w))
           U == Totals(WireFds(d))
<1>1. F \in Nat /\ R \in Nat /\ L \in Nat /\ n \in Nat /\ n <= L
  BY FrameSums
<1>2. /\ received = From(F, R)
      /\ \A i \in 1..L : w[i].fds = From((F + R) + T[i - 1], Len(w[i].fds))
  BY DEF FdsFlow
<1>3. T[n] \in Nat
  BY WireNumbers
<1>4. new \in Seq(Nat) /\ Len(new) = T[n]
  BY FdsOfReceived
<1>5. new = From(F + R, T[n])
  <2>1. F + R \in Nat
    BY <1>1
  <2>2. \A i \in 1..n : w[i].fds = From((F + R) + T[i - 1], Len(w[i].fds))
    BY <1>1, <1>2
  <2> QED
    BY <1>4, <2>1, <2>2, FdsOfReceived
<1>6. /\ d \in Seq(Carrier) /\ Len(d) = L - n
      /\ \A i \in 1..(L - n) : d[i] = w[n + i] /\ n + i \in 1..L
      /\ \A i \in 0..(L - n) : T[n + i] = T[n] + U[i]
  BY WireDrop
<1>7. \A i \in 0..(L - n) : U[i] \in Nat
  BY <1>6, WireNumbers
<1>8. Len(r) = R + T[n]
  <2> HIDE DEF new
  <2>1. new \in Seq(Nat)
    BY <1>4
  <2>2. Len(received \o new) = Len(received) + Len(new)
    BY <2>1, ConcatProperties
  <2> QED
    BY <1>4, <2>2
<1> HIDE DEF F, R, L, new, d, T, U
<1>9. r = From(F, Len(r))
  <2>1. From(F, R) \o From(F + R, T[n]) = From(F, R + T[n])
    BY <1>1, <1>3, FromConcat
  <2> QED
    BY <1>2, <1>5, <1>8, <2>1
<1> HIDE DEF r
<1>10. ASSUME NEW i \in 0..(L - n) PROVE (F + Len(r)) + U[i] = (F + R) + T[n + i]
  <2>1. U[i] \in Nat /\ T[n + i] = T[n] + U[i]
    BY <1>6, <1>7
  <2>2. F \in Nat /\ R \in Nat
    BY <1>1
  <2>3. (F + (R + T[n])) + U[i] = (F + R) + (T[n] + U[i])
    BY <1>3, <2>1, <2>2
  <2> QED
    BY <1>8, <2>1, <2>3
<1>11. ASSUME NEW i \in 1..(L - n)
       PROVE  d[i].fds = From((F + Len(r)) + U[i - 1], Len(d[i].fds))
  <2>1. i - 1 \in 0..(L - n) /\ (n + i) - 1 = n + (i - 1)
    BY <1>1
  <2>2. w[n + i].fds = From((F + R) + T[(n + i) - 1], Len(w[n + i].fds))
    BY <1>2, <1>6
  <2>3. (F + Len(r)) + U[i - 1] = (F + R) + T[(n + i) - 1]
    BY <1>10, <2>1
  <2> QED
    BY <1>6, <2>2, <2>3
<1>13. (F + Len(r)) + U[Len(d)] = (F + R) + T[L]
  <2>1. L - n \in 0..(L - n) /\ n + (L - n) = L
    BY <1>1
  <2> QED
    BY <1>6, <1>10, <2>1
<1>12. FdsFlow(fs, k, r, d)
  <2>1. (F + R) + T[L] <= FdsUpTo(fs, Len(fs))
    BY DEF FdsFlow, F, R, L, T
  <2> QED
    BY <1>6, <1>9, <1>11, <1>13, <2>1 DEF FdsFlow, F, U
<1>14. ASSUME NEW queue, NEW m, FdsLinked(fs, k, received, w, queue, m)
       PROVE  FdsLinked(fs, k, r, d, queue, m)
  BY <1>13, <1>14 DEF FdsLinked, F, R, L, T, U
<1> QED
  BY <1>12, <1>14 DEF r, d, new
-----------------------------------------------------------------------------
(* The two ends.                                                           *)

\* There are two ends, each the peer of the other.
LEMMA OtherEnd ==
    ASSUME NEW e \in Endpoint
    PROVE  /\ Peer(e) \in Endpoint /\ Peer(e) # e /\ Peer(Peer(e)) = e
           /\ \A x \in Endpoint : x # e => x = Peer(e)
<1>1. Peer(e) \in Endpoint /\ Peer(e) # e
  BY PeerLemma
<1>2. Peer(Peer(e)) \in Endpoint /\ Peer(Peer(e)) # Peer(e)
  BY <1>1, PeerLemma
<1> QED
  BY <1>1, <1>2, EndpointAssumption DEF EndpointAssumption

\* The types of what an end keeps.
LEMMA EndTypes ==
    ASSUME IndInv, NEW e \in Endpoint
    PROVE  /\ send_bytes[e] \in Seq(Nat \X Nat) /\ send_fds[e] \in Seq(Nat)
           /\ retained_fds[e] \in Seq(Nat) /\ Len(retained_fds[e]) \in Nat
           /\ unprocessed_bytes[e] \in Seq(Nat \X Nat) /\ unprocessed_fds[e] \in Seq(Nat)
           /\ wire[e] \in Seq(Carrier) /\ frames[e] \in Seq(Frame) /\ Len(frames[e]) \in Nat
           /\ received_fd_count[e] \in Nat /\ acknowledged_fd_count[e] \in Nat
           /\ fds_posted[e] \in Nat /\ posting[e] \in Frame
           /\ delivered[e] \in Seq(Message) /\ incoming_messages[e] \in Seq(Message)
           /\ batch[e] \in Seq(Message)
<1>1. TypeOK
  BY DEF IndInv
<1>2. /\ send_bytes[e] \in Seq(Nat \X Nat) /\ send_fds[e] \in Seq(Nat) /\ retained_fds[e] \in Seq(Nat)
      /\ unprocessed_bytes[e] \in Seq(Nat \X Nat) /\ unprocessed_fds[e] \in Seq(Nat)
      /\ wire[e] \in Seq(Carrier) /\ frames[e] \in Seq(Frame)
      /\ received_fd_count[e] \in Nat /\ acknowledged_fd_count[e] \in Nat
      /\ fds_posted[e] \in Nat /\ posting[e] \in Frame
      /\ delivered[e] \in Seq(Message) /\ incoming_messages[e] \in Seq(Message)
      /\ batch[e] \in Seq(Message)
  BY <1>1 DEF TypeOK
<1> QED
  BY <1>2, LenProperties

\* Both ends keep it.
LEMMA EndFunctions ==
    ASSUME IndInv
    PROVE  /\ DOMAIN send_bytes = Endpoint /\ DOMAIN send_fds = Endpoint
           /\ DOMAIN retained_fds = Endpoint /\ DOMAIN incoming_messages = Endpoint
           /\ DOMAIN unprocessed_bytes = Endpoint /\ DOMAIN unprocessed_fds = Endpoint
           /\ DOMAIN batch = Endpoint /\ DOMAIN received_fd_count = Endpoint
           /\ DOMAIN acknowledged_fd_count = Endpoint /\ DOMAIN written = Endpoint
           /\ DOMAIN posting = Endpoint /\ DOMAIN fds_posted = Endpoint
           /\ DOMAIN wire = Endpoint /\ DOMAIN frames = Endpoint /\ DOMAIN open = Endpoint
           /\ DOMAIN delivered = Endpoint /\ DOMAIN io_pc = Endpoint
           /\ DOMAIN main_pc = Endpoint /\ DOMAIN io_thread_state = Endpoint
           /\ DOMAIN stop_op = Endpoint /\ DOMAIN peeked = Endpoint
  BY DEF IndInv, TypeOK

\* A stream that the step leaves alone.
LEMMA SameStream ==
    ASSUME NEW e \in Endpoint, \E k \in 0..Len(frames[e]) : Stream(e, k),
           frames'[e] = frames[e], wire'[e] = wire[e], send_bytes'[e] = send_bytes[e],
           send_fds'[e] = send_fds[e], written'[e] = written[e],
           unprocessed_bytes'[Peer(e)] = unprocessed_bytes[Peer(e)],
           unprocessed_fds'[Peer(e)] = unprocessed_fds[Peer(e)],
           Parsed(Peer(e))' = Parsed(Peer(e)),
           AcksUpTo(frames'[Peer(e)], Len(frames'[Peer(e)])) + received_fd_count'[Peer(e)] =
                AcksUpTo(frames[Peer(e)], Len(frames[Peer(e)])) + received_fd_count[Peer(e)],
           LetGo(Peer(e))' + acknowledged_fd_count'[Peer(e)] =
                LetGo(Peer(e)) + acknowledged_fd_count[Peer(e)],
           Ended(e) => Ended(e)', ~open[Peer(e)] => ~open'[Peer(e)]
    PROVE  \E k \in 0..Len(frames'[e]) : Stream(e, k)'
<1>1. PICK k \in 0..Len(frames[e]) : Stream(e, k)
  OBVIOUS
<1>2. Flows(e, Peer(e), k) /\ ParsedFits(e, Peer(e), k)
  BY <1>1 DEF Stream
<1>3. Links(e, Peer(e), k) \/ Ended(e) \/ ~open[Peer(e)]
  BY <1>1 DEF Stream
<1>4. Flows(e, Peer(e), k)'
  BY <1>2 DEF Flows
<1>5. ParsedFits(e, Peer(e), k)'
  BY <1>2 DEF ParsedFits
<1>6. Links(e, Peer(e), k) => Links(e, Peer(e), k)'
  BY DEF Links
<1>7. (Links(e, Peer(e), k) \/ Ended(e) \/ ~open[Peer(e)])'
  BY <1>3, <1>6
<1>8. Stream(e, k)'
  BY <1>4, <1>5, <1>7 DEF Stream
<1> QED
  BY <1>8

\* What an end has let go of, its peer has parsed.
LEMMA LetGoBounds ==
    ASSUME IndInv, StreamInv, NEW e \in Endpoint, NEW k \in 0..Len(frames[e]), Stream(e, k)
    PROVE  /\ LetGo(e) \in Nat
           /\ LetGo(e) + acknowledged_fd_count[e] <= FdsUpTo(frames[e], k)
           /\ FdsUpTo(frames[e], k) <= FdsUpTo(frames[e], Len(frames[e]))
           /\ FdsUpTo(frames[e], Len(frames[e])) <= fds_posted[e]
           /\ FdsUpTo(frames[e], k) \in Nat /\ FdsUpTo(frames[e], Len(frames[e])) \in Nat
<1> DEFINE p == Peer(e)
<1>1. p \in Endpoint /\ Peer(p) = e
  BY OtherEnd
<1>2. PICK j \in 0..Len(frames[p]) : Stream(p, j)
  BY <1>1 DEF StreamInv
<1>3. /\ AcksUpTo(frames[p], j) = LetGo(e) + acknowledged_fd_count[e]
      /\ FdsUpTo(frames[e], k) = AcksUpTo(frames[p], Len(frames[p])) + received_fd_count[p]
  BY <1>1, <1>2 DEF Stream, ParsedFits
<1>4. /\ frames[e] \in Seq(Frame) /\ frames[p] \in Seq(Frame) /\ Len(frames[e]) \in Nat
      /\ Len(frames[p]) \in Nat /\ received_fd_count[p] \in Nat /\ posting[e] \in Frame
      /\ retained_fds[e] \in Seq(Nat) /\ Len(retained_fds[e]) \in Nat /\ fds_posted[e] \in Nat
  BY <1>1, EndTypes
<1>5. /\ AcksUpTo(frames[p], j) <= AcksUpTo(frames[p], Len(frames[p]))
      /\ AcksUpTo(frames[p], j) \in Nat /\ AcksUpTo(frames[p], Len(frames[p])) \in Nat
  <2>1. Len(frames[p]) \in j..Len(frames[p]) /\ Len(frames[p]) \in 0..Len(frames[p])
    BY <1>4
  <2> QED
    BY <1>4, <2>1, FrameSumsGrow, FrameSums
<1>6. /\ FdsUpTo(frames[e], k) <= FdsUpTo(frames[e], Len(frames[e]))
      /\ FdsUpTo(frames[e], k) \in Nat /\ FdsUpTo(frames[e], Len(frames[e])) \in Nat
  <2>1. Len(frames[e]) \in k..Len(frames[e]) /\ Len(frames[e]) \in 0..Len(frames[e])
    BY <1>4
  <2> QED
    BY <1>4, <2>1, FrameSumsGrow, FrameSums
<1>7. LetGo(e) \in Nat
  <2>1. Len(retained_fds[e]) <= fds_posted[e]
    BY DEF StreamInv, EndFits, RetainedFits
  <2> QED
    BY <1>4, <2>1 DEF LetGo
<1>8. FdsUpTo(frames[e], Len(frames[e])) <= fds_posted[e]
  <2>1. fds_posted[e] = FdsUpTo(frames[e], Len(frames[e])) + posting[e].fd_count
    BY DEF StreamInv, EndFits, PostingFits
  <2>2. posting[e].fd_count \in Nat
    BY <1>4 DEF Frame
  <2> QED
    BY <1>6, <2>1, <2>2
<1>9. LetGo(e) + acknowledged_fd_count[e] <= FdsUpTo(frames[e], k)
  BY <1>3, <1>4, <1>5
<1> QED
  BY <1>6, <1>7, <1>8, <1>9

\* A step that leaves the streams alone.
Quiet ==
    /\ UNCHANGED <<send_bytes, send_fds, retained_fds, unprocessed, counts, written, posting,
                   fds_posted, wire, frames, open>>
    /\ \A x \in Endpoint :
        /\ Parsed(x)' = Parsed(x) /\ (Ended(x) => Ended(x)') /\ FdsRide(x)' /\ StopFits(x)'
        /\ main_pc'[x] # main_pc[x] =>
                main_pc[x] \notin {"enqueue", "dead"} /\ main_pc'[x] # "enqueue"

\* A step that moves neither bytes, descriptors nor messages keeps the streams as they are.
LEMMA QuietKeepsStreams ==
    ASSUME StreamInv, Quiet
    PROVE  StreamInv'
<1>1. SUFFICES ASSUME NEW e \in Endpoint
               PROVE  EndFits(e)' /\ \E k \in 0..Len(frames'[e]) : Stream(e, k)'
  BY DEF StreamInv
<1> DEFINE p == Peer(e)
<1>2. p \in Endpoint /\ Peer(p) = e
  BY OtherEnd
<1>3. /\ send_bytes' = send_bytes /\ send_fds' = send_fds /\ retained_fds' = retained_fds
      /\ unprocessed_bytes' = unprocessed_bytes /\ unprocessed_fds' = unprocessed_fds
      /\ received_fd_count' = received_fd_count /\ acknowledged_fd_count' = acknowledged_fd_count
      /\ written' = written /\ posting' = posting /\ fds_posted' = fds_posted
      /\ wire' = wire /\ frames' = frames /\ open' = open
  BY DEF Quiet, unprocessed, counts
<1>4. EndFits(e) /\ \E k \in 0..Len(frames[e]) : Stream(e, k)
  BY DEF StreamInv
<1>5. LetGo(p)' = LetGo(p)
  BY <1>3 DEF LetGo
<1>6. \E k \in 0..Len(frames'[e]) : Stream(e, k)'
  BY <1>2, <1>3, <1>4, <1>5, SameStream DEF Quiet
<1>7. PostingFits(e)'
  <2>1. PostingFits(e)
    BY <1>4 DEF EndFits
  <2>2. main_pc'[e] # main_pc[e] =>
                main_pc[e] \notin {"enqueue", "dead"} /\ main_pc'[e] # "enqueue"
    BY DEF Quiet
  <2> QED
    BY <1>3, <2>1, <2>2 DEF PostingFits
<1>8. RetainedFits(e)'
  BY <1>3, <1>4 DEF EndFits, RetainedFits, LetGo
<1>9. FdsRide(e)' /\ StopFits(e)'
  BY DEF Quiet
<1>10. (\A n \in 1..Len(frames[e]) : FrameFits(frames[e], n))'
  BY <1>3, <1>4 DEF EndFits
<1>11. EndFits(e)'
  BY <1>7, <1>8, <1>9, <1>10 DEF EndFits
<1> QED
  BY <1>6, <1>11

\* Steps of the IO thread that leave the streams alone.
LEMMA IoIsQuiet ==
    ASSUME IndInv, StreamInv, NEW e \in Endpoint, NEW from, NEW to, IoStep(e, from, to),
           UNCHANGED <<send_bytes, send_fds, retained_fds, unprocessed, counts, written, posting,
                       fds_posted, wire, frames, open, stop_op>>,
           \A x \in Endpoint : Parsed(x)' = Parsed(x),
           to = "send" => written[e] = Nothing,
           \A x \in Endpoint : x # e => peeked'[x] = peeked[x] /\ io_thread_state'[x] = io_thread_state[x],
           from \in Ending => to \in Ending,
           from \in {"peek", "load"} /\ io_thread_state[e] = "Stopped" =>
                \/ to \in Ending
                \/ to \in {"peek", "load"} /\ io_thread_state'[e] = "Stopped",
           UNCHANGED main_pc \/ Broadcast(e)
    PROVE  Quiet
<1>1. /\ DOMAIN io_pc = Endpoint /\ DOMAIN main_pc = Endpoint
  BY EndFunctions
<1>2. io_pc[e] = from /\ io_pc'[e] = to /\ \A x \in Endpoint : x # e => io_pc'[x] = io_pc[x]
  BY <1>1 DEF IoStep
<1>3. \A x \in Endpoint : \/ main_pc'[x] = main_pc[x]
                          \/ main_pc[x] = "blocked" /\ main_pc'[x] = "woken"
  BY <1>1 DEF Broadcast
<1>4. written' = written /\ stop_op' = stop_op
  OBVIOUS
<1>5. ASSUME NEW x \in Endpoint, Ended(x) PROVE Ended(x)'
  <2>1. CASE x = e
    BY <1>2, <1>5, <2>1 DEF Ended
  <2>2. CASE x # e
    BY <1>2, <1>5, <2>2 DEF Ended
  <2> QED
    BY <2>1, <2>2
<1>6. ASSUME NEW x \in Endpoint PROVE FdsRide(x)'
  <2>1. CASE x = e
    <3>1. to = "send" => written'[e].bytes = 0 /\ written'[e].fds = 0
      BY <1>4 DEF Nothing
    <3> QED
      BY <1>2, <2>1, <3>1 DEF FdsRide
  <2>2. CASE x # e
    <3>1. FdsRide(x)
      BY DEF StreamInv, EndFits
    <3> QED
      BY <1>2, <1>4, <2>2, <3>1 DEF FdsRide
  <2> QED
    BY <2>1, <2>2
<1>7. ASSUME NEW x \in Endpoint PROVE StopFits(x)'
  <2>1. StopFits(x)
    BY DEF StreamInv, EndFits
  <2> QED
    BY <1>3, <1>4, <2>1 DEF StopFits, Stopping
<1>8. \A x \in Endpoint : main_pc'[x] # main_pc[x] =>
                main_pc[x] \notin {"enqueue", "dead"} /\ main_pc'[x] # "enqueue"
  BY <1>3
<1> QED
  BY <1>5, <1>6, <1>7, <1>8 DEF Quiet

\* Steps of the main thread that leave them alone.
LEMMA MainIsQuiet ==
    ASSUME IndInv, StreamInv, NEW e \in Endpoint, NEW from, NEW to, MainStep(e, from, to),
           UNCHANGED <<send_bytes, send_fds, retained_fds, unprocessed, counts, written, posting,
                       fds_posted, wire, frames, open, io_pc, peeked>>,
           \A x \in Endpoint : Parsed(x)' = Parsed(x),
           \A x \in Endpoint : x # e =>
                stop_op'[x] = stop_op[x] /\ io_thread_state'[x] = io_thread_state[x],
           StopFits(e)', Ended(e) => Ended(e)',
           from \notin {"enqueue", "dead"}, to # "enqueue"
    PROVE  Quiet
<1>1. DOMAIN main_pc = Endpoint
  BY EndFunctions
<1>2. main_pc[e] = from /\ main_pc'[e] = to /\ \A x \in Endpoint : x # e => main_pc'[x] = main_pc[x]
  BY <1>1 DEF MainStep
<1>3. written' = written /\ io_pc' = io_pc /\ peeked' = peeked
  OBVIOUS
<1>4. ASSUME NEW x \in Endpoint, Ended(x) PROVE Ended(x)'
  <2>1. CASE x = e
    BY <1>4, <2>1
  <2>2. CASE x # e
    BY <1>3, <1>4, <2>2 DEF Ended
  <2> QED
    BY <2>1, <2>2
<1>5. ASSUME NEW x \in Endpoint PROVE FdsRide(x)'
  <2>1. FdsRide(x)
    BY DEF StreamInv, EndFits
  <2> QED
    BY <1>3, <2>1 DEF FdsRide
<1>6. ASSUME NEW x \in Endpoint PROVE StopFits(x)'
  <2>1. CASE x = e
    BY <2>1
  <2>2. CASE x # e
    <3>1. StopFits(x)
      BY DEF StreamInv, EndFits
    <3> QED
      BY <1>2, <2>2, <3>1 DEF StopFits, Stopping
  <2> QED
    BY <2>1, <2>2
<1>7. \A x \in Endpoint : main_pc'[x] # main_pc[x] =>
                main_pc[x] \notin {"enqueue", "dead"} /\ main_pc'[x] # "enqueue"
  BY <1>2
<1> QED
  BY <1>4, <1>5, <1>6, <1>7 DEF Quiet

\* Moving what is in the middle changes nothing.
LEMMA PublishedMessages ==
    ASSUME NEW a \in Seq(Message), NEW b \in Seq(Message), NEW c \in Seq(Message)
    PROVE  /\ (a \o (b \o c)) \o <<>> = (a \o b) \o c
           /\ ((a \o b) \o <<>>) \o c = (a \o b) \o c
  BY ConcatAssociative, ConcatEmptySeq, ConcatProperties

\* Such are the steps of the IO thread that poll, peek, publish a batch or end its loop ...
LEMMA QuietIoSteps ==
    ASSUME IndInv, StreamInv, NEW e \in Endpoint,
           \/ PeekSendQueue(e) \/ LoadState(e) \/ Poll(e) \/ PollFails(e) \/ DrainWakeupPipe(e)
           \/ StopOnHangup(e) \/ PeekToSend(e) \/ ReceiveEnds(e) \/ ParseEnds(e) \/ ReportEof(e)
           \/ CheckTransferred(e) \/ MarkEof(e) \/ FinalNotify(e) \/ PublishBatch(e)
           \/ VerifyStopped(e) /\ io_thread_state[e] = "Stopped"
    PROVE  Quiet
<1>1. DOMAIN io_pc = Endpoint /\ DOMAIN io_thread_state = Endpoint /\ DOMAIN peeked = Endpoint
  BY EndFunctions
<1>2. ASSUME NEW from, NEW to, IoStep(e, from, to), UNCHANGED <<delivered, incoming_messages, batch>>,
             UNCHANGED <<send_bytes, send_fds, retained_fds, unprocessed, counts, written, posting,
                         fds_posted, wire, frames, open, stop_op, peeked>>,
             to # "send", from \in Ending => to \in Ending,
             \A x \in Endpoint : x # e => io_thread_state'[x] = io_thread_state[x],
             from \in {"peek", "load"} /\ io_thread_state[e] = "Stopped" =>
                \/ to \in Ending
                \/ to \in {"peek", "load"} /\ io_thread_state'[e] = "Stopped",
             UNCHANGED main_pc \/ Broadcast(e)
      PROVE  Quiet
  <2>1. \A x \in Endpoint : Parsed(x)' = Parsed(x)
    BY <1>2 DEF Parsed
  <2>2. \A x \in Endpoint : x # e =>
            peeked'[x] = peeked[x] /\ io_thread_state'[x] = io_thread_state[x]
    BY <1>2
  <2> QED
    BY <1>2, <2>1, <2>2, IoIsQuiet
<1>3. \A eof \in BOOLEAN : \A r :
        /\ AfterReading(r) \notin Ending \cup {"send"}
        /\ AfterDraining(r) \notin Ending \cup {"send"}
        /\ AfterParsing(e, eof) \notin Ending \cup {"send"}
        /\ AfterPublishing(e, eof) \notin Ending \cup {"send"}
  <2>1. \A eof \in BOOLEAN : \A r :
        /\ AfterReading(r) \in {"hangup", "write", "peek"}
        /\ AfterDraining(r) \in {"receive", "hangup", "write", "peek"}
        /\ AfterParsing(e, eof) \in {"release_acked", "acknowledge", "publish", "report_eof",
                                     "hangup", "write", "peek"}
    BY AfterLemma
  <2>2. \A eof : AfterPublishing(e, eof) \in {"report_eof", "hangup", "write", "peek"}
    BY <2>1 DEF AfterPublishing
  <2> QED
    BY <2>1, <2>2 DEF Ending
<1>4. CASE PeekSendQueue(e)
  <2>1. /\ IoStep(e, "peek", "load")
        /\ UNCHANGED <<delivered, incoming_messages, batch>>
        /\ UNCHANGED <<send_bytes, send_fds, retained_fds, unprocessed, counts, written, posting,
                       fds_posted, wire, frames, open, stop_op, peeked>>
        /\ UNCHANGED main_pc
    BY <1>1, <1>4 DEF PeekSendQueue, IoStep, shared, control, queues, pipes, parser, unprocessed, counts, ioLocals, polled,
      transfer, mainLocals, mainRest, outside
  <2>2. UNCHANGED io_thread_state
    BY <1>1, <1>4 DEF PeekSendQueue, shared, control, queues, pipes, parser, unprocessed, counts, ioLocals, polled,
      transfer, mainLocals, mainRest, outside
  <2> QED
    BY <1>2, <2>1, <2>2 DEF Ending
<1>5. CASE LoadState(e)
  <2>1. /\ IoStep(e, "load", io_pc'[e])
        /\ UNCHANGED <<delivered, incoming_messages, batch>>
        /\ UNCHANGED <<send_bytes, send_fds, retained_fds, unprocessed, counts, written, posting,
                       fds_posted, wire, frames, open, stop_op, peeked>>
        /\ UNCHANGED main_pc
    BY <1>1, <1>5 DEF LoadState, IoStep, shared, control, queues, pipes, parser, unprocessed, counts, ioLocals, polled,
      transfer, mainLocals, mainRest, outside
  <2>2. \A x \in Endpoint : x # e => io_thread_state'[x] = io_thread_state[x]
    BY <1>1, <1>5 DEF LoadState, shared, control, queues, pipes, parser, unprocessed, counts, ioLocals, polled,
      transfer, mainLocals, mainRest, outside
  <2>3. io_pc'[e] \in {"verify", "poll"} /\ (io_thread_state[e] = "Stopped" => io_pc'[e] = "verify")
    BY <1>1, <1>5 DEF LoadState, IoStep
  <2> QED
    BY <1>2, <2>1, <2>2, <2>3 DEF Ending
<1>6. CASE Poll(e)
  <2>1. /\ IoStep(e, "poll", io_pc'[e])
        /\ UNCHANGED <<delivered, incoming_messages, batch>>
        /\ UNCHANGED <<send_bytes, send_fds, retained_fds, unprocessed, counts, written, posting,
                       fds_posted, wire, frames, open, stop_op, peeked>>
        /\ UNCHANGED main_pc
    BY <1>1, <1>6 DEF Poll, IoStep, shared, control, queues, pipes, parser, unprocessed, counts, ioLocals, polled,
      transfer, mainLocals, mainRest, outside
  <2>2. UNCHANGED io_thread_state
    BY <1>1, <1>6 DEF Poll, shared, control, queues, pipes, parser, unprocessed, counts, ioLocals, polled,
      transfer, mainLocals, mainRest, outside
  <2>3. io_pc'[e] = "drain_wakeup" \/ io_pc'[e] = AfterDraining(Ready(e))
    BY <1>1, <1>6 DEF Poll, IoStep
  <2>4. io_pc'[e] \notin Ending \cup {"send"}
    BY <1>3, <2>3 DEF Ending
  <2> QED
    BY <1>2, <2>1, <2>2, <2>4 DEF Ending
<1>7. CASE PollFails(e)
  <2>1. /\ IoStep(e, "poll", "verify")
        /\ UNCHANGED <<delivered, incoming_messages, batch>>
        /\ UNCHANGED <<send_bytes, send_fds, retained_fds, unprocessed, counts, written, posting,
                       fds_posted, wire, frames, open, stop_op, peeked>>
        /\ UNCHANGED main_pc
    BY <1>1, <1>7 DEF PollFails, IoStep, shared, control, queues, pipes, parser, unprocessed, counts, ioLocals, polled,
      transfer, mainLocals, mainRest, outside
  <2>2. \A x \in Endpoint : x # e => io_thread_state'[x] = io_thread_state[x]
    BY <1>1, <1>7 DEF PollFails, shared, control, queues, pipes, parser, unprocessed, counts, ioLocals, polled,
      transfer, mainLocals, mainRest, outside
  <2> QED
    BY <1>2, <2>1, <2>2 DEF Ending
<1>8. CASE DrainWakeupPipe(e)
  <2>1. /\ IoStep(e, "drain_wakeup", io_pc'[e])
        /\ UNCHANGED <<delivered, incoming_messages, batch>>
        /\ UNCHANGED <<send_bytes, send_fds, retained_fds, unprocessed, counts, written, posting,
                       fds_posted, wire, frames, open, stop_op, peeked>>
        /\ UNCHANGED main_pc
    BY <1>1, <1>8 DEF DrainWakeupPipe, IoStep, shared, control, queues, pipes, parser, unprocessed, counts, ioLocals, polled,
      transfer, mainLocals, mainRest, outside
  <2>2. UNCHANGED io_thread_state
    BY <1>1, <1>8 DEF DrainWakeupPipe, shared, control, queues, pipes, parser, unprocessed, counts, ioLocals, polled,
      transfer, mainLocals, mainRest, outside
  <2>3. io_pc'[e] = AfterDraining(revents[e])
    BY <1>1, <1>8 DEF DrainWakeupPipe, IoStep
  <2>4. io_pc'[e] \notin Ending \cup {"send"}
    BY <1>3, <2>3
  <2> QED
    BY <1>2, <2>1, <2>2, <2>4 DEF Ending
<1>9. CASE StopOnHangup(e)
  <2>1. /\ IoStep(e, "hangup", "verify")
        /\ UNCHANGED <<delivered, incoming_messages, batch>>
        /\ UNCHANGED <<send_bytes, send_fds, retained_fds, unprocessed, counts, written, posting,
                       fds_posted, wire, frames, open, stop_op, peeked>>
        /\ UNCHANGED main_pc
    BY <1>1, <1>9 DEF StopOnHangup, IoStep, shared, control, queues, pipes, parser, unprocessed, counts, ioLocals, polled,
      transfer, mainLocals, mainRest, outside
  <2>2. \A x \in Endpoint : x # e => io_thread_state'[x] = io_thread_state[x]
    BY <1>1, <1>9 DEF StopOnHangup, shared, control, queues, pipes, parser, unprocessed, counts, ioLocals, polled,
      transfer, mainLocals, mainRest, outside
  <2> QED
    BY <1>2, <2>1, <2>2 DEF Ending
<1>10. CASE ReceiveEnds(e)
  <2>1. /\ IoStep(e, "receive", "parse")
        /\ UNCHANGED <<delivered, incoming_messages, batch>>
        /\ UNCHANGED <<send_bytes, send_fds, retained_fds, unprocessed, counts, written, posting,
                       fds_posted, wire, frames, open, stop_op, peeked>>
        /\ UNCHANGED main_pc
    BY <1>1, <1>10 DEF ReceiveEnds, IoStep, shared, control, queues, pipes, parser, unprocessed, counts, ioLocals, polled,
      transfer, mainLocals, mainRest, outside
  <2>2. UNCHANGED io_thread_state
    BY <1>1, <1>10 DEF ReceiveEnds, shared, control, queues, pipes, parser, unprocessed, counts, ioLocals, polled,
      transfer, mainLocals, mainRest, outside
  <2> QED
    BY <1>2, <2>1, <2>2 DEF Ending
<1>11. CASE ParseEnds(e)
  <2>1. /\ IoStep(e, "parse", io_pc'[e])
        /\ UNCHANGED <<delivered, incoming_messages, batch>>
        /\ UNCHANGED <<send_bytes, send_fds, retained_fds, unprocessed, counts, written, posting,
                       fds_posted, wire, frames, open, stop_op, peeked>>
        /\ UNCHANGED main_pc
    BY <1>1, <1>11 DEF ParseEnds, IoStep, shared, control, queues, pipes, parser, unprocessed, counts, ioLocals, polled,
      transfer, mainLocals, mainRest, outside
  <2>2. UNCHANGED io_thread_state
    BY <1>1, <1>11 DEF ParseEnds, shared, control, queues, pipes, parser, unprocessed, counts, ioLocals, polled,
      transfer, mainLocals, mainRest, outside
  <2>3. io_pc'[e] = AfterParsing(e, peer_eof'[e]) /\ peer_eof'[e] \in BOOLEAN
    <3>1. peer_eof \in [Endpoint -> BOOLEAN]
      BY DEF IndInv, TypeOK
    <3>2. peer_eof'[e] \in BOOLEAN
      BY <1>11, <3>1 DEF ParseEnds
    <3> QED
      BY <1>1, <1>11, <3>2 DEF ParseEnds, IoStep
  <2>4. io_pc'[e] \notin Ending \cup {"send"}
    BY <1>3, <2>3
  <2> QED
    BY <1>2, <2>1, <2>2, <2>4 DEF Ending
<1>12. CASE ReportEof(e)
  <2>1. /\ IoStep(e, "report_eof", io_pc'[e])
        /\ UNCHANGED <<delivered, incoming_messages, batch>>
        /\ UNCHANGED <<send_bytes, send_fds, retained_fds, unprocessed, counts, written, posting,
                       fds_posted, wire, frames, open, stop_op, peeked>>
        /\ Broadcast(e)
    BY <1>1, <1>12 DEF ReportEof, IoStep, shared, control, queues, pipes, parser, unprocessed, counts, ioLocals, polled,
      transfer, mainLocals, mainRest, outside
  <2>2. UNCHANGED io_thread_state
    BY <1>1, <1>12 DEF ReportEof, shared, control, queues, pipes, parser, unprocessed, counts, ioLocals, polled,
      transfer, mainLocals, mainRest, outside
  <2>3. io_pc'[e] = AfterReading(revents[e])
    BY <1>1, <1>12 DEF ReportEof, IoStep
  <2>4. io_pc'[e] \notin Ending \cup {"send"}
    BY <1>3, <2>3
  <2> QED
    BY <1>2, <2>1, <2>2, <2>4 DEF Ending
<1>13. CASE CheckTransferred(e)
  <2>1. /\ IoStep(e, "check_transferred", io_pc'[e])
        /\ UNCHANGED <<delivered, incoming_messages, batch>>
        /\ UNCHANGED <<send_bytes, send_fds, retained_fds, unprocessed, counts, written, posting,
                       fds_posted, wire, frames, open, stop_op, peeked>>
        /\ UNCHANGED main_pc
    BY <1>1, <1>13 DEF CheckTransferred, IoStep, shared, control, queues, pipes, parser, unprocessed, counts, ioLocals, polled,
      transfer, mainLocals, mainRest, outside
  <2>2. UNCHANGED io_thread_state
    BY <1>1, <1>13 DEF CheckTransferred, shared, control, queues, pipes, parser, unprocessed, counts, ioLocals, polled,
      transfer, mainLocals, mainRest, outside
  <2>3. io_pc'[e] \in {"done", "mark_eof"}
    BY <1>1, <1>13 DEF CheckTransferred, IoStep
  <2> QED
    BY <1>2, <2>1, <2>2, <2>3 DEF Ending
<1>14. CASE MarkEof(e)
  <2>1. /\ IoStep(e, "mark_eof", "final_notify")
        /\ UNCHANGED <<delivered, incoming_messages, batch>>
        /\ UNCHANGED <<send_bytes, send_fds, retained_fds, unprocessed, counts, written, posting,
                       fds_posted, wire, frames, open, stop_op, peeked>>
        /\ UNCHANGED main_pc
    BY <1>1, <1>14 DEF MarkEof, IoStep, shared, control, queues, pipes, parser, unprocessed, counts, ioLocals, polled,
      transfer, mainLocals, mainRest, outside
  <2>2. UNCHANGED io_thread_state
    BY <1>1, <1>14 DEF MarkEof, shared, control, queues, pipes, parser, unprocessed, counts, ioLocals, polled,
      transfer, mainLocals, mainRest, outside
  <2> QED
    BY <1>2, <2>1, <2>2 DEF Ending
<1>15. CASE FinalNotify(e)
  <2>1. /\ IoStep(e, "final_notify", "done")
        /\ UNCHANGED <<delivered, incoming_messages, batch>>
        /\ UNCHANGED <<send_bytes, send_fds, retained_fds, unprocessed, counts, written, posting,
                       fds_posted, wire, frames, open, stop_op, peeked>>
        /\ Broadcast(e)
    BY <1>1, <1>15 DEF FinalNotify, IoStep, shared, control, queues, pipes, parser, unprocessed, counts, ioLocals, polled,
      transfer, mainLocals, mainRest, outside
  <2>2. UNCHANGED io_thread_state
    BY <1>1, <1>15 DEF FinalNotify, shared, control, queues, pipes, parser, unprocessed, counts, ioLocals, polled,
      transfer, mainLocals, mainRest, outside
  <2> QED
    BY <1>2, <2>1, <2>2 DEF Ending
<1>16. CASE PublishBatch(e)
  <2>1. /\ IoStep(e, "publish", io_pc'[e])
        /\ UNCHANGED <<send_bytes, send_fds, retained_fds, unprocessed, counts, written, posting,
                       fds_posted, wire, frames, open, stop_op, peeked, io_thread_state, delivered>>
        /\ Broadcast(e)
    BY <1>1, <1>16 DEF PublishBatch, IoStep, shared, control, queues, pipes, parser, unprocessed, counts, ioLocals, polled,
      transfer, mainLocals, mainRest, outside
  <2>2. io_pc'[e] = AfterPublishing(e, peer_eof[e]) /\ peer_eof[e] \in BOOLEAN
    BY <1>1, <1>16 DEF PublishBatch, IoStep, IndInv, TypeOK
  <2>3. io_pc'[e] \notin Ending \cup {"send"}
    BY <1>3, <2>2
  <2>4. \A x \in Endpoint : Parsed(x)' = Parsed(x)
    <3>1. SUFFICES ASSUME NEW x \in Endpoint PROVE Parsed(x)' = Parsed(x)
      OBVIOUS
    <3>2. /\ delivered[x] \in Seq(Message) /\ incoming_messages[x] \in Seq(Message)
          /\ batch[x] \in Seq(Message)
      BY EndTypes
    <3>3. /\ delivered'[x] = delivered[x]
          /\ incoming_messages'[x] = IF x = e THEN incoming_messages[x] \o batch[x]
                                      ELSE incoming_messages[x]
          /\ batch'[x] = IF x = e THEN <<>> ELSE batch[x]
      BY <1>16, <2>1, EndFunctions DEF PublishBatch
    <3>4. CASE x # e
      BY <3>3, <3>4 DEF Parsed
    <3>5. CASE x = e
      <4>1. Parsed(x)' = (delivered[x] \o (incoming_messages[x] \o batch[x])) \o <<>>
        BY <3>3, <3>5 DEF Parsed
      <4>2. (delivered[x] \o (incoming_messages[x] \o batch[x])) \o <<>> =
                (delivered[x] \o incoming_messages[x]) \o batch[x]
        BY <3>2, PublishedMessages
      <4> QED
        BY <4>1, <4>2 DEF Parsed
    <3> QED
      BY <3>4, <3>5
  <2> QED
    BY <2>1, <2>3, <2>4, IoIsQuiet DEF Ending
<1>17. CASE PeekToSend(e)
  <2>1. /\ IoStep(e, "write", io_pc'[e])
        /\ UNCHANGED <<delivered, incoming_messages, batch>>
        /\ UNCHANGED <<send_bytes, send_fds, retained_fds, unprocessed, counts, written, posting,
                       fds_posted, wire, frames, open, stop_op, io_thread_state, main_pc>>
        /\ \A x \in Endpoint : x # e => peeked'[x] = peeked[x]
    BY <1>1, <1>17 DEF PeekToSend, IoStep, shared, control, queues, pipes, parser, unprocessed, counts, ioLocals, polled,
      transfer, mainLocals, mainRest, outside
  <2>2. io_pc'[e] \in {"peek", "send"}
    BY <1>1, <1>17 DEF PeekToSend, IoStep
  <2>3. written[e] = Nothing
    BY <1>17 DEF PeekToSend, IoStep, IndInv, PeekedStays, Peeked
  <2>4. \A x \in Endpoint : Parsed(x)' = Parsed(x)
    BY <2>1 DEF Parsed
  <2> QED
    BY <2>1, <2>2, <2>3, <2>4, IoIsQuiet DEF Ending
<1>18. CASE VerifyStopped(e) /\ io_thread_state[e] = "Stopped"
  <2>1. /\ IoStep(e, "verify", "check_transferred")
        /\ UNCHANGED <<delivered, incoming_messages, batch, main_pc, io_thread_state>>
        /\ UNCHANGED <<send_bytes, send_fds, retained_fds, unprocessed, counts, written, posting,
                       fds_posted, wire, frames, open, stop_op, peeked>>
    BY <1>18 DEF VerifyStopped, shared, control, queues, pipes, parser, unprocessed, counts, ioLocals, polled,
      transfer, mainLocals, mainRest, outside
  <2> QED
    BY <1>2, <2>1 DEF Ending
<1> QED
  BY <1>4, <1>5, <1>6, <1>7, <1>8, <1>9, <1>10, <1>11, <1>12, <1>13, <1>14, <1>15,
     <1>16, <1>17, <1>18

\* ... and those of the main thread that wake, wait for or stop it, or take its messages.
LEMMA QuietMainSteps ==
    ASSUME IndInv, StreamInv, Unbroken, NEW e \in Endpoint,
           \/ WakeIoThread(e) \/ ActivateReadHook(e) \/ TakeMessages(e) \/ ReturnShouldShutdown(e)
           \/ TestReadable(e) \/ BlockOnCondition(e) \/ StoreDesiredState(e) \/ JoinAndRelease(e)
           \/ LockToWait(e) \/ SetUpReadHook(e) \/ \E op \in StopOps : BeginStop(e, op)
    PROVE  Quiet
<1>1. DOMAIN main_pc = Endpoint /\ DOMAIN io_thread_state = Endpoint /\ DOMAIN stop_op = Endpoint
  BY EndFunctions
<1>2. StopFits(e)
  BY DEF StreamInv, EndFits
<1>3. ASSUME NEW from, NEW to, MainStep(e, from, to), \A x \in Endpoint : Parsed(x)' = Parsed(x),
             UNCHANGED <<send_bytes, send_fds, retained_fds, unprocessed, counts, written, posting,
                         fds_posted, wire, frames, open, io_pc, peeked, stop_op, io_thread_state>>,
             from \notin {"enqueue", "dead"}, to # "enqueue",
             to \in {"store", "stop_wake", "join"} => from \in {"store", "stop_wake", "join"}
      PROVE  Quiet
  <2>1. main_pc[e] = from /\ main_pc'[e] = to
    BY <1>1, <1>3 DEF MainStep
  <2>2. StopFits(e)'
    BY <1>2, <1>3, <2>1 DEF StopFits, Stopping
  <2>3. Ended(e) => Ended(e)'
    BY <1>3 DEF Ended
  <2>4. \A x \in Endpoint : x # e =>
                stop_op'[x] = stop_op[x] /\ io_thread_state'[x] = io_thread_state[x]
    BY <1>3
  <2> QED
    BY <1>3, <2>2, <2>3, <2>4, MainIsQuiet
<1>4. CASE WakeIoThread(e)
  <2>1. /\ UNCHANGED <<send_bytes, send_fds, retained_fds, unprocessed, counts, written, posting,
                       fds_posted, wire, frames, open, io_pc, peeked, stop_op, io_thread_state>>
        /\ UNCHANGED <<delivered, incoming_messages, batch>>
        /\ MainStep(e, "wake", "idle") \/ MainStep(e, "stop_wake", "join")
    BY <1>4 DEF WakeIoThread, shared, control, queues, pipes, parser, unprocessed, counts, ioLocals, polled,
      transfer, mainLocals, mainRest, outside
  <2>2. \A x \in Endpoint : Parsed(x)' = Parsed(x)
    BY <2>1 DEF Parsed
  <2> QED
    BY <1>3, <2>1, <2>2
<1>5. CASE LockToWait(e)
  <2>1. /\ UNCHANGED <<send_bytes, send_fds, retained_fds, unprocessed, counts, written, posting,
                       fds_posted, wire, frames, open, io_pc, peeked, stop_op, io_thread_state>>
        /\ UNCHANGED <<delivered, incoming_messages, batch>>
        /\ MainStep(e, "idle", "wait_locked") \/ MainStep(e, "woken", "wait_locked")
    BY <1>5 DEF LockToWait, shared, control, queues, pipes, parser, unprocessed, counts, ioLocals, polled,
      transfer, mainLocals, mainRest, outside
  <2>2. \A x \in Endpoint : Parsed(x)' = Parsed(x)
    BY <2>1 DEF Parsed
  <2> QED
    BY <1>3, <2>1, <2>2
<1>6. CASE ActivateReadHook(e)
  <2>1. /\ UNCHANGED <<send_bytes, send_fds, retained_fds, unprocessed, counts, written, posting,
                       fds_posted, wire, frames, open, io_pc, peeked, stop_op, io_thread_state>>
        /\ UNCHANGED <<delivered, incoming_messages, batch>>
        /\ MainStep(e, "idle", "take")
    BY <1>1, <1>6 DEF ActivateReadHook, MainStep, shared, control, queues, pipes, parser, unprocessed, counts, ioLocals, polled,
      transfer, mainLocals, mainRest, outside
  <2>2. \A x \in Endpoint : Parsed(x)' = Parsed(x)
    BY <2>1 DEF Parsed
  <2> QED
    BY <1>3, <2>1, <2>2
<1>7. CASE ReturnShouldShutdown(e)
  <2>1. /\ UNCHANGED <<send_bytes, send_fds, retained_fds, unprocessed, counts, written, posting,
                       fds_posted, wire, frames, open, io_pc, peeked, stop_op, io_thread_state>>
        /\ UNCHANGED <<delivered, incoming_messages, batch>>
        /\ MainStep(e, "should_shutdown", main_pc'[e])
    BY <1>1, <1>7 DEF ReturnShouldShutdown, MainStep, shared, control, queues, pipes, parser, unprocessed, counts, ioLocals, polled,
      transfer, mainLocals, mainRest, outside
  <2>2. \A x \in Endpoint : Parsed(x)' = Parsed(x)
    BY <2>1 DEF Parsed
  <2>3. main_pc'[e] \in {"released", "idle"}
    BY <1>1, <1>7 DEF ReturnShouldShutdown, MainStep
  <2> QED
    BY <1>3, <2>1, <2>2, <2>3
<1>8. CASE TestReadable(e)
  <2>1. /\ UNCHANGED <<send_bytes, send_fds, retained_fds, unprocessed, counts, written, posting,
                       fds_posted, wire, frames, open, io_pc, peeked, stop_op, io_thread_state>>
        /\ UNCHANGED <<delivered, incoming_messages, batch>>
        /\ MainStep(e, "wait_locked", main_pc'[e])
    BY <1>1, <1>8 DEF TestReadable, MainStep, shared, control, queues, pipes, parser, unprocessed, counts, ioLocals, polled,
      transfer, mainLocals, mainRest, outside
  <2>2. \A x \in Endpoint : Parsed(x)' = Parsed(x)
    BY <2>1 DEF Parsed
  <2>3. main_pc'[e] \in {"wait_block", "take"}
    BY <1>1, <1>8 DEF TestReadable, MainStep
  <2> QED
    BY <1>3, <2>1, <2>2, <2>3
<1>9. CASE BlockOnCondition(e)
  <2>1. /\ UNCHANGED <<send_bytes, send_fds, retained_fds, unprocessed, counts, written, posting,
                       fds_posted, wire, frames, open, io_pc, peeked, stop_op, io_thread_state>>
        /\ UNCHANGED <<delivered, incoming_messages, batch>>
        /\ MainStep(e, "wait_block", "blocked")
    BY <1>1, <1>9 DEF BlockOnCondition, MainStep, shared, control, queues, pipes, parser, unprocessed, counts, ioLocals, polled,
      transfer, mainLocals, mainRest, outside
  <2>2. \A x \in Endpoint : Parsed(x)' = Parsed(x)
    BY <2>1 DEF Parsed
  <2> QED
    BY <1>3, <2>1, <2>2
<1>10. CASE JoinAndRelease(e)
  <2>1. /\ UNCHANGED <<send_bytes, send_fds, retained_fds, unprocessed, counts, written, posting,
                       fds_posted, wire, frames, open, io_pc, peeked, stop_op, io_thread_state>>
        /\ UNCHANGED <<delivered, incoming_messages, batch>>
        /\ MainStep(e, "join", "take")
    BY <1>1, <1>10 DEF JoinAndRelease, MainStep, shared, control, queues, pipes, parser, unprocessed, counts, ioLocals, polled,
      transfer, mainLocals, mainRest, outside
  <2>2. \A x \in Endpoint : Parsed(x)' = Parsed(x)
    BY <2>1 DEF Parsed
  <2> QED
    BY <1>3, <2>1, <2>2
<1>11. CASE TakeMessages(e)
  <2>1. /\ UNCHANGED <<send_bytes, send_fds, retained_fds, unprocessed, counts, written, posting,
                       fds_posted, wire, frames, open, io_pc, peeked, stop_op, io_thread_state, batch>>
        /\ MainStep(e, "take", "should_shutdown")
    BY <1>11 DEF TakeMessages, shared, control, queues, pipes, parser, unprocessed, counts, ioLocals, polled,
      transfer, mainLocals, mainRest, outside
  <2>2. \A x \in Endpoint : Parsed(x)' = Parsed(x)
    <3>1. SUFFICES ASSUME NEW x \in Endpoint PROVE Parsed(x)' = Parsed(x)
      OBVIOUS
    <3>2. /\ delivered[x] \in Seq(Message) /\ incoming_messages[x] \in Seq(Message)
          /\ batch[x] \in Seq(Message)
      BY EndTypes
    <3>3. /\ delivered'[x] = IF x = e THEN delivered[x] \o incoming_messages[x] ELSE delivered[x]
          /\ incoming_messages'[x] = IF x = e THEN <<>> ELSE incoming_messages[x]
          /\ batch'[x] = batch[x]
      BY <1>11, <2>1, EndFunctions DEF TakeMessages
    <3>4. CASE x # e
      BY <3>3, <3>4 DEF Parsed
    <3>5. CASE x = e
      <4>1. Parsed(x)' = ((delivered[x] \o incoming_messages[x]) \o <<>>) \o batch[x]
        BY <3>3, <3>5 DEF Parsed
      <4>2. ((delivered[x] \o incoming_messages[x]) \o <<>>) \o batch[x] =
                (delivered[x] \o incoming_messages[x]) \o batch[x]
        BY <3>2, PublishedMessages
      <4> QED
        BY <4>1, <4>2 DEF Parsed
    <3> QED
      BY <3>4, <3>5
  <2> QED
    BY <1>3, <2>1, <2>2
<1>12. CASE StoreDesiredState(e)
  <2>1. /\ UNCHANGED <<send_bytes, send_fds, retained_fds, unprocessed, counts, written, posting,
                       fds_posted, wire, frames, open, io_pc, peeked, stop_op>>
        /\ UNCHANGED <<delivered, incoming_messages, batch>>
        /\ MainStep(e, "store", "stop_wake")
        /\ \A x \in Endpoint : x # e => io_thread_state'[x] = io_thread_state[x]
        /\ stop_op[e] = "close" => io_thread_state'[e] = "Stopped"
    BY <1>1, <1>12 DEF StoreDesiredState, shared, control, queues, pipes, parser, unprocessed, counts, ioLocals, polled,
      transfer, mainLocals, mainRest, outside
  <2>2. \A x \in Endpoint : Parsed(x)' = Parsed(x)
    BY <2>1 DEF Parsed
  <2>3. main_pc[e] = "store" /\ main_pc'[e] = "stop_wake"
    BY <1>1, <2>1 DEF MainStep
  <2>4. StopFits(e)'
    BY <1>2, <2>1, <2>3 DEF StopFits, Stopping
  <2>5. stop_op[e] \in Ops[e] /\ stop_op[e] \in StopOps /\ stop_op[e] # "none"
    BY <1>2, <2>3 DEF StopFits, Stopping, IndInv, TypeOK
  <2>6. "os_error" \in Ops[e] => stop_op[e] = "close"
    BY <2>5 DEF Unbroken, StopOps
  <2>7. Ended(e) => Ended(e)'
    BY <2>1, <2>6 DEF Ended
  <2> QED
    BY <2>1, <2>2, <2>4, <2>7, MainIsQuiet
<1>13. CASE \E op \in StopOps : BeginStop(e, op)
  <2>1. PICK op \in StopOps : BeginStop(e, op)
    BY <1>13
  <2>2. /\ UNCHANGED <<send_bytes, send_fds, retained_fds, unprocessed, counts, written, posting,
                       fds_posted, wire, frames, open, io_pc, peeked, io_thread_state>>
        /\ UNCHANGED <<delivered, incoming_messages, batch>>
        /\ MainStep(e, "idle", "store") /\ op \in Ops[e]
        /\ stop_op' = [stop_op EXCEPT ![e] = op]
    BY <2>1 DEF BeginStop, shared, control, queues, pipes, parser, unprocessed, counts, ioLocals, polled,
      transfer, mainLocals, mainRest, outside
  <2>3. \A x \in Endpoint : Parsed(x)' = Parsed(x)
    BY <2>2 DEF Parsed
  <2>4. op # "none"
    BY <2>2, InputAssumption DEF InputAssumption, OpNames
  <2>5. StopFits(e)'
    BY <1>1, <2>2, <2>4 DEF StopFits
  <2>6. Ended(e) => Ended(e)'
    BY <2>2 DEF Ended
  <2>7. \A x \in Endpoint : x # e =>
                stop_op'[x] = stop_op[x] /\ io_thread_state'[x] = io_thread_state[x]
    BY <1>1, <2>2
  <2> QED
    BY <2>2, <2>3, <2>5, <2>6, <2>7, MainIsQuiet
<1>14. CASE SetUpReadHook(e)
  <2>1. /\ UNCHANGED <<send_bytes, send_fds, retained_fds, unprocessed, counts, written, posting,
                       fds_posted, wire, frames, open, io_pc, peeked, stop_op, io_thread_state>>
        /\ UNCHANGED <<delivered, incoming_messages, batch, main_pc>>
    BY <1>14 DEF SetUpReadHook, shared, control, queues, pipes, parser, unprocessed, counts, ioLocals, polled,
      transfer, mainLocals, mainRest, outside
  <2>2. \A x \in Endpoint : Parsed(x)' = Parsed(x)
    BY <2>1 DEF Parsed
  <2>3. \A x \in Endpoint : Ended(x) => Ended(x)'
    BY <2>1 DEF Ended
  <2>4. \A x \in Endpoint : FdsRide(x)' /\ StopFits(x)'
    <3>1. \A x \in Endpoint : FdsRide(x) /\ StopFits(x)
      BY DEF StreamInv, EndFits
    <3> QED
      BY <2>1, <3>1 DEF FdsRide, StopFits, Stopping
  <2> QED
    BY <2>1, <2>2, <2>3, <2>4 DEF Quiet
<1> QED
  BY <1>4, <1>5, <1>6, <1>7, <1>8, <1>9, <1>10, <1>11, <1>12,
     <1>13, <1>14

\* Both ends and both streams are as they should be.
LEMMA BothEnds ==
    ASSUME NEW e \in Endpoint, EndFits(e)', EndFits(Peer(e))',
           \E k \in 0..Len(frames'[e]) : Stream(e, k)',
           \E k \in 0..Len(frames'[Peer(e)]) : Stream(Peer(e), k)'
    PROVE  StreamInv'
<1>1. \A x \in Endpoint : x = e \/ x = Peer(e)
  BY OtherEnd
<1> QED
  BY <1>1 DEF StreamInv

\* An end that the step leaves alone.
LEMMA SameEnd ==
    ASSUME StreamInv, NEW x \in Endpoint, frames'[x] = frames[x], posting'[x] = posting[x],
           fds_posted'[x] = fds_posted[x], retained_fds'[x] = retained_fds[x],
           send_fds'[x] = send_fds[x], written'[x] = written[x], peeked'[x] = peeked[x],
           io_pc'[x] = io_pc[x], main_pc'[x] = main_pc[x], stop_op'[x] = stop_op[x],
           open'[Peer(x)] => open[Peer(x)]
    PROVE  EndFits(x)'
<1>1. EndFits(x)
  BY DEF StreamInv
<1>2. PostingFits(x)'
  BY <1>1 DEF EndFits, PostingFits
<1>3. RetainedFits(x)'
  BY <1>1 DEF EndFits, RetainedFits, LetGo
<1>4. FdsRide(x)' /\ StopFits(x)'
  BY <1>1 DEF EndFits, FdsRide, StopFits, Stopping
<1>5. (\A n \in 1..Len(frames[x]) : FrameFits(frames[x], n))'
  BY <1>1 DEF EndFits
<1> QED
  BY <1>2, <1>3, <1>4, <1>5 DEF EndFits

\* post_message numbers its descriptors on and retains them.
LEMMA PostKeepsStreams ==
    ASSUME IndInv, StreamInv, NEW e \in Endpoint, NEW size \in PayloadSizes, NEW n \in FdCounts,
           PostMessage(e, size, n)
    PROVE  StreamInv'
<1> DEFINE p == Peer(e)
           new == [i \in 1..n |-> fds_posted[e] + i]
           f == [type |-> "Payload", payload_size |-> size, fd_count |-> n, fds |-> new]
           all == FdsUpTo(frames[e], Len(frames[e]))
           L == Len(retained_fds[e])
<1>1. p \in Endpoint /\ p # e /\ Peer(p) = e
  BY OtherEnd
<1>2. size \in Nat /\ n \in Nat
  BY InputAssumption DEF InputAssumption
<1>3. /\ frames' = frames /\ wire' = wire /\ send_bytes' = send_bytes /\ send_fds' = send_fds
      /\ written' = written /\ peeked' = peeked /\ io_pc' = io_pc /\ stop_op' = stop_op
      /\ open' = open /\ io_thread_state' = io_thread_state
      /\ unprocessed_bytes' = unprocessed_bytes /\ unprocessed_fds' = unprocessed_fds
      /\ received_fd_count' = received_fd_count /\ acknowledged_fd_count' = acknowledged_fd_count
      /\ delivered' = delivered /\ incoming_messages' = incoming_messages /\ batch' = batch
  BY DEF PostMessage, control, parser, unprocessed, counts, ioLocals, polled, transfer, outside
<1>4. /\ main_pc[e] = "idle" /\ main_pc'[e] = "enqueue" /\ main_pc'[p] = main_pc[p]
      /\ posting'[e] = f /\ posting'[p] = posting[p]
      /\ fds_posted'[e] = fds_posted[e] + n /\ fds_posted'[p] = fds_posted[p]
      /\ retained_fds'[e] = retained_fds[e] \o new /\ retained_fds'[p] = retained_fds[p]
  BY <1>1, EndFunctions DEF PostMessage, MainStep
<1>5. EndFits(e) /\ EndFits(p)
  BY <1>1 DEF StreamInv
<1>6. /\ fds_posted[e] \in Nat /\ L \in Nat /\ retained_fds[e] \in Seq(Nat)
  BY EndTypes
<1>7. L <= fds_posted[e] /\ retained_fds[e] = From(LetGo(e), L)
  BY <1>5 DEF EndFits, RetainedFits
<1>8. new = From(fds_posted[e], n)
  BY DEF From
<1>9. all = fds_posted[e]
  <2>1. posting[e] = NoFrame /\ fds_posted[e] = all + posting[e].fd_count
    BY <1>4, <1>5 DEF EndFits, PostingFits
  <2>2. all \in Nat
    BY EndTypes, FrameSums
  <2> QED
    BY <2>1, <2>2 DEF NoFrame
<1> HIDE DEF new
<1>10. PostingFits(e)'
  <2>1. f.type = "Payload" /\ f.fds = new /\ f.fd_count = n /\ f.payload_size = size
    OBVIOUS
  <2> HIDE DEF f
  <2> QED
    BY <1>3, <1>4, <1>8, <1>9, <2>1 DEF PostingFits
<1>11. new \in Seq(Nat) /\ Len(new) = n /\ Len(retained_fds'[e]) = L + n
  <2>1. new \in Seq(Nat) /\ Len(new) = n
    BY <1>2, <1>6, <1>8, FromProperties
  <2>2. Len(retained_fds[e] \o new) = Len(retained_fds[e]) + Len(new)
    BY <1>6, <2>1, ConcatProperties
  <2> QED
    BY <1>4, <2>1, <2>2
<1>12. LetGo(e)' = LetGo(e) /\ LetGo(p)' = LetGo(p)
  <2>1. (fds_posted[e] + n) - (L + n) = fds_posted[e] - L
    BY <1>2, <1>6
  <2> QED
    BY <1>4, <1>11, <2>1 DEF LetGo
<1>13. LetGo(e) \in Nat /\ LetGo(e) + L = fds_posted[e]
  BY <1>6, <1>7 DEF LetGo
<1>14. RetainedFits(e)'
  <2>1. Len(retained_fds'[e]) <= fds_posted'[e]
    BY <1>2, <1>4, <1>6, <1>7, <1>11
  <2>2. retained_fds'[e] = From(LetGo(e), L + n)
    <3>1. From(LetGo(e), L) \o From(LetGo(e) + L, n) = From(LetGo(e), L + n)
      BY <1>2, <1>6, <1>13, FromConcat
    <3> QED
      BY <1>4, <1>7, <1>8, <1>13, <3>1
  <2>3. ASSUME open[p], NEW i \in 1..Len(send_fds[e])
        PROVE  LetGo(e) < send_fds[e][i] /\ send_fds[e][i] <= fds_posted'[e]
    <3>1. LetGo(e) < send_fds[e][i] /\ send_fds[e][i] <= fds_posted[e]
      BY <1>5, <2>3 DEF EndFits, RetainedFits
    <3>2. send_fds[e][i] \in Nat
      BY EndTypes, ElementOfSeq
    <3> QED
      BY <1>2, <1>4, <1>6, <3>1, <3>2
  <2> QED
    BY <1>3, <1>11, <1>12, <2>1, <2>2, <2>3 DEF RetainedFits
<1>15. FdsRide(e)' /\ StopFits(e)'
  BY <1>3, <1>4, <1>5 DEF EndFits, FdsRide, StopFits, Stopping
<1>16. EndFits(e)'
  BY <1>3, <1>5, <1>10, <1>14, <1>15 DEF EndFits
<1>17. EndFits(p)'
  BY <1>1, <1>3, <1>4, SameEnd
<1>18. Parsed(e)' = Parsed(e) /\ Parsed(p)' = Parsed(p)
  BY <1>3 DEF Parsed
<1>19. (Ended(e) => Ended(e)') /\ (Ended(p) => Ended(p)')
  BY <1>3 DEF Ended
<1>20. \E k \in 0..Len(frames'[e]) : Stream(e, k)'
  <2>1. \E k \in 0..Len(frames[e]) : Stream(e, k)
    BY DEF StreamInv
  <2> QED
    BY <1>3, <1>12, <1>18, <1>19, <2>1, SameStream
<1>21. \E k \in 0..Len(frames'[p]) : Stream(p, k)'
  <2>1. \E k \in 0..Len(frames[p]) : Stream(p, k)
    BY <1>1 DEF StreamInv
  <2> QED
    BY <1>1, <1>3, <1>12, <1>18, <1>19, <2>1, SameStream
<1> QED
  BY <1>16, <1>17, <1>20, <1>21, BothEnds

\* What has been written is at the front of the queue.
LEMMA WrittenFits ==
    ASSUME IndInv, NEW e \in Endpoint, ~Ended(e)
    PROVE  /\ written[e].bytes \in 0..Len(send_bytes[e]) /\ written[e].fds \in 0..Len(send_fds[e])
           /\ written[e].bytes \in Nat /\ written[e].fds \in Nat
<1>1. io_pc[e] # "dead"
  BY DEF Ended, Ending
<1>2. written[e] \in Amount /\ peeked[e] \in Amount
  BY DEF IndInv, TypeOK
<1>3. /\ written[e].bytes \in Nat /\ written[e].fds \in Nat
      /\ peeked[e].bytes \in Nat /\ peeked[e].fds \in Nat
  BY <1>2 DEF Amount
<1>4. Len(send_bytes[e]) \in Nat /\ Len(send_fds[e]) \in Nat
  BY EndTypes, LenProperties
<1>5. Peeked(e)
  BY DEF IndInv, PeekedStays
<1>6. CASE io_pc[e] = "send"
  BY <1>3, <1>4, <1>5, <1>6 DEF Peeked
<1>7. CASE io_pc[e] # "send"
  <2>1. written[e].bytes = 0 /\ written[e].fds = 0
    BY <1>1, <1>5, <1>7 DEF Peeked, Nothing
  <2> QED
    BY <1>4, <2>1
<1> QED
  BY <1>6, <1>7

\* A frame more in the stream of e, at the end of its queue.
LEMMA FrameEnqueued ==
    ASSUME IndInv, StreamInv, NEW e \in Endpoint, NEW f \in Frame,
           frames'[e] = Append(frames[e], f),
           send_bytes'[e] = send_bytes[e] \o Bytes(Len(frames[e]) + 1, f),
           send_fds'[e] = send_fds[e] \o f.fds,
           \A i \in 1..Len(f.fds) : f.fds[i] = FdsUpTo(frames[e], Len(frames[e])) + i,
           frames'[Peer(e)] = frames[Peer(e)], wire'[e] = wire[e], written'[e] = written[e],
           unprocessed_bytes'[Peer(e)] = unprocessed_bytes[Peer(e)],
           unprocessed_fds'[Peer(e)] = unprocessed_fds[Peer(e)],
           Parsed(Peer(e))' = Parsed(Peer(e)), LetGo(Peer(e))' = LetGo(Peer(e)),
           received_fd_count'[Peer(e)] = received_fd_count[Peer(e)],
           acknowledged_fd_count'[Peer(e)] = acknowledged_fd_count[Peer(e)],
           Ended(e) => Ended(e)', open' = open
    PROVE  \E k \in 0..Len(frames'[e]) : Stream(e, k)'
<1> DEFINE p == Peer(e)
           fs == frames[e]
           gs == Append(fs, f)
           w == wire[e]
<1>1. p \in Endpoint
  BY OtherEnd
<1>2. PICK k \in 0..Len(fs) : Stream(e, k)
  BY DEF StreamInv
<1>3. /\ fs \in Seq(Frame) /\ Len(fs) \in Nat /\ w \in Seq(Carrier)
      /\ send_bytes[e] \in Seq(Nat \X Nat) /\ send_fds[e] \in Seq(Nat)
      /\ unprocessed_bytes[p] \in Seq(Nat \X Nat) /\ unprocessed_fds[p] \in Seq(Nat)
  BY <1>1, EndTypes
<1>4. k \in 0..Len(gs) /\ Len(gs) = Len(fs) + 1
  BY <1>2, <1>3, FrameSumsAppend
<1>5. Flows(e, p, k)'
  <2>1. BytesFlow(fs, k, unprocessed_bytes[p], w) /\ FdsFlow(fs, k, unprocessed_fds[p], w)
    BY <1>2 DEF Stream, Flows
  <2>2. BytesFlow(gs, k, unprocessed_bytes[p], w)
    <3>1. 0 \in 0..Len(send_bytes[e])
      BY <1>3
    <3> QED
      BY <1>2, <1>3, <2>1, <3>1, BytesEnqueued
  <2>3. FdsFlow(gs, k, unprocessed_fds[p], w)
    <3>1. 0 \in 0..Len(send_fds[e])
      BY <1>3
    <3> QED
      BY <1>2, <1>3, <2>1, <3>1, FdsEnqueued
  <2> QED
    BY <2>2, <2>3 DEF Flows
<1>6. ParsedFits(e, p, k)'
  <2>1. ParsedFits(e, p, k)
    BY <1>2 DEF Stream
  <2>2. /\ MessagesIn(gs)[k] = MessagesIn(fs)[k] /\ FdsUpTo(gs, k) = FdsUpTo(fs, k)
        /\ AcksUpTo(gs, k) = AcksUpTo(fs, k)
    BY <1>2, <1>3, MessagesAppend, FrameSumsAppend
  <2> QED
    BY <2>1, <2>2 DEF ParsedFits
<1>7. ASSUME Links(e, p, k), ~Ended(e) PROVE Links(e, p, k)'
  <2>1. /\ written[e].bytes \in 0..Len(send_bytes[e]) /\ written[e].fds \in 0..Len(send_fds[e])
    BY <1>7, WrittenFits
  <2>2. /\ BytesLinked(fs, k, unprocessed_bytes[p], w, send_bytes[e], written[e].bytes)
        /\ FdsLinked(fs, k, unprocessed_fds[p], w, send_fds[e], written[e].fds)
    BY <1>7 DEF Links
  <2>3. BytesLinked(gs, k, unprocessed_bytes[p], w, send_bytes[e] \o Bytes(Len(fs) + 1, f),
                    written[e].bytes)
    BY <1>2, <1>3, <2>1, <2>2, BytesEnqueued
  <2>4. FdsLinked(gs, k, unprocessed_fds[p], w, send_fds[e] \o f.fds, written[e].fds)
    BY <1>2, <1>3, <2>1, <2>2, FdsEnqueued
  <2> QED
    BY <2>3, <2>4 DEF Links
<1>8. (Links(e, p, k) \/ Ended(e) \/ ~open[p])'
  <2>1. Links(e, p, k) \/ Ended(e) \/ ~open[p]
    BY <1>2 DEF Stream
  <2> QED
    BY <1>7, <2>1
<1>9. Stream(e, k)'
  BY <1>5, <1>6, <1>8 DEF Stream
<1> QED
  BY <1>4, <1>9

\* The frames of an end still fit when one that fits comes after them.
LEMMA FramesStillFit ==
    ASSUME NEW fs \in Seq(Frame), NEW f \in Frame, \A n \in 1..Len(fs) : FrameFits(fs, n),
           IF f.type = "Payload"
           THEN /\ f.fds = From(FdsUpTo(fs, Len(fs)), f.fd_count)
                /\ f.payload_size \in PayloadSizes /\ f.fd_count \in FdCounts
           ELSE f.fds = <<>> /\ f.payload_size = 0
    PROVE  \A n \in 1..Len(Append(fs, f)) : FrameFits(Append(fs, f), n)
<1> DEFINE gs == Append(fs, f)
<1>1. /\ Len(gs) = Len(fs) + 1 /\ Len(fs) \in Nat /\ gs[Len(fs) + 1] = f
      /\ \A n \in 1..Len(fs) : gs[n] = fs[n]
      /\ \A n \in 0..Len(fs) : FdsUpTo(gs, n) = FdsUpTo(fs, n)
  BY FrameSumsAppend
<1> HIDE DEF gs
<1>2. SUFFICES ASSUME NEW n \in 1..Len(gs) PROVE FrameFits(gs, n)
  BY DEF gs
<1>3. CASE n <= Len(fs)
  <2>1. n \in 1..Len(fs) /\ n - 1 \in 0..Len(fs)
    BY <1>1, <1>3
  <2>2. FrameFits(fs, n) /\ gs[n] = fs[n] /\ FdsUpTo(gs, n - 1) = FdsUpTo(fs, n - 1)
    BY <1>1, <2>1
  <2> QED
    BY <2>2 DEF FrameFits
<1>4. CASE ~(n <= Len(fs))
  <2>1. n = Len(fs) + 1 /\ n - 1 = Len(fs) /\ Len(fs) \in 0..Len(fs)
    BY <1>1, <1>4
  <2>2. gs[n] = f /\ FdsUpTo(gs, n - 1) = FdsUpTo(fs, Len(fs))
    BY <1>1, <2>1
  <2> QED
    BY <2>2 DEF FrameFits
<1> QED
  BY <1>3, <1>4

\* enqueue_message keeps both streams.
LEMMA EnqueueKeepsStreams ==
    ASSUME IndInv, StreamInv, NEW e \in Endpoint, EnqueueMessage(e)
    PROVE  StreamInv'
<1> DEFINE p == Peer(e)
           f == posting[e]
           fs == frames[e]
           gs == Append(fs, f)
           all == FdsUpTo(fs, Len(fs))
<1>1. p \in Endpoint /\ p # e /\ Peer(p) = e
  BY OtherEnd
<1>2. /\ wire' = wire /\ written' = written /\ peeked' = peeked /\ io_pc' = io_pc
      /\ stop_op' = stop_op /\ open' = open /\ io_thread_state' = io_thread_state
      /\ retained_fds' = retained_fds /\ fds_posted' = fds_posted
      /\ unprocessed_bytes' = unprocessed_bytes /\ unprocessed_fds' = unprocessed_fds
      /\ received_fd_count' = received_fd_count /\ acknowledged_fd_count' = acknowledged_fd_count
      /\ delivered' = delivered /\ incoming_messages' = incoming_messages /\ batch' = batch
  BY DEF EnqueueMessage, control, parser, unprocessed, counts, ioLocals, polled, transfer
<1>3. /\ main_pc[e] = "enqueue" /\ main_pc'[e] = "wake" /\ main_pc'[p] = main_pc[p]
      /\ posting'[e] = NoFrame /\ posting'[p] = posting[p]
      /\ frames'[e] = gs /\ frames'[p] = frames[p]
      /\ send_bytes'[e] = send_bytes[e] \o Bytes(Len(frames[e]) + 1, f)
      /\ send_bytes'[p] = send_bytes[p]
      /\ send_fds'[e] = send_fds[e] \o f.fds /\ send_fds'[p] = send_fds[p]
  BY <1>1, EndFunctions DEF EnqueueMessage, MainStep
<1>4. EndFits(e) /\ EndFits(p)
  BY <1>1 DEF StreamInv
<1>5. /\ f \in Frame /\ fs \in Seq(Frame) /\ Len(fs) \in Nat /\ send_fds[e] \in Seq(Nat)
      /\ fds_posted[e] \in Nat
  BY EndTypes
<1>6. /\ f.type = "Payload" /\ f.fds = From(all, f.fd_count) /\ fds_posted[e] = all + f.fd_count
      /\ f.payload_size \in PayloadSizes /\ f.fd_count \in FdCounts
  BY <1>3, <1>4 DEF EndFits, PostingFits
<1>7. all \in Nat /\ f.fd_count \in Nat
  <2>1. Len(fs) \in 0..Len(fs)
    BY <1>5
  <2>2. all \in Nat
    BY <1>5, <2>1, FrameSums
  <2>3. f.fd_count \in Nat
    BY <1>5 DEF Frame
  <2> QED
    BY <2>2, <2>3
<1>8. /\ f.fds \in Seq(Nat) /\ Len(f.fds) = f.fd_count
      /\ \A i \in 1..f.fd_count : f.fds[i] = all + i
  <2> HIDE DEF all, f
  <2>1. /\ From(all, f.fd_count) \in Seq(Nat) /\ Len(From(all, f.fd_count)) = f.fd_count
        /\ \A i \in 1..f.fd_count : From(all, f.fd_count)[i] = all + i
    BY <1>7, FromProperties
  <2> QED
    BY <1>6, <2>1
<1>9. /\ gs \in Seq(Frame) /\ Len(gs) = Len(fs) + 1 /\ gs[Len(fs) + 1] = f
      /\ FdsUpTo(gs, Len(gs)) = all + f.fd_count
      /\ AcksUpTo(gs, Len(gs)) = AcksUpTo(fs, Len(fs))
  <2>1. /\ gs \in Seq(Frame) /\ Len(gs) = Len(fs) + 1 /\ gs[Len(fs) + 1] = f
        /\ FdsUpTo(gs, Len(fs)) = all /\ AcksUpTo(gs, Len(fs)) = AcksUpTo(fs, Len(fs))
    BY <1>5, FrameSumsAppend
  <2> HIDE DEF gs, f, all
  <2>2. Len(gs) \in 1..Len(gs) /\ Len(gs) - 1 = Len(fs)
    BY <1>5, <2>1
  <2>3. /\ FdsUpTo(gs, Len(gs)) = FdsUpTo(gs, Len(gs) - 1) + Len(gs[Len(gs)].fds)
        /\ AcksUpTo(gs, Len(gs)) = AcksUpTo(gs, Len(gs) - 1)
             + (IF gs[Len(gs)].type = "Acknowledgement" THEN gs[Len(gs)].fd_count ELSE 0)
    BY <2>1, <2>2, FrameSums
  <2>4. gs[Len(gs)] = f
    BY <2>1
  <2>5. AcksUpTo(gs, Len(gs)) = AcksUpTo(fs, Len(fs)) + 0
    BY <1>6, <2>1, <2>2, <2>3, <2>4
  <2>6. AcksUpTo(fs, Len(fs)) \in Nat
    BY <1>5, FrameSums
  <2> QED
    BY <1>8, <2>1, <2>2, <2>3, <2>4, <2>5, <2>6
<1>10. (\A n \in 1..Len(frames[e]) : FrameFits(frames[e], n))'
  <2>1. \A n \in 1..Len(gs) : FrameFits(gs, n)
    BY <1>4, <1>5, <1>6, FramesStillFit DEF EndFits
  <2> QED
    BY <1>3, <2>1
<1> HIDE DEF gs, f, fs, all
<1>11. PostingFits(e)'
  <2>1. /\ NoFrame.type = "Payload" /\ NoFrame.fds = <<>> /\ NoFrame.fd_count = 0
    BY DEF NoFrame
  <2>2. From(FdsUpTo(gs, Len(gs)), 0) = <<>>
    BY DEF From
  <2>3. FdsUpTo(gs, Len(gs)) + 0 = fds_posted[e]
    BY <1>5, <1>6, <1>7, <1>9
  <2> QED
    BY <1>2, <1>3, <2>1, <2>2, <2>3 DEF PostingFits
<1>12. LetGo(e)' = LetGo(e) /\ LetGo(p)' = LetGo(p)
  BY <1>2 DEF LetGo
<1>13. LetGo(e) \in Nat /\ LetGo(e) <= all
  <2>1. PICK k \in 0..Len(frames[e]) : Stream(e, k)
    BY DEF StreamInv
  <2>2. /\ LetGo(e) \in Nat /\ LetGo(e) + acknowledged_fd_count[e] <= FdsUpTo(frames[e], k)
        /\ FdsUpTo(frames[e], k) <= all /\ FdsUpTo(frames[e], k) \in Nat
    BY <2>1, LetGoBounds DEF all, fs
  <2>3. acknowledged_fd_count[e] \in Nat
    BY EndTypes
  <2> QED
    BY <1>7, <2>2, <2>3
<1>14. RetainedFits(e)'
  <2>1. /\ Len(retained_fds[e]) <= fds_posted[e] /\ retained_fds[e] = From(LetGo(e), Len(retained_fds[e]))
        /\ open[p] => \A i \in 1..Len(send_fds[e]) :
                LetGo(e) < send_fds[e][i] /\ send_fds[e][i] <= fds_posted[e]
    BY <1>4 DEF EndFits, RetainedFits
  <2>2. /\ Len(send_fds'[e]) = Len(send_fds[e]) + f.fd_count
        /\ \A i \in 1..(Len(send_fds[e]) + f.fd_count) : send_fds'[e][i] =
                IF i <= Len(send_fds[e]) THEN send_fds[e][i] ELSE f.fds[i - Len(send_fds[e])]
    <3> DEFINE q == send_fds[e]
               s == f.fds
    <3>1. q \in Seq(Nat) /\ s \in Seq(Nat) /\ Len(s) = f.fd_count /\ send_fds'[e] = q \o s
      BY <1>3, <1>5, <1>8
    <3> HIDE DEF q, s
    <3>2. /\ Len(q \o s) = Len(q) + Len(s)
          /\ \A i \in 1..(Len(q) + Len(s)) :
                (q \o s)[i] = IF i <= Len(q) THEN q[i] ELSE s[i - Len(q)]
      BY <3>1, ConcatProperties
    <3>3. /\ Len(send_fds'[e]) = Len(q) + f.fd_count
          /\ \A i \in 1..(Len(q) + f.fd_count) :
                send_fds'[e][i] = IF i <= Len(q) THEN q[i] ELSE s[i - Len(q)]
      BY <3>1, <3>2
    <3> QED
      BY <3>3 DEF q, s
  <2>3. ASSUME open[p], NEW i \in 1..Len(send_fds'[e])
        PROVE  LetGo(e) < send_fds'[e][i] /\ send_fds'[e][i] <= fds_posted[e]
    <3>1. CASE i <= Len(send_fds[e])
      <4>1. i \in 1..Len(send_fds[e])
        BY <1>5, <2>2, <3>1
      <4> QED
        BY <2>1, <2>2, <2>3, <3>1, <4>1
    <3>2. CASE ~(i <= Len(send_fds[e]))
      <4> DEFINE j == i - Len(send_fds[e])
      <4>1. j \in 1..f.fd_count
        BY <1>5, <1>7, <2>2, <3>2, PastFirst
      <4>2. send_fds'[e][i] = f.fds[j]
        BY <2>2, <3>2
      <4> HIDE DEF j
      <4>3. send_fds'[e][i] = all + j
        BY <1>8, <4>1, <4>2
      <4> QED
        BY <1>6, <1>7, <1>13, <4>1, <4>3
    <3> QED
      BY <3>1, <3>2
  <2> QED
    BY <1>2, <1>12, <2>1, <2>3 DEF RetainedFits
<1>15. FdsRide(e)' /\ StopFits(e)'
  BY <1>2, <1>3, <1>4 DEF EndFits, FdsRide, StopFits, Stopping
<1>16. EndFits(e)'
  BY <1>10, <1>11, <1>14, <1>15 DEF EndFits
<1>17. EndFits(p)'
  BY <1>1, <1>2, <1>3, SameEnd
<1>18. Parsed(e)' = Parsed(e) /\ Parsed(p)' = Parsed(p)
  BY <1>2 DEF Parsed
<1>19. (Ended(e) => Ended(e)') /\ (Ended(p) => Ended(p)')
  BY <1>2 DEF Ended
<1>20. \E k \in 0..Len(frames'[e]) : Stream(e, k)'
  <2>1. \A i \in 1..Len(f.fds) : f.fds[i] = FdsUpTo(frames[e], Len(frames[e])) + i
    BY <1>8 DEF all, fs
  <2>2. frames'[e] = Append(frames[e], f)
    BY <1>3 DEF gs, fs
  <2> QED
    BY <1>2, <1>3, <1>5, <1>12, <1>18, <1>19, <2>1, <2>2, FrameEnqueued
<1>21. \E k \in 0..Len(frames'[p]) : Stream(p, k)'
  <2>1. \E k \in 0..Len(frames[p]) : Stream(p, k)
    BY <1>1 DEF StreamInv
  <2>2. AcksUpTo(frames'[e], Len(frames'[e])) = AcksUpTo(frames[e], Len(frames[e]))
    BY <1>3, <1>9 DEF fs
  <2> QED
    BY <1>1, <1>2, <1>3, <1>12, <1>18, <1>19, <2>1, <2>2, SameStream
<1> QED
  BY <1>16, <1>17, <1>20, <1>21, BothEnds

\* read_incoming_messages acknowledges the descriptors it has parsed.
LEMMA AcknowledgeKeepsStreams ==
    ASSUME IndInv, StreamInv, NEW e \in Endpoint, AcknowledgeReceivedFds(e)
    PROVE  StreamInv'
<1> DEFINE p == Peer(e)
           f == Acknowledgement(e)
           fs == frames[e]
           gs == Append(fs, f)
<1>1. p \in Endpoint /\ p # e /\ Peer(p) = e
  BY OtherEnd
<1>2. /\ wire' = wire /\ written' = written /\ peeked' = peeked /\ main_pc' = main_pc
      /\ stop_op' = stop_op /\ open' = open /\ io_thread_state' = io_thread_state
      /\ retained_fds' = retained_fds /\ fds_posted' = fds_posted /\ posting' = posting
      /\ send_fds' = send_fds
      /\ unprocessed_bytes' = unprocessed_bytes /\ unprocessed_fds' = unprocessed_fds
      /\ acknowledged_fd_count' = acknowledged_fd_count
      /\ delivered' = delivered /\ incoming_messages' = incoming_messages /\ batch' = batch
  BY DEF AcknowledgeReceivedFds, control, unprocessed, polled, transfer, mainLocals, mainRest
<1>3. /\ io_pc[e] = "acknowledge" /\ io_pc'[e] = AfterAcknowledging(e, peer_eof[e])
      /\ io_pc'[p] = io_pc[p]
      /\ frames'[e] = gs /\ frames'[p] = frames[p]
      /\ send_bytes'[e] = send_bytes[e] \o Bytes(Len(frames[e]) + 1, f)
      /\ send_bytes'[p] = send_bytes[p]
      /\ received_fd_count'[e] = 0 /\ received_fd_count'[p] = received_fd_count[p]
  BY <1>1, EndFunctions DEF AcknowledgeReceivedFds, IoStep
<1>4. EndFits(e) /\ EndFits(p)
  BY <1>1 DEF StreamInv
<1>5. /\ fs \in Seq(Frame) /\ Len(fs) \in Nat /\ send_fds[e] \in Seq(Nat)
      /\ received_fd_count[e] \in Nat
  BY EndTypes
<1>6. /\ f.type = "Acknowledgement" /\ f.fds = <<>> /\ f.payload_size = 0
      /\ f.fd_count = received_fd_count[e]
  BY DEF Acknowledgement
<1>7. f \in Frame
  BY <1>5 DEF Acknowledgement, Frame
<1>8. /\ FdsUpTo(gs, Len(gs)) = FdsUpTo(fs, Len(fs))
      /\ AcksUpTo(gs, Len(gs)) = AcksUpTo(fs, Len(fs)) + received_fd_count[e]
      /\ AcksUpTo(fs, Len(fs)) \in Nat
  <2> HIDE DEF f, fs
  <2>1. /\ gs \in Seq(Frame) /\ Len(gs) = Len(fs) + 1 /\ gs[Len(fs) + 1] = f
        /\ FdsUpTo(gs, Len(fs)) = FdsUpTo(fs, Len(fs))
        /\ AcksUpTo(gs, Len(fs)) = AcksUpTo(fs, Len(fs))
    BY <1>5, <1>7, FrameSumsAppend
  <2> HIDE DEF gs
  <2>2. Len(gs) \in 1..Len(gs) /\ Len(gs) - 1 = Len(fs) /\ Len(fs) \in 0..Len(fs)
    BY <1>5, <2>1
  <2>3. /\ FdsUpTo(gs, Len(gs)) = FdsUpTo(gs, Len(gs) - 1) + Len(gs[Len(gs)].fds)
        /\ AcksUpTo(gs, Len(gs)) = AcksUpTo(gs, Len(gs) - 1)
             + (IF gs[Len(gs)].type = "Acknowledgement" THEN gs[Len(gs)].fd_count ELSE 0)
    BY <2>1, <2>2, FrameSums
  <2>4. gs[Len(gs)] = f /\ Len(f.fds) = 0
    BY <1>6, <2>1
  <2>5. FdsUpTo(fs, Len(fs)) \in Nat /\ AcksUpTo(fs, Len(fs)) \in Nat
    BY <1>5, <2>2, FrameSums
  <2>6. FdsUpTo(gs, Len(gs)) = FdsUpTo(fs, Len(fs)) + 0
    BY <2>1, <2>2, <2>3, <2>4
  <2>7. AcksUpTo(gs, Len(gs)) = AcksUpTo(fs, Len(fs)) + received_fd_count[e]
    BY <1>6, <2>1, <2>2, <2>3, <2>4
  <2> QED
    BY <2>5, <2>6, <2>7
<1>9. (\A n \in 1..Len(frames[e]) : FrameFits(frames[e], n))'
  <2>1. \A n \in 1..Len(gs) : FrameFits(gs, n)
    BY <1>4, <1>5, <1>6, <1>7, FramesStillFit DEF EndFits
  <2> QED
    BY <1>3, <2>1
<1>10. PostingFits(e)'
  <2>1. PostingFits(e) /\ FdsUpTo(frames'[e], Len(frames'[e])) = FdsUpTo(frames[e], Len(frames[e]))
    BY <1>3, <1>4, <1>8 DEF EndFits
  <2> QED
    BY <1>2, <2>1 DEF PostingFits
<1>11. io_pc'[e] # "send"
  BY <1>3 DEF AfterAcknowledging, AfterPublishing, AfterReading
<1>12. RetainedFits(e)' /\ FdsRide(e)' /\ StopFits(e)'
  BY <1>2, <1>4, <1>11 DEF EndFits, RetainedFits, LetGo, FdsRide, StopFits, Stopping
<1>13. EndFits(e)'
  BY <1>9, <1>10, <1>12 DEF EndFits
<1>14. EndFits(p)'
  BY <1>1, <1>2, <1>3, SameEnd
<1>15. Parsed(e)' = Parsed(e) /\ Parsed(p)' = Parsed(p) /\ LetGo(e)' = LetGo(e) /\ LetGo(p)' = LetGo(p)
  BY <1>2 DEF Parsed, LetGo
<1>16. ~Ended(e) /\ (Ended(p) => Ended(p)')
  BY <1>2, <1>3 DEF Ended, Ending
<1>17. \E k \in 0..Len(frames'[e]) : Stream(e, k)'
  <2>1. \A i \in 1..Len(f.fds) : f.fds[i] = FdsUpTo(frames[e], Len(frames[e])) + i
    <3>1. Len(f.fds) = 0
      BY <1>6
    <3> QED
      BY <3>1
  <2>2. send_fds'[e] = send_fds[e] \o f.fds
    <3>1. send_fds[e] \o <<>> = send_fds[e]
      BY <1>5, ConcatEmptySeq
    <3> QED
      BY <1>2, <1>6, <3>1
  <2>3. frames'[e] = Append(frames[e], f)
    BY <1>3
  <2> HIDE DEF f
  <2> QED
    BY <1>2, <1>3, <1>7, <1>15, <1>16, <2>1, <2>2, <2>3, FrameEnqueued
<1>18. \E k \in 0..Len(frames'[p]) : Stream(p, k)'
  <2>1. \E k \in 0..Len(frames[p]) : Stream(p, k)
    BY <1>1 DEF StreamInv
  <2>2. AcksUpTo(frames'[e], Len(frames'[e])) + received_fd_count'[e] =
            AcksUpTo(frames[e], Len(frames[e])) + received_fd_count[e]
    BY <1>3, <1>5, <1>8
  <2> QED
    BY <1>1, <1>2, <1>3, <1>15, <1>16, <2>1, <2>2, SameStream
<1> QED
  BY <1>13, <1>14, <1>17, <1>18, BothEnds

\* What is acknowledged has been retained, and is let go of.
LEMMA ReleaseKeepsStreams ==
    ASSUME IndInv, StreamInv, NEW e \in Endpoint, ReleaseAcknowledgedFds(e)
    PROVE  StreamInv'
<1> DEFINE p == Peer(e)
           L == Len(retained_fds[e])
           a == acknowledged_fd_count[e]
<1>1. p \in Endpoint /\ p # e /\ Peer(p) = e
  BY OtherEnd
<1>2. /\ wire' = wire /\ written' = written /\ peeked' = peeked /\ main_pc' = main_pc
      /\ stop_op' = stop_op /\ open' = open /\ io_thread_state' = io_thread_state
      /\ fds_posted' = fds_posted /\ posting' = posting
      /\ send_fds' = send_fds /\ send_bytes' = send_bytes /\ frames' = frames
      /\ unprocessed_bytes' = unprocessed_bytes /\ unprocessed_fds' = unprocessed_fds
      /\ received_fd_count' = received_fd_count
      /\ delivered' = delivered /\ incoming_messages' = incoming_messages /\ batch' = batch
  BY DEF ReleaseAcknowledgedFds, unprocessed, polled, transfer, mainLocals, mainRest, outside
<1>3. /\ io_pc[e] = "release_acked" /\ io_pc'[p] = io_pc[p]
      /\ \E eof \in BOOLEAN : io_pc'[e] = AfterReleasing(e, eof)
      /\ retained_fds'[e] = Drop(retained_fds[e], Released(e)) /\ retained_fds'[p] = retained_fds[p]
      /\ acknowledged_fd_count'[e] = 0 /\ acknowledged_fd_count'[p] = acknowledged_fd_count[p]
  <2>1. peer_eof[e] \in BOOLEAN
    BY DEF IndInv, TypeOK
  <2>2. (peer_eof[e] \/ acknowledged_fd_count[e] > Len(retained_fds[e])) \in BOOLEAN
    BY <2>1
  <2>3. io_pc[e] = "release_acked" /\ io_pc'[p] = io_pc[p] /\ io_pc'[e] =
        AfterReleasing(e, peer_eof[e] \/ acknowledged_fd_count[e] > Len(retained_fds[e]))
    BY <1>1, EndFunctions DEF ReleaseAcknowledgedFds, IoStep
  <2>4. /\ retained_fds'[e] = Drop(retained_fds[e], Released(e)) /\ retained_fds'[p] = retained_fds[p]
        /\ acknowledged_fd_count'[e] = 0 /\ acknowledged_fd_count'[p] = acknowledged_fd_count[p]
    BY <1>1, EndFunctions DEF ReleaseAcknowledgedFds
  <2> QED
    BY <2>2, <2>3, <2>4
<1>4. EndFits(e) /\ EndFits(p)
  BY <1>1 DEF StreamInv
<1>5. /\ L \in Nat /\ retained_fds[e] \in Seq(Nat) /\ a \in Nat /\ fds_posted[e] \in Nat
      /\ send_fds[e] \in Seq(Nat)
  BY EndTypes
<1>6. L <= fds_posted[e] /\ retained_fds[e] = From(LetGo(e), L)
  BY <1>4 DEF EndFits, RetainedFits
<1>7. PICK k \in 0..Len(frames[e]) : Stream(e, k)
  BY DEF StreamInv
<1>8. /\ LetGo(e) \in Nat /\ LetGo(e) + a <= FdsUpTo(frames[e], k) /\ FdsUpTo(frames[e], k) \in Nat
      /\ FdsUpTo(frames[e], k) <= fds_posted[e]
  <2>1. /\ LetGo(e) \in Nat /\ LetGo(e) + a <= FdsUpTo(frames[e], k) /\ FdsUpTo(frames[e], k) \in Nat
        /\ FdsUpTo(frames[e], k) <= FdsUpTo(frames[e], Len(frames[e]))
        /\ FdsUpTo(frames[e], Len(frames[e])) <= fds_posted[e]
        /\ FdsUpTo(frames[e], Len(frames[e])) \in Nat
    BY <1>7, LetGoBounds
  <2> QED
    BY <1>5, <2>1
<1>9. LetGo(e) + L = fds_posted[e]
  BY <1>5, <1>6 DEF LetGo
<1>10. a <= L /\ Released(e) = a
  <2>1. a <= L
    BY <1>5, <1>8, <1>9
  <2> QED
    BY <2>1 DEF Released, Lesser
<1> HIDE DEF L, a
<1>11. retained_fds'[e] = From(LetGo(e) + a, L - a) /\ Len(retained_fds'[e]) = L - a
  <2>1. a \in 0..L
    BY <1>5, <1>10
  <2>2. Drop(From(LetGo(e), L), a) = From(LetGo(e) + a, L - a)
    BY <1>5, <1>8, <2>1, FromParts
  <2>3. LetGo(e) + a \in Nat /\ L - a \in Nat
    BY <1>5, <1>8, <1>10
  <2>4. Len(From(LetGo(e) + a, L - a)) = L - a
    BY <2>3, FromProperties
  <2> QED
    BY <1>3, <1>6, <1>10, <2>2, <2>4
<1>12. LetGo(e)' = LetGo(e) + a /\ LetGo(p)' = LetGo(p)
  <2>1. fds_posted[e] - (L - a) = LetGo(e) + a
    BY <1>5, <1>8, <1>9, <1>10
  <2> QED
    BY <1>2, <1>3, <1>11, <2>1 DEF LetGo
<1>13. RetainedFits(e)'
  <2>1. Len(retained_fds'[e]) <= fds_posted[e]
    BY <1>5, <1>6, <1>10, <1>11 DEF L
  <2>2. ASSUME open[p], NEW i \in 1..Len(send_fds[e])
        PROVE  LetGo(e) + a < send_fds[e][i] /\ send_fds[e][i] <= fds_posted[e]
    <3>1. send_fds[e][i] <= fds_posted[e]
      BY <1>4, <2>2 DEF EndFits, RetainedFits
    <3>2. ~Ended(e) /\ written[e] = Nothing
      BY <1>3 DEF Ended, Ending, IndInv, PeekedStays, Peeked
    <3>3. FdsLinked(frames[e], k, unprocessed_fds[p], wire[e], send_fds[e], 0)
      BY <1>7, <2>2, <3>2 DEF Stream, Links, Nothing
    <3> DEFINE gone == FdsUpTo(frames[e], k) + Len(unprocessed_fds[p]) + Totals(WireFds(wire[e]))[Len(wire[e])]
    <3>4. \A j \in 1..(Len(send_fds[e]) - 0) : send_fds[e][0 + j] = gone + j
      BY <3>3 DEF FdsLinked
    <3>5. i \in 1..(Len(send_fds[e]) - 0) /\ 0 + i = i /\ i \in Nat \ {0}
      BY <1>5
    <3>6. send_fds[e][i] = gone + i
      BY <3>4, <3>5
    <3>7. Len(unprocessed_fds[p]) \in Nat /\ Totals(WireFds(wire[e]))[Len(wire[e])] \in Nat
      <4>1. unprocessed_fds[p] \in Seq(Nat) /\ wire[e] \in Seq(Carrier)
        BY <1>1, EndTypes
      <4>2. Len(wire[e]) \in 0..Len(wire[e])
        BY <4>1
      <4> QED
        BY <4>1, <4>2, WireNumbers
    <3>8. gone \in Nat /\ FdsUpTo(frames[e], k) <= gone
      <4> DEFINE f == FdsUpTo(frames[e], k)
                 m == Len(unprocessed_fds[p])
                 t == Totals(WireFds(wire[e]))[Len(wire[e])]
      <4>1. f \in Nat /\ m \in Nat /\ t \in Nat /\ gone = f + m + t
        BY <1>8, <3>7
      <4> HIDE DEF f, m, t, gone
      <4>2. gone \in Nat /\ f <= gone
        BY <4>1
      <4> QED
        BY <4>2 DEF f
    <3> HIDE DEF gone
    <3> QED
      BY <1>5, <1>8, <3>1, <3>5, <3>6, <3>8 DEF a
  <2> QED
    BY <1>2, <1>11, <1>12, <2>1, <2>2 DEF RetainedFits
<1>14. io_pc'[e] # "send"
  BY <1>3, AfterLemma
<1>15. PostingFits(e)' /\ FdsRide(e)' /\ StopFits(e)'
  BY <1>2, <1>4, <1>14 DEF EndFits, PostingFits, FdsRide, StopFits, Stopping
<1>16. EndFits(e)'
  BY <1>2, <1>4, <1>13, <1>15 DEF EndFits
<1>17. EndFits(p)'
  BY <1>1, <1>2, <1>3, SameEnd
<1>18. Parsed(e)' = Parsed(e) /\ Parsed(p)' = Parsed(p)
  BY <1>2 DEF Parsed
<1>19. ~Ended(e) /\ (Ended(p) => Ended(p)')
  BY <1>2, <1>3 DEF Ended, Ending
<1>20. \E j \in 0..Len(frames'[e]) : Stream(e, j)'
  BY <1>1, <1>2, <1>3, <1>7, <1>12, <1>18, <1>19, SameStream
<1>21. \E j \in 0..Len(frames'[p]) : Stream(p, j)'
  <2>1. \E j \in 0..Len(frames[p]) : Stream(p, j)
    BY <1>1 DEF StreamInv
  <2>2. LetGo(e)' + acknowledged_fd_count'[e] = LetGo(e) + acknowledged_fd_count[e]
    BY <1>3, <1>5, <1>8, <1>12 DEF a
  <2> QED
    BY <1>1, <1>2, <1>18, <1>19, <2>1, <2>2, SameStream
<1> QED
  BY <1>16, <1>17, <1>20, <1>21, BothEnds

\* transfer_data writes what comes next.
LEMMA SendKeepsStreams ==
    ASSUME IndInv, StreamInv, NEW e \in Endpoint, NEW n \in 1..ChunkSize, SendSome(e, n)
    PROVE  StreamInv'
<1> DEFINE p == Peer(e)
           w == wire[e]
           q == send_bytes[e]
           qf == send_fds[e]
           m == written[e].bytes
           mf == written[e].fds
           c == peeked[e].fds
           chunk == Chunk(e, n)
<1>1. p \in Endpoint /\ p # e /\ Peer(p) = e
  BY OtherEnd
<1>2. /\ main_pc' = main_pc /\ peeked' = peeked /\ io_pc' = io_pc
      /\ stop_op' = stop_op /\ open' = open /\ io_thread_state' = io_thread_state
      /\ fds_posted' = fds_posted /\ posting' = posting /\ retained_fds' = retained_fds
      /\ send_fds' = send_fds /\ send_bytes' = send_bytes /\ frames' = frames
      /\ unprocessed_bytes' = unprocessed_bytes /\ unprocessed_fds' = unprocessed_fds
      /\ received_fd_count' = received_fd_count /\ acknowledged_fd_count' = acknowledged_fd_count
      /\ delivered' = delivered /\ incoming_messages' = incoming_messages /\ batch' = batch
  BY DEF SendSome, shared, control, queues, parser, unprocessed, counts, polled, mainLocals, mainRest
<1>3. /\ io_pc[e] = "send" /\ open[p] /\ n <= peeked[e].bytes - m
      /\ wire'[e] = w \o chunk /\ wire'[p] = wire[p]
      /\ written'[e] = [bytes |-> m + n, fds |-> c] /\ written'[p] = written[p]
  BY <1>1, EndFunctions DEF SendSome, Unsent
<1>4. EndFits(e) /\ EndFits(p)
  BY <1>1 DEF StreamInv
<1>5. /\ w \in Seq(Carrier) /\ q \in Seq(Nat \X Nat) /\ qf \in Seq(Nat)
      /\ unprocessed_bytes[p] \in Seq(Nat \X Nat) /\ unprocessed_fds[p] \in Seq(Nat)
      /\ frames[e] \in Seq(Frame) /\ Len(q) \in Nat /\ Len(qf) \in Nat
  BY <1>1, EndTypes, LenProperties
<1>6. m \in Nat /\ mf \in Nat /\ c \in Nat /\ peeked[e].bytes \in Nat /\ n \in Nat \ {0}
  <2>1. written[e] \in Amount /\ peeked[e] \in Amount
    BY DEF IndInv, TypeOK
  <2>2. n \in Nat \ {0}
    BY SizeAssumption DEF SizeAssumption
  <2> QED
    BY <2>1, <2>2 DEF Amount
<1>7. /\ m <= peeked[e].bytes /\ peeked[e].bytes <= Len(q) /\ mf <= c /\ c <= Len(qf)
  BY <1>3 DEF IndInv, PeekedStays, Peeked
<1>8. m + n <= Len(q) /\ m \in 0..Len(q) /\ mf \in 0..Len(qf) /\ c \in mf..Len(qf)
  <2> DEFINE top == peeked[e].bytes
             size == Len(q)
             fds == Len(qf)
  <2>1. /\ m \in Nat /\ mf \in Nat /\ c \in Nat /\ top \in Nat /\ n \in Nat /\ size \in Nat /\ fds \in Nat
        /\ n <= top - m /\ m <= top /\ top <= size /\ mf <= c /\ c <= fds
    BY <1>3, <1>5, <1>6, <1>7
  <2> HIDE DEF m, mf, c, top, size, fds
  <2>2. m + n <= size /\ m \in 0..size /\ mf \in 0..fds /\ c \in mf..fds
    BY <2>1
  <2> QED
    BY <2>2 DEF size, fds
<1>9. mf = IF m = 0 THEN 0 ELSE c
  BY <1>3, <1>4 DEF EndFits, FdsRide
<1>10. /\ chunk \in Seq(Carrier) /\ Len(chunk) = n
       /\ \A i \in 1..n : chunk[i].byte = q[m + i]
       /\ \A i \in 1..n : chunk[i].fds = IF m = 0 /\ i = 1 THEN SubSeq(qf, 1, c) ELSE <<>>
  <2> HIDE DEF q, qf, m, c
  <2>1. \A i \in 1..n : q[m + i] \in Nat \X Nat
    <3>1. SUFFICES ASSUME NEW i \in 1..n PROVE q[m + i] \in Nat \X Nat
      OBVIOUS
    <3>2. m + i \in 1..Len(q)
      BY <1>5, <1>6, <1>8
    <3> QED
      BY <1>5, <3>2, ElementOfSeq
  <2>2. SubSeq(qf, 1, c) \in Seq(Nat)
    <3>1. qf \in Seq(Nat) /\ c \in Nat /\ c <= Len(qf) /\ 1 \in Nat \ {0}
      BY <1>5, <1>6, <1>7
    <3> QED
      BY <3>1, SubSeqType
  <2>3. \A i \in 1..n :
            [byte |-> q[m + i], fds |-> IF m = 0 /\ i = 1 THEN SubSeq(qf, 1, c) ELSE <<>>] \in Carrier
    BY <2>1, <2>2 DEF Carrier
  <2>4. chunk = [i \in 1..n |->
            [byte |-> q[m + i], fds |-> IF m = 0 /\ i = 1 THEN SubSeq(qf, 1, c) ELSE <<>>]]
    BY DEF Chunk, q, qf, m, c
  <2> HIDE DEF chunk
  <2>5. chunk \in [1..n -> Carrier]
    BY <2>3, <2>4
  <2>6. chunk \in Seq(Carrier) /\ Len(chunk) = n
    BY <1>6, <2>5, FunctionIsSequence
  <2> QED
    BY <2>4, <2>6
<1>11. chunk[1].fds = SubSeq(qf, mf + 1, c)
  <2>1. 1 \in 1..n
    BY <1>6
  <2>2. CASE m = 0
    <3>1. mf + 1 = 1
      BY <1>9, <2>2
    <3> QED
      BY <1>10, <2>1, <2>2, <3>1
  <2>3. CASE m # 0
    <3>1. mf = c
      BY <1>9, <2>3
    <3>2. SubSeq(qf, c + 1, c) = <<>>
      BY <1>6, SubSeqEmpty
    <3> QED
      BY <1>10, <2>1, <2>3, <3>1, <3>2
  <2> QED
    BY <2>2, <2>3
<1>12. \A i \in 2..Len(chunk) : chunk[i].fds = <<>>
  <2>1. SUFFICES ASSUME NEW i \in 2..n PROVE chunk[i].fds = <<>>
    BY <1>10
  <2>2. i \in 1..n /\ i # 1
    BY <1>6
  <2> QED
    BY <1>10, <2>2
<1>13. PICK k \in 0..Len(frames[e]) : Stream(e, k)
  BY DEF StreamInv
<1>14. /\ BytesFlow(frames[e], k, unprocessed_bytes[p], w)
       /\ FdsFlow(frames[e], k, unprocessed_fds[p], w) /\ ParsedFits(e, p, k)
  BY <1>13 DEF Stream, Flows
<1>15. /\ BytesLinked(frames[e], k, unprocessed_bytes[p], w, q, m)
       /\ FdsLinked(frames[e], k, unprocessed_fds[p], w, qf, mf)
  <2>1. ~Ended(e)
    BY <1>3 DEF Ended, Ending
  <2> QED
    BY <1>3, <1>13, <2>1 DEF Stream, Links
<1> HIDE DEF w, q, qf, m, mf, c, chunk
<1>16. /\ BytesFlow(frames[e], k, unprocessed_bytes[p], w \o chunk)
       /\ BytesLinked(frames[e], k, unprocessed_bytes[p], w \o chunk, q, m + n)
  <2>1. /\ m \in 0..Len(q) /\ m + Len(chunk) <= Len(q)
        /\ \A i \in 1..Len(chunk) : chunk[i].byte = q[m + i]
    BY <1>8, <1>10
  <2>2. /\ frames[e] \in Seq(Frame) /\ unprocessed_bytes[p] \in Seq(Nat \X Nat)
        /\ w \in Seq(Carrier) /\ q \in Seq(Nat \X Nat) /\ chunk \in Seq(Carrier)
    BY <1>5, <1>10
  <2> HIDE DEF p
  <2>3. /\ BytesFlow(frames[e], k, unprocessed_bytes[p], w \o chunk)
        /\ BytesLinked(frames[e], k, unprocessed_bytes[p], w \o chunk, q, m + Len(chunk))
    BY <1>13, <1>14, <1>15, <2>1, <2>2, BytesWritten
  <2> QED
    BY <1>10, <2>3
<1>17. /\ FdsFlow(frames[e], k, unprocessed_fds[p], w \o chunk)
       /\ FdsLinked(frames[e], k, unprocessed_fds[p], w \o chunk, qf, c)
  <2>1. Len(chunk) > 0
    BY <1>6, <1>10
  <2> QED
    BY <1>5, <1>8, <1>10, <1>11, <1>12, <1>13, <1>14, <1>15, <2>1, FdsWritten
<1>18. Parsed(e)' = Parsed(e) /\ Parsed(p)' = Parsed(p) /\ LetGo(e)' = LetGo(e) /\ LetGo(p)' = LetGo(p)
  BY <1>2 DEF Parsed, LetGo
<1>19. Stream(e, k)'
  <2>1. Flows(e, p, k)'
    BY <1>2, <1>3, <1>16, <1>17 DEF Flows
  <2>2. ParsedFits(e, p, k)'
    BY <1>2, <1>14, <1>18 DEF ParsedFits
  <2>3. written'[e].bytes = m + n /\ written'[e].fds = c
    BY <1>3
  <2>4. Links(e, p, k)'
    BY <1>2, <1>3, <1>16, <1>17, <2>3 DEF Links, q, qf
  <2> QED
    BY <2>1, <2>2, <2>4 DEF Stream
<1>20. \E j \in 0..Len(frames'[e]) : Stream(e, j)'
  BY <1>2, <1>13, <1>19
<1>21. Ended(p) => Ended(p)'
  BY <1>2 DEF Ended
<1>22. \E j \in 0..Len(frames'[p]) : Stream(p, j)'
  <2>1. \E j \in 0..Len(frames[p]) : Stream(p, j)
    BY <1>1 DEF StreamInv
  <2> QED
    BY <1>1, <1>2, <1>3, <1>18, <1>21, <2>1, SameStream
<1>23. EndFits(p)'
  BY <1>1, <1>2, <1>3, SameEnd
<1>24. FdsRide(e)'
  <2>1. written'[e].bytes = m + n /\ written'[e].fds = c
    BY <1>3
  <2>2. m + n # 0
    BY <1>6
  <2> QED
    BY <1>2, <2>1, <2>2 DEF FdsRide, c
<1>25. PostingFits(e)' /\ RetainedFits(e)' /\ StopFits(e)'
  BY <1>2, <1>4 DEF EndFits, PostingFits, RetainedFits, LetGo, StopFits, Stopping
<1>26. EndFits(e)'
  BY <1>2, <1>4, <1>24, <1>25 DEF EndFits
<1> QED
  BY <1>20, <1>22, <1>23, <1>26, BothEnds

\* A write that fails ends the stream, or finds it ended.
LEMMA SendFailsKeepsStreams ==
    ASSUME IndInv, StreamInv, NEW e \in Endpoint, SendFails(e)
    PROVE  StreamInv'
<1> DEFINE p == Peer(e)
<1>1. p \in Endpoint /\ p # e /\ Peer(p) = e
  BY OtherEnd
<1>2. /\ main_pc' = main_pc /\ stop_op' = stop_op /\ open' = open /\ wire' = wire
      /\ fds_posted' = fds_posted /\ posting' = posting /\ retained_fds' = retained_fds
      /\ send_fds' = send_fds /\ send_bytes' = send_bytes /\ frames' = frames
      /\ unprocessed_bytes' = unprocessed_bytes /\ unprocessed_fds' = unprocessed_fds
      /\ received_fd_count' = received_fd_count /\ acknowledged_fd_count' = acknowledged_fd_count
      /\ delivered' = delivered /\ incoming_messages' = incoming_messages /\ batch' = batch
  BY DEF SendFails, queues, parser, unprocessed, counts, mainLocals, mainRest, outside
<1>3. /\ io_pc[e] = "send" /\ io_pc'[e] = "peek" /\ io_pc'[p] = io_pc[p]
      /\ io_thread_state'[e] = "Stopped" /\ io_thread_state'[p] = io_thread_state[p]
      /\ written'[p] = written[p] /\ peeked'[p] = peeked[p]
      /\ ~open[p] \/ "os_error" \in Ops[e]
  BY <1>1, EndFunctions DEF SendFails, IoStep
<1>4. EndFits(e) /\ EndFits(p)
  BY <1>1 DEF StreamInv
<1>5. Parsed(e)' = Parsed(e) /\ Parsed(p)' = Parsed(p) /\ LetGo(e)' = LetGo(e) /\ LetGo(p)' = LetGo(p)
  BY <1>2 DEF Parsed, LetGo
<1>6. PICK k \in 0..Len(frames[e]) : Stream(e, k)
  BY DEF StreamInv
<1>7. Stream(e, k)'
  <2>1. Flows(e, p, k)' /\ ParsedFits(e, p, k)'
    BY <1>2, <1>5, <1>6 DEF Stream, Flows, ParsedFits
  <2>2. Ended(e)' \/ ~open'[p]
    BY <1>2, <1>3 DEF Ended
  <2> QED
    BY <2>1, <2>2 DEF Stream
<1>8. Ended(p) => Ended(p)'
  BY <1>3 DEF Ended
<1>9. \E j \in 0..Len(frames'[p]) : Stream(p, j)'
  <2>1. \E j \in 0..Len(frames[p]) : Stream(p, j)
    BY <1>1 DEF StreamInv
  <2> QED
    BY <1>1, <1>2, <1>3, <1>5, <1>8, <2>1, SameStream
<1>10. EndFits(p)'
  BY <1>1, <1>2, <1>3, SameEnd
<1>11. EndFits(e)'
  <2>1. PostingFits(e)' /\ RetainedFits(e)' /\ StopFits(e)' /\ FdsRide(e)'
    BY <1>2, <1>3, <1>4
    DEF EndFits, PostingFits, RetainedFits, LetGo, StopFits, Stopping, FdsRide
  <2> QED
    BY <1>2, <1>4, <2>1 DEF EndFits
<1> QED
  BY <1>2, <1>6, <1>7, <1>9, <1>10, <1>11, BothEnds

\* SendQueue::discard.
LEMMA DiscardKeepsStreams ==
    ASSUME IndInv, StreamInv, NEW e \in Endpoint, DiscardWritten(e)
    PROVE  StreamInv'
<1> DEFINE p == Peer(e)
           m == written[e].bytes
           mf == written[e].fds
<1>1. p \in Endpoint /\ p # e /\ Peer(p) = e
  BY OtherEnd
<1>2. /\ main_pc' = main_pc /\ stop_op' = stop_op /\ open' = open /\ wire' = wire
      /\ fds_posted' = fds_posted /\ posting' = posting /\ retained_fds' = retained_fds
      /\ frames' = frames /\ io_thread_state' = io_thread_state
      /\ unprocessed_bytes' = unprocessed_bytes /\ unprocessed_fds' = unprocessed_fds
      /\ received_fd_count' = received_fd_count /\ acknowledged_fd_count' = acknowledged_fd_count
      /\ delivered' = delivered /\ incoming_messages' = incoming_messages /\ batch' = batch
  BY DEF DiscardWritten, control, parser, unprocessed, counts, mainLocals, mainRest, outside
<1>3. /\ io_pc[e] = "send" /\ io_pc'[e] = "peek" /\ io_pc'[p] = io_pc[p]
      /\ send_bytes'[e] = Drop(send_bytes[e], m) /\ send_fds'[e] = Drop(send_fds[e], mf)
      /\ send_bytes'[p] = send_bytes[p] /\ send_fds'[p] = send_fds[p]
      /\ written'[e] = Nothing /\ written'[p] = written[p] /\ peeked'[p] = peeked[p]
  BY <1>1, EndFunctions DEF DiscardWritten, IoStep
<1>4. EndFits(e) /\ EndFits(p)
  BY <1>1 DEF StreamInv
<1>5. Parsed(e)' = Parsed(e) /\ Parsed(p)' = Parsed(p) /\ LetGo(e)' = LetGo(e) /\ LetGo(p)' = LetGo(p)
  BY <1>2 DEF Parsed, LetGo
<1>6. ~Ended(e)
  BY <1>3 DEF Ended, Ending
<1>7. /\ m \in 0..Len(send_bytes[e]) /\ mf \in 0..Len(send_fds[e]) /\ m \in Nat /\ mf \in Nat
      /\ send_bytes[e] \in Seq(Nat \X Nat) /\ send_fds[e] \in Seq(Nat)
  BY <1>6, WrittenFits, EndTypes
<1> HIDE DEF m, mf
<1>8. PICK k \in 0..Len(frames[e]) : Stream(e, k)
  BY DEF StreamInv
<1>9. Stream(e, k)'
  <2>1. Flows(e, p, k)' /\ ParsedFits(e, p, k)'
    BY <1>2, <1>5, <1>8 DEF Stream, Flows, ParsedFits
  <2>2. CASE ~open[p]
    BY <1>2, <2>1, <2>2 DEF Stream
  <2>3. CASE open[p]
    <3>1. /\ BytesLinked(frames[e], k, unprocessed_bytes[p], wire[e], send_bytes[e], m)
          /\ FdsLinked(frames[e], k, unprocessed_fds[p], wire[e], send_fds[e], mf)
      BY <1>6, <1>8, <2>3 DEF Stream, Links, m, mf
    <3>2. /\ BytesLinked(frames[e], k, unprocessed_bytes[p], wire[e], Drop(send_bytes[e], m), 0)
          /\ FdsLinked(frames[e], k, unprocessed_fds[p], wire[e], Drop(send_fds[e], mf), 0)
      BY <1>7, <3>1, BytesDiscarded, FdsDiscarded
    <3>3. written'[e].bytes = 0 /\ written'[e].fds = 0
      BY <1>3 DEF Nothing
    <3>4. Links(e, p, k)'
      BY <1>2, <1>3, <3>2, <3>3 DEF Links
    <3> QED
      BY <2>1, <3>4 DEF Stream
  <2> QED
    BY <2>2, <2>3
<1>10. Ended(p) => Ended(p)'
  BY <1>2, <1>3 DEF Ended
<1>11. \E j \in 0..Len(frames'[p]) : Stream(p, j)'
  <2>1. \E j \in 0..Len(frames[p]) : Stream(p, j)
    BY <1>1 DEF StreamInv
  <2> QED
    BY <1>1, <1>2, <1>3, <1>5, <1>10, <2>1, SameStream
<1>12. EndFits(p)'
  BY <1>1, <1>2, <1>3, SameEnd
<1>13. RetainedFits(e)'
  <2>1. \A i \in 1..Len(send_fds'[e]) : /\ mf + i \in 1..Len(send_fds[e])
                                        /\ send_fds'[e][i] = send_fds[e][mf + i]
    <3> DEFINE d == Drop(send_fds[e], mf)
    <3>1. mf \in Nat /\ send_fds[e] \in Seq(Nat)
      BY <1>7
    <3>2. \A i \in 1..Len(d) : d[i] = send_fds[e][mf + i] /\ mf + i \in 1..Len(send_fds[e])
      BY <3>1, DropType
    <3> HIDE DEF d
    <3>3. send_fds'[e] = d
      BY <1>3 DEF d
    <3> QED
      BY <3>2, <3>3
  <2> QED
    BY <1>2, <1>4, <1>5, <2>1 DEF EndFits, RetainedFits
<1>14. EndFits(e)'
  <2>1. PostingFits(e)' /\ StopFits(e)' /\ FdsRide(e)'
    BY <1>2, <1>3, <1>4 DEF EndFits, PostingFits, StopFits, Stopping, FdsRide
  <2> QED
    BY <1>2, <1>4, <1>13, <2>1 DEF EndFits
<1> QED
  BY <1>2, <1>8, <1>9, <1>11, <1>12, <1>14, BothEnds

\* read_incoming_messages takes bytes off the socket: within the limits it keeps all of them.
LEMMA ReceiveKeepsStreams ==
    ASSUME IndInv, StreamInv, WithinLimits, NEW e \in Endpoint, NEW n \in 1..ChunkSize,
           ReceiveSome(e, n)
    PROVE  StreamInv'
<1> DEFINE p == Peer(e)
           w == wire[p]
           data == [i \in 1..n |-> w[i].byte]
<1>1. p \in Endpoint /\ p # e /\ Peer(p) = e
  BY OtherEnd
<1>2. /\ main_pc' = main_pc /\ stop_op' = stop_op /\ open' = open /\ frames' = frames
      /\ io_thread_state' = io_thread_state /\ written' = written /\ peeked' = peeked
      /\ fds_posted' = fds_posted /\ posting' = posting /\ retained_fds' = retained_fds
      /\ send_fds' = send_fds /\ send_bytes' = send_bytes
      /\ received_fd_count' = received_fd_count /\ acknowledged_fd_count' = acknowledged_fd_count
      /\ delivered' = delivered /\ incoming_messages' = incoming_messages /\ batch' = batch
  BY DEF ReceiveSome, queues, counts, transfer, mainLocals, mainRest
<1>3. n \in Nat /\ n <= Len(w) /\ Cardinality(CarriersIn(w, n)) <= 1 /\ io_pc[e] = "receive"
  BY SizeAssumption DEF SizeAssumption, ReceiveSome, IoStep
<1>4. /\ ~(Len(unprocessed_bytes[e]) + n > MaxUnprocessedBytes)
      /\ ~(Len(unprocessed_fds[e]) + Len(FdsIn(w, n)) > MaxUnprocessedFds)
  <2>1. /\ Len(unprocessed_bytes[e]) + n <= MaxUnprocessedBytes
        /\ Len(unprocessed_fds[e]) + Len(FdsIn(w, n)) <= MaxUnprocessedFds
    BY <1>3 DEF WithinLimits
  <2>2. /\ Len(unprocessed_bytes[e]) \in Nat /\ Len(unprocessed_fds[e]) \in Nat
        /\ MaxUnprocessedBytes \in Nat /\ MaxUnprocessedFds \in Nat
    BY EndTypes, SizeAssumption DEF SizeAssumption
  <2>3. Len(FdsIn(w, n)) \in Nat
    BY <1>1, <1>3, EndTypes, ReceivedType, LenProperties
  <2> HIDE DEF w
  <2> QED
    BY <1>3, <2>1, <2>2, <2>3
<1>5. /\ io_pc' = io_pc
      /\ wire' = [wire EXCEPT ![p] = Drop(@, n)]
      /\ unprocessed_bytes' = [unprocessed_bytes EXCEPT ![e] = @ \o data]
      /\ unprocessed_fds' = [unprocessed_fds EXCEPT ![e] = @ \o FdsIn(w, n)]
  <2>1. io_pc \in [Endpoint -> IOPc]
    BY DEF IndInv, TypeOK
  <2> QED
    BY <1>3, <1>4, <2>1 DEF ReceiveSome, IoStep
<1>6. /\ wire'[p] = Drop(w, n) /\ wire'[e] = wire[e]
      /\ unprocessed_bytes'[e] = unprocessed_bytes[e] \o data
      /\ unprocessed_bytes'[p] = unprocessed_bytes[p]
      /\ unprocessed_fds'[e] = unprocessed_fds[e] \o FdsIn(w, n)
      /\ unprocessed_fds'[p] = unprocessed_fds[p]
  <2> HIDE DEF data
  <2> QED
    BY <1>1, <1>5, EndFunctions
<1>7. /\ w \in Seq(Carrier) /\ frames[p] \in Seq(Frame)
      /\ unprocessed_bytes[e] \in Seq(Nat \X Nat) /\ unprocessed_fds[e] \in Seq(Nat)
  BY <1>1, EndTypes
<1>8. /\ data \in Seq(Nat \X Nat) /\ Len(data) = n /\ \A i \in 1..n : data[i] = w[i].byte
  <2>1. data \in Seq(Nat \X Nat) /\ Len(data) = n
    BY <1>3, <1>7, ReceivedType
  <2> QED
    BY <2>1
<1>9. n \in 0..Len(w)
  <2> HIDE DEF w
  <2> QED
    BY <1>3, <1>7, LenProperties
<1>10. PICK k \in 0..Len(frames[p]) : Stream(p, k)
  BY <1>1 DEF StreamInv
<1>11. /\ BytesFlow(frames[p], k, unprocessed_bytes[e], w)
       /\ FdsFlow(frames[p], k, unprocessed_fds[e], w) /\ ParsedFits(p, e, k)
  BY <1>1, <1>10 DEF Stream, Flows
<1>12. Links(p, e, k) \/ Ended(p) \/ ~open[e]
  BY <1>1, <1>10 DEF Stream
<1> HIDE DEF data
<1>13. /\ BytesFlow(frames[p], k, unprocessed_bytes[e] \o data, Drop(w, n))
       /\ \A queue, m : BytesLinked(frames[p], k, unprocessed_bytes[e], w, queue, m) =>
            BytesLinked(frames[p], k, unprocessed_bytes[e] \o data, Drop(w, n), queue, m)
  <2> HIDE DEF w, p
  <2> QED
    BY <1>7, <1>8, <1>9, <1>10, <1>11, BytesReceived
<1>14. /\ FdsFlow(frames[p], k, unprocessed_fds[e] \o FdsIn(w, n), Drop(w, n))
       /\ \A queue, m : FdsLinked(frames[p], k, unprocessed_fds[e], w, queue, m) =>
            FdsLinked(frames[p], k, unprocessed_fds[e] \o FdsIn(w, n), Drop(w, n), queue, m)
  <2> HIDE DEF w, p
  <2> QED
    BY <1>3, <1>7, <1>9, <1>10, <1>11, FdsReceived
<1>15. Parsed(e)' = Parsed(e) /\ Parsed(p)' = Parsed(p) /\ LetGo(e)' = LetGo(e) /\ LetGo(p)' = LetGo(p)
  BY <1>2 DEF Parsed, LetGo
<1>16. Stream(p, k)'
  <2>1. Flows(p, e, k)'
    BY <1>2, <1>6, <1>13, <1>14 DEF Flows
  <2>2. ParsedFits(p, e, k)'
    BY <1>2, <1>11, <1>15 DEF ParsedFits
  <2>3. Links(p, e, k) => Links(p, e, k)'
    BY <1>2, <1>6, <1>13, <1>14 DEF Links
  <2>4. Links(p, e, k)' \/ Ended(p)' \/ ~open'[e]
    BY <1>2, <1>5, <1>12, <2>3 DEF Ended
  <2> QED
    BY <1>1, <2>1, <2>2, <2>4 DEF Stream
<1>17. \E j \in 0..Len(frames'[p]) : Stream(p, j)'
  BY <1>2, <1>10, <1>16
<1>18. \E j \in 0..Len(frames'[e]) : Stream(e, j)'
  <2>1. \E j \in 0..Len(frames[e]) : Stream(e, j)
    BY DEF StreamInv
  <2>2. Ended(e) => Ended(e)'
    BY <1>2, <1>5 DEF Ended
  <2> QED
    BY <1>1, <1>2, <1>6, <1>15, <2>1, <2>2, SameStream
<1>19. EndFits(p)' /\ EndFits(e)'
  BY <1>1, <1>2, <1>5, SameEnd
<1> QED
  BY <1>17, <1>18, <1>19, BothEnds

\* The header at the front of what was received is that of the next frame.
LEMMA NextHeader ==
    ASSUME IndInv, StreamInv, NEW e \in Endpoint, NEW h \in HeadersAt(e),
           NEW k \in 0..Len(frames[Peer(e)]), Stream(Peer(e), k)
    PROVE  /\ k + 1 \in 1..Len(frames[Peer(e)]) /\ h = frames[Peer(e)][k + 1]
           /\ FrameFits(frames[Peer(e)], k + 1) /\ HeaderSize <= Len(unprocessed_bytes[e])
           /\ Len(h.fds) = IF h.type = "Payload" THEN h.fd_count ELSE 0
<1> DEFINE p == Peer(e)
           fs == frames[p]
<1>1. p \in Endpoint /\ Peer(p) = e /\ fs \in Seq(Frame) /\ unprocessed_bytes[e] \in Seq(Nat \X Nat)
  BY OtherEnd, EndTypes
<1>2. HeaderSize <= Len(unprocessed_bytes[e])
  <2>1. Len(unprocessed_bytes[e]) >= HeaderSize
    BY HeaderType DEF IndInv
  <2>2. Len(unprocessed_bytes[e]) \in Nat /\ HeaderSize \in Nat
    BY <1>1, LenProperties, SizeAssumption DEF SizeAssumption
  <2> QED
    BY <2>1, <2>2
<1>3. BytesFlow(fs, k, unprocessed_bytes[e], wire[p])
  BY <1>1 DEF Stream, Flows
<1>4. k + 1 \in 1..Len(fs) /\ unprocessed_bytes[e][1] = <<k + 1, 1>>
  <2> HIDE DEF fs
  <2>1. k \in 0..Len(fs)
    BY DEF fs
  <2> QED
    BY <1>1, <1>2, <1>3, <2>1, HeaderIsNext
<1>5. h = fs[k + 1]
  <2>1. ~(Len(unprocessed_bytes[e]) < HeaderSize)
    BY <1>1, <1>2, LenProperties, SizeAssumption DEF SizeAssumption
  <2>2. HeadersAt(e) = {fs[k + 1]}
    BY <1>4, <2>1 DEF HeadersAt
  <2> QED
    BY <2>2
<1>6. FrameFits(fs, k + 1)
  BY <1>1, <1>4 DEF StreamInv, EndFits
<1>7. Len(h.fds) = IF h.type = "Payload" THEN h.fd_count ELSE 0
  <2>1. FdsUpTo(fs, (k + 1) - 1) \in Nat
    <3>1. (k + 1) - 1 = k
      OBVIOUS
    <3> HIDE DEF fs
    <3>2. k \in 0..Len(fs)
      BY DEF fs
    <3> QED
      BY <1>1, <3>1, <3>2, FrameSums
  <2> HIDE DEF fs
  <2>2. fs[k + 1].fd_count \in Nat
    BY <1>1, <1>4, FrameTypes
  <2>3. Len(From(FdsUpTo(fs, (k + 1) - 1), fs[k + 1].fd_count)) = fs[k + 1].fd_count
    BY <2>1, <2>2, FromProperties
  <2>4. Len(<<>>) = 0
    OBVIOUS
  <2> QED
    BY <1>5, <1>6, <2>3, <2>4 DEF FrameFits
<1> QED
  BY <1>2, <1>4, <1>5, <1>6, <1>7

\* A frame leaves what was received: the stream is where it was, one frame on.
LEMMA FrameParsed ==
    ASSUME IndInv, StreamInv, NEW e \in Endpoint, NEW k \in 0..Len(frames[Peer(e)]),
           Stream(Peer(e), k), k + 1 \in 1..Len(frames[Peer(e)]),
           HeaderSize + frames[Peer(e)][k + 1].payload_size <= Len(unprocessed_bytes[e]),
           Len(frames[Peer(e)][k + 1].fds) <= Len(unprocessed_fds[e]),
           unprocessed_bytes'[e] = Drop(unprocessed_bytes[e],
                                        HeaderSize + frames[Peer(e)][k + 1].payload_size),
           unprocessed_fds'[e] = Drop(unprocessed_fds[e], Len(frames[Peer(e)][k + 1].fds)),
           frames' = frames, wire' = wire, send_bytes' = send_bytes, send_fds' = send_fds,
           written' = written, io_pc' = io_pc, io_thread_state' = io_thread_state,
           open' = open, ParsedFits(Peer(e), e, k + 1)'
    PROVE  Stream(Peer(e), k + 1)'
<1> DEFINE p == Peer(e)
           fs == frames[p]
           size == HeaderSize + fs[k + 1].payload_size
           c == Len(fs[k + 1].fds)
<1>1. /\ Peer(p) = e /\ fs \in Seq(Frame) /\ wire[p] \in Seq(Carrier)
      /\ unprocessed_bytes[e] \in Seq(Nat \X Nat) /\ unprocessed_fds[e] \in Seq(Nat)
  BY OtherEnd, EndTypes
<1>2. /\ BytesFlow(fs, k, unprocessed_bytes[e], wire[p])
      /\ FdsFlow(fs, k, unprocessed_fds[e], wire[p])
  BY <1>1 DEF Stream, Flows
<1>3. Links(p, e, k) \/ Ended(p) \/ ~open[e]
  BY <1>1 DEF Stream
<1>4. k \in 0..Len(fs) /\ k + 1 \in 1..Len(fs) /\ size <= Len(unprocessed_bytes[e])
      /\ c <= Len(unprocessed_fds[e])
  OBVIOUS
<1>5. /\ BytesFlow(fs, k + 1, Drop(unprocessed_bytes[e], size), wire[p])
      /\ \A queue, m : BytesLinked(fs, k, unprocessed_bytes[e], wire[p], queue, m) =>
           BytesLinked(fs, k + 1, Drop(unprocessed_bytes[e], size), wire[p], queue, m)
  <2> HIDE DEF fs, p
  <2> QED
    BY <1>1, <1>2, <1>4, BytesParsed
<1>6. /\ FdsFlow(fs, k + 1, Drop(unprocessed_fds[e], c), wire[p])
      /\ \A queue, m : FdsLinked(fs, k, unprocessed_fds[e], wire[p], queue, m) =>
           FdsLinked(fs, k + 1, Drop(unprocessed_fds[e], c), wire[p], queue, m)
  <2> HIDE DEF fs, p
  <2> QED
    BY <1>1, <1>2, <1>4, FdsParsed
<1>7. unprocessed_bytes'[e] = Drop(unprocessed_bytes[e], size)
      /\ unprocessed_fds'[e] = Drop(unprocessed_fds[e], c)
  OBVIOUS
<1>8. ParsedFits(p, e, k + 1)'
  OBVIOUS
<1> HIDE DEF size, c
<1>9. Flows(p, e, k + 1)'
  BY <1>5, <1>6, <1>7 DEF Flows
<1>10. Links(p, e, k) => Links(p, e, k + 1)'
  BY <1>5, <1>6, <1>7 DEF Links
<1>11. Links(p, e, k + 1)' \/ Ended(p)' \/ ~open'[e]
  BY <1>3, <1>10 DEF Ended
<1> QED
  BY <1>1, <1>8, <1>9, <1>11 DEF Stream

\* Appending to the second part of a sequence appends to the whole.
LEMMA ConcatAppend ==
    ASSUME NEW S, NEW s \in Seq(S), NEW t \in Seq(S), NEW x \in S
    PROVE  s \o Append(t, x) = Append(s \o t, x)
<1>1. Append(t, x) = t \o <<x>> /\ Append(s \o t, x) = (s \o t) \o <<x>>
  BY AppendIsConcat, ConcatProperties
<1>2. s \o (t \o <<x>>) = (s \o t) \o <<x>>
  BY ConcatAssociative
<1> QED
  BY <1>1, <1>2

\* parse_messages: a message goes into the batch.
LEMMA ParseMessageKeepsStreams ==
    ASSUME IndInv, StreamInv, NEW e \in Endpoint, ParseMessage(e)
    PROVE  StreamInv'
<1> DEFINE p == Peer(e)
           fs == frames[p]
<1>1. p \in Endpoint /\ p # e /\ Peer(p) = e
  BY OtherEnd
<1>2. PICK h \in HeadersAt(e) :
        /\ h.type = "Payload" /\ ~Incomplete(e, h)
        /\ batch' = [batch EXCEPT ![e] = Append(@,
                [bytes |-> SubSeq(unprocessed_bytes[e], HeaderSize + 1,
                                  HeaderSize + h.payload_size),
                 fds |-> SubSeq(unprocessed_fds[e], 1, h.fd_count)])]
        /\ received_fd_count' = [received_fd_count EXCEPT ![e] = @ + h.fd_count]
        /\ unprocessed_fds' = [unprocessed_fds EXCEPT ![e] = Drop(@, h.fd_count)]
        /\ unprocessed_bytes' = [unprocessed_bytes EXCEPT
                ![e] = Drop(@, HeaderSize + h.payload_size)]
  BY DEF ParseMessage
<1>3. /\ main_pc' = main_pc /\ stop_op' = stop_op /\ open' = open /\ frames' = frames
      /\ io_thread_state' = io_thread_state /\ written' = written /\ peeked' = peeked
      /\ io_pc' = io_pc /\ wire' = wire
      /\ fds_posted' = fds_posted /\ posting' = posting /\ retained_fds' = retained_fds
      /\ send_fds' = send_fds /\ send_bytes' = send_bytes
      /\ acknowledged_fd_count' = acknowledged_fd_count
      /\ delivered' = delivered /\ incoming_messages' = incoming_messages
  BY DEF ParseMessage, shared, control, queues, ioLocals, transfer, mainLocals, mainRest, outside
<1>4. PICK k \in 0..Len(fs) : Stream(p, k)
  BY <1>1 DEF StreamInv
<1>5. /\ k + 1 \in 1..Len(fs) /\ h = fs[k + 1] /\ FrameFits(fs, k + 1) /\ Len(h.fds) = h.fd_count
      /\ h.type = "Payload"
  BY <1>2, <1>4, NextHeader
<1>6. /\ HeaderSize + h.payload_size <= Len(unprocessed_bytes[e])
      /\ h.fd_count <= Len(unprocessed_fds[e])
  <2>1. h.payload_size \in Nat /\ h.fd_count \in Nat /\ HeaderSize \in Nat
    BY HeaderType, SizeAssumption DEF SizeAssumption, IndInv
  <2>2. Len(unprocessed_bytes[e]) \in Nat /\ Len(unprocessed_fds[e]) \in Nat
    BY EndTypes, LenProperties
  <2> QED
    BY <1>2, <2>1, <2>2 DEF Incomplete
<1>7. /\ fs \in Seq(Frame) /\ unprocessed_bytes[e] \in Seq(Nat \X Nat)
      /\ unprocessed_fds[e] \in Seq(Nat) /\ wire[p] \in Seq(Carrier)
      /\ delivered[e] \in Seq(Message) /\ incoming_messages[e] \in Seq(Message)
      /\ batch[e] \in Seq(Message) /\ received_fd_count[e] \in Nat /\ frames[e] \in Seq(Frame)
  BY <1>1, EndTypes
<1>8. /\ BytesFlow(fs, k, unprocessed_bytes[e], wire[p])
      /\ FdsFlow(fs, k, unprocessed_fds[e], wire[p]) /\ ParsedFits(p, e, k)
  BY <1>1, <1>4 DEF Stream, Flows
<1>9. SubSeq(unprocessed_bytes[e], HeaderSize + 1, HeaderSize + h.payload_size)
        = Intended(fs, k + 1).bytes
  <2> HIDE DEF fs, p
  <2> QED
    BY <1>4, <1>5, <1>6, <1>7, <1>8, BytesParsed
<1>10. SubSeq(unprocessed_fds[e], 1, h.fd_count) = h.fds
  <2> HIDE DEF fs, p
  <2>1. SubSeq(unprocessed_fds[e], 1, h.fd_count) = From(FdsUpTo(fs, k), h.fd_count)
    BY <1>4, <1>5, <1>6, <1>7, <1>8, FdsParsed
  <2>2. (k + 1) - 1 = k
    BY <1>4
  <2> QED
    BY <1>5, <2>1, <2>2 DEF FrameFits
<1>11. batch'[e] = Append(batch[e], Intended(fs, k + 1)) /\ batch'[p] = batch[p]
  <2>1. Intended(fs, k + 1) = [bytes |-> Intended(fs, k + 1).bytes, fds |-> h.fds]
    BY <1>5 DEF Intended
  <2> QED
    BY <1>1, <1>2, <1>9, <1>10, <2>1, EndFunctions
<1>12. /\ unprocessed_bytes'[e] = Drop(unprocessed_bytes[e], HeaderSize + fs[k + 1].payload_size)
       /\ unprocessed_fds'[e] = Drop(unprocessed_fds[e], Len(fs[k + 1].fds))
       /\ received_fd_count'[e] = received_fd_count[e] + Len(fs[k + 1].fds)
       /\ unprocessed_bytes'[p] = unprocessed_bytes[p] /\ unprocessed_fds'[p] = unprocessed_fds[p]
       /\ received_fd_count'[p] = received_fd_count[p]
  BY <1>1, <1>2, <1>5, EndFunctions
<1>13. Parsed(e)' = Append(Parsed(e), Intended(fs, k + 1)) /\ Parsed(p)' = Parsed(p)
  <2>1. Intended(fs, k + 1) \in Message
    <3> HIDE DEF fs
    <3> QED
      BY <1>5, <1>7, IntendedType
  <2> DEFINE s == delivered[e] \o incoming_messages[e]
             t == batch[e]
             x == Intended(fs, k + 1)
  <2>2. s \in Seq(Message)
    BY <1>7, ConcatProperties
  <2>3. Parsed(e) = s \o batch[e] /\ Parsed(e)' = s \o Append(batch[e], x)
    BY <1>3, <1>11 DEF Parsed
  <2>4. x \in Message /\ t \in Seq(Message)
    BY <1>7, <2>1
  <2> HIDE DEF s, t, x
  <2>5. s \o Append(t, x) = Append(s \o t, x)
    BY <2>2, <2>4, ConcatAppend
  <2> QED
    BY <1>3, <1>11, <2>3, <2>5 DEF Parsed, t, x
<1>14. ParsedFits(p, e, k + 1)'
  <2> HIDE DEF fs
  <2>1. (k + 1) - 1 = k
    BY <1>4
  <2>2. MessagesIn(fs)[k + 1] = Append(MessagesIn(fs)[k], Intended(fs, k + 1))
    BY <1>5, <1>7, <2>1, MessagesProperties
  <2>3. /\ FdsUpTo(fs, k + 1) = FdsUpTo(fs, k) + Len(fs[k + 1].fds)
        /\ AcksUpTo(fs, k + 1) = AcksUpTo(fs, k) + 0 /\ AcksUpTo(fs, k) \in Nat
    BY <1>4, <1>5, <1>7, <2>1, FrameSums
  <2>4. AcksUpTo(frames[e], Len(frames[e])) \in Nat /\ Len(fs[k + 1].fds) \in Nat
    <3>1. Len(frames[e]) \in 0..Len(frames[e])
      BY <1>7, LenProperties
    <3>2. fs[k + 1].fds \in Seq(Nat)
      BY <1>5, <1>7, FrameTypes
    <3> QED
      BY <1>7, <3>1, <3>2, FrameSums, LenProperties
  <2>5. /\ Parsed(e) = MessagesIn(fs)[k]
        /\ FdsUpTo(fs, k) = AcksUpTo(frames[e], Len(frames[e])) + received_fd_count[e]
        /\ AcksUpTo(fs, k) = LetGo(e) + acknowledged_fd_count[e]
    BY <1>8 DEF ParsedFits, fs
  <2>6. FdsUpTo(fs, k + 1) = AcksUpTo(frames[e], Len(frames[e])) + received_fd_count'[e]
    BY <1>7, <1>12, <2>3, <2>4, <2>5
  <2>7. AcksUpTo(fs, k + 1) = LetGo(e) + acknowledged_fd_count[e]
    BY <2>3, <2>5
  <2>8. LetGo(e)' = LetGo(e)
    BY <1>3 DEF LetGo
  <2>9. Parsed(e)' = MessagesIn(fs)[k + 1]
    BY <1>13, <2>2, <2>5
  <2> QED
    BY <1>3, <2>6, <2>7, <2>8, <2>9 DEF ParsedFits, fs
<1>15. Stream(p, k + 1)'
  BY <1>3, <1>4, <1>5, <1>6, <1>12, <1>14, FrameParsed
<1>16. \E j \in 0..Len(frames'[p]) : Stream(p, j)'
  <2>1. k + 1 \in 0..Len(fs)
    BY <1>5
  <2> QED
    BY <1>3, <1>15, <2>1
<1>17. \E j \in 0..Len(frames'[e]) : Stream(e, j)'
  <2>1. \E j \in 0..Len(frames[e]) : Stream(e, j)
    BY DEF StreamInv
  <2>2. (Ended(e) => Ended(e)') /\ LetGo(p)' = LetGo(p)
    BY <1>3 DEF Ended, LetGo
  <2> QED
    BY <1>1, <1>3, <1>12, <1>13, <2>1, <2>2, SameStream
<1>18. EndFits(p)' /\ EndFits(e)'
  BY <1>1, <1>3, SameEnd
<1> QED
  BY <1>16, <1>17, <1>18, BothEnds

\* parse_messages: an acknowledgement is counted.
LEMMA ParseAcknowledgementKeepsStreams ==
    ASSUME IndInv, StreamInv, NEW e \in Endpoint, ParseAcknowledgement(e)
    PROVE  StreamInv'
<1> DEFINE p == Peer(e)
           fs == frames[p]
<1>1. p \in Endpoint /\ p # e /\ Peer(p) = e
  BY OtherEnd
<1>2. PICK h \in HeadersAt(e) :
        /\ h.type = "Acknowledgement"
        /\ acknowledged_fd_count' = [acknowledged_fd_count EXCEPT ![e] = @ + h.fd_count]
        /\ unprocessed_bytes' = [unprocessed_bytes EXCEPT ![e] = Drop(@, HeaderSize)]
  BY DEF ParseAcknowledgement
<1>3. /\ main_pc' = main_pc /\ stop_op' = stop_op /\ open' = open /\ frames' = frames
      /\ io_thread_state' = io_thread_state /\ written' = written /\ peeked' = peeked
      /\ io_pc' = io_pc /\ wire' = wire /\ unprocessed_fds' = unprocessed_fds
      /\ fds_posted' = fds_posted /\ posting' = posting /\ retained_fds' = retained_fds
      /\ send_fds' = send_fds /\ send_bytes' = send_bytes
      /\ received_fd_count' = received_fd_count /\ batch' = batch
      /\ delivered' = delivered /\ incoming_messages' = incoming_messages
  BY DEF ParseAcknowledgement, shared, control, queues, ioLocals, transfer, mainLocals, mainRest,
         outside
<1>4. PICK k \in 0..Len(fs) : Stream(p, k)
  BY <1>1 DEF StreamInv
<1>5. /\ k + 1 \in 1..Len(fs) /\ h = fs[k + 1] /\ FrameFits(fs, k + 1)
      /\ HeaderSize <= Len(unprocessed_bytes[e]) /\ Len(h.fds) = 0
  BY <1>2, <1>4, NextHeader
<1>6. /\ fs \in Seq(Frame) /\ unprocessed_fds[e] \in Seq(Nat)
      /\ acknowledged_fd_count[e] \in Nat /\ h.fd_count \in Nat /\ HeaderSize \in Nat
  BY <1>1, EndTypes, HeaderType, SizeAssumption DEF IndInv, SizeAssumption
<1>7. HeaderSize + fs[k + 1].payload_size = HeaderSize
  BY <1>2, <1>5, <1>6 DEF FrameFits
<1>8. Drop(unprocessed_fds[e], 0) = unprocessed_fds[e] /\ 0 <= Len(unprocessed_fds[e])
  BY <1>6 DEF Drop
<1>9. /\ unprocessed_bytes'[e] = Drop(unprocessed_bytes[e], HeaderSize + fs[k + 1].payload_size)
      /\ acknowledged_fd_count'[e] = acknowledged_fd_count[e] + fs[k + 1].fd_count
      /\ unprocessed_bytes'[p] = unprocessed_bytes[p]
      /\ acknowledged_fd_count'[p] = acknowledged_fd_count[p]
  BY <1>1, <1>2, <1>5, <1>7, EndFunctions
<1>10. /\ unprocessed_fds'[e] = Drop(unprocessed_fds[e], Len(fs[k + 1].fds))
       /\ Len(fs[k + 1].fds) <= Len(unprocessed_fds[e])
       /\ HeaderSize + fs[k + 1].payload_size <= Len(unprocessed_bytes[e])
  BY <1>3, <1>5, <1>7, <1>8
<1>11. /\ Parsed(e)' = Parsed(e) /\ Parsed(p)' = Parsed(p)
       /\ LetGo(e)' = LetGo(e) /\ LetGo(p)' = LetGo(p)
  BY <1>3 DEF Parsed, LetGo
<1>12. ParsedFits(p, e, k + 1)'
  <2>1. ParsedFits(p, e, k) /\ LetGo(e) \in Nat
    <3>1. \E j \in 0..Len(frames[e]) : Stream(e, j)
      BY DEF StreamInv
    <3> QED
      BY <1>1, <1>4, <3>1, LetGoBounds DEF Stream
  <2>2. /\ Parsed(e) = MessagesIn(fs)[k]
        /\ FdsUpTo(fs, k) = AcksUpTo(frames[e], Len(frames[e])) + received_fd_count[e]
        /\ AcksUpTo(fs, k) = LetGo(e) + acknowledged_fd_count[e]
    BY <2>1 DEF ParsedFits
  <2> HIDE DEF fs
  <2>3. (k + 1) - 1 = k
    BY <1>4
  <2>4. MessagesIn(fs)[k + 1] = MessagesIn(fs)[k]
    BY <1>2, <1>5, <1>6, <2>3, MessagesProperties
  <2>5. /\ FdsUpTo(fs, k + 1) = FdsUpTo(fs, k) + 0 /\ FdsUpTo(fs, k) \in Nat
        /\ AcksUpTo(fs, k + 1) = AcksUpTo(fs, k) + fs[k + 1].fd_count
    BY <1>2, <1>4, <1>5, <1>6, <2>3, FrameSums
  <2>6. FdsUpTo(fs, k + 1) = AcksUpTo(frames[e], Len(frames[e])) + received_fd_count[e]
    BY <2>2, <2>5
  <2>7. AcksUpTo(fs, k + 1) = LetGo(e) + acknowledged_fd_count'[e]
    BY <1>5, <1>6, <1>9, <2>1, <2>2, <2>5
  <2> QED
    BY <1>3, <1>11, <2>2, <2>4, <2>6, <2>7 DEF ParsedFits, fs
<1>13. Stream(p, k + 1)'
  BY <1>3, <1>4, <1>5, <1>9, <1>10, <1>12, FrameParsed
<1>14. \E j \in 0..Len(frames'[p]) : Stream(p, j)'
  <2>1. k + 1 \in 0..Len(fs)
    BY <1>5
  <2> QED
    BY <1>3, <1>13, <2>1
<1>15. \E j \in 0..Len(frames'[e]) : Stream(e, j)'
  <2>1. \E j \in 0..Len(frames[e]) : Stream(e, j)
    BY DEF StreamInv
  <2>2. Ended(e) => Ended(e)'
    BY <1>3 DEF Ended
  <2> QED
    BY <1>1, <1>3, <1>9, <1>11, <2>1, <2>2, SameStream
<1>16. EndFits(p)' /\ EndFits(e)'
  BY <1>1, <1>3, SameEnd
<1> QED
  BY <1>14, <1>15, <1>16, BothEnds

\* The kernel drops what a closed end has not read: its peer's stream ends there.
LEMMA CloseKeepsStreams ==
    ASSUME IndInv, StreamInv, NEW e \in Endpoint, CloseSocket(e),
           UNCHANGED <<stop_op, frames, io_thread_state, written, peeked, unprocessed_bytes,
                       unprocessed_fds, fds_posted, posting, retained_fds, send_fds, send_bytes,
                       received_fd_count, acknowledged_fd_count, batch, delivered,
                       incoming_messages>>,
           io_pc'[Peer(e)] = io_pc[Peer(e)], main_pc'[Peer(e)] = main_pc[Peer(e)],
           io_pc'[e] \in Ending,
           \/ main_pc'[e] = "dead"
           \/ main_pc[e] = "join" /\ main_pc'[e] = "idle"
    PROVE  StreamInv'
<1> DEFINE p == Peer(e)
           fs == frames[p]
<1>1. p \in Endpoint /\ p # e /\ Peer(p) = e
  BY OtherEnd
<1>2. /\ open'[e] = FALSE /\ open'[p] = open[p] /\ wire'[p] = <<>> /\ wire'[e] = wire[e]
  BY <1>1, EndFunctions DEF CloseSocket
<1>3. /\ stop_op' = stop_op /\ frames' = frames /\ io_thread_state' = io_thread_state
      /\ written' = written /\ peeked' = peeked /\ unprocessed_bytes' = unprocessed_bytes
      /\ unprocessed_fds' = unprocessed_fds /\ fds_posted' = fds_posted /\ posting' = posting
      /\ retained_fds' = retained_fds /\ send_fds' = send_fds /\ send_bytes' = send_bytes
      /\ received_fd_count' = received_fd_count /\ acknowledged_fd_count' = acknowledged_fd_count
      /\ batch' = batch /\ delivered' = delivered /\ incoming_messages' = incoming_messages
  OBVIOUS
<1>4. /\ Parsed(e)' = Parsed(e) /\ Parsed(p)' = Parsed(p)
      /\ LetGo(e)' = LetGo(e) /\ LetGo(p)' = LetGo(p)
  BY <1>3 DEF Parsed, LetGo
<1>5. PICK k \in 0..Len(fs) : Stream(p, k)
  BY <1>1 DEF StreamInv
<1>6. /\ BytesFlow(fs, k, unprocessed_bytes[e], wire[p])
      /\ FdsFlow(fs, k, unprocessed_fds[e], wire[p]) /\ ParsedFits(p, e, k)
  BY <1>1, <1>5 DEF Stream, Flows
<1>7. BytesFlow(fs, k, unprocessed_bytes[e], <<>>)
  BY <1>6 DEF BytesFlow
<1>8. FdsFlow(fs, k, unprocessed_fds[e], <<>>)
  <2>1. fs \in Seq(Frame) /\ unprocessed_fds[e] \in Seq(Nat) /\ wire[p] \in Seq(Carrier)
    BY <1>1, EndTypes
  <2> DEFINE w == wire[p]
             before == FdsUpTo(fs, k) + Len(unprocessed_fds[e])
             total == FdsUpTo(fs, Len(fs))
             carried == Totals(WireFds(w))[Len(w)]
  <2>2. before \in Nat /\ total \in Nat /\ carried \in Nat
    <3>1. Len(fs) \in 0..Len(fs) /\ Len(w) \in 0..Len(w) /\ Len(unprocessed_fds[e]) \in Nat
      BY <2>1, LenProperties
    <3>2. WireFds(w) \in Seq(Nat) /\ Len(WireFds(w)) = Len(w)
      BY <2>1, WireNumbers
    <3>3. carried \in Nat
      BY <3>1, <3>2, TotalsProperties
    <3> HIDE DEF fs
    <3>4. FdsUpTo(fs, k) \in Nat /\ FdsUpTo(fs, Len(fs)) \in Nat
      BY <1>5, <2>1, <3>1, FrameSums DEF fs
    <3> QED
      BY <3>1, <3>3, <3>4
  <2>3. before + carried <= total
    BY <1>6 DEF FdsFlow
  <2>4. Totals(WireFds(<<>>))[Len(<<>>)] = 0
    <3>1. <<>> \in Seq(Carrier) /\ Len(<<>>) = 0
      OBVIOUS
    <3>2. WireFds(<<>>) \in Seq(Nat)
      BY <3>1, WireNumbers
    <3> QED
      BY <3>1, <3>2, TotalsProperties
  <2> HIDE DEF before, total, carried
  <2>5. before + 0 <= total
    BY <2>2, <2>3
  <2>6. unprocessed_fds[e] = From(FdsUpTo(fs, k), Len(unprocessed_fds[e]))
    BY <1>6 DEF FdsFlow
  <2> HIDE DEF fs
  <2>7. before + Totals(WireFds(<<>>))[Len(<<>>)] <= total
    BY <2>4, <2>5
  <2> QED
    BY <2>6, <2>7 DEF FdsFlow, before, total
<1>9. Stream(p, k)'
  <2>1. Flows(p, e, k)'
    BY <1>2, <1>3, <1>7, <1>8 DEF Flows
  <2>2. ParsedFits(p, e, k)'
    BY <1>3, <1>4, <1>6 DEF ParsedFits
  <2> QED
    BY <1>1, <1>2, <2>1, <2>2 DEF Stream
<1>10. \E j \in 0..Len(frames'[p]) : Stream(p, j)'
  BY <1>3, <1>5, <1>9
<1>11. \E j \in 0..Len(frames'[e]) : Stream(e, j)'
  <2>1. \E j \in 0..Len(frames[e]) : Stream(e, j)
    BY DEF StreamInv
  <2>2. Ended(e) => Ended(e)'
    BY DEF Ended
  <2> QED
    BY <1>1, <1>2, <1>3, <1>4, <2>1, <2>2, SameStream
<1>12. EndFits(p)'
  BY <1>1, <1>2, <1>3, SameEnd
<1>13. EndFits(e)'
  <2>1. EndFits(e)
    BY DEF StreamInv
  <2>2. PostingFits(e)'
    BY <1>3, <2>1 DEF EndFits, PostingFits
  <2>3. RetainedFits(e)'
    BY <1>2, <1>3, <1>4, <2>1 DEF EndFits, RetainedFits
  <2>4. FdsRide(e)' /\ StopFits(e)'
    BY <1>3, <2>1 DEF EndFits, FdsRide, StopFits, Stopping, Ending
  <2> QED
    BY <1>3, <2>1, <2>2, <2>3, <2>4 DEF EndFits
<1> QED
  BY <1>10, <1>11, <1>12, <1>13, BothEnds

\* At first the streams are empty.
LEMMA StreamInit == Init => StreamInv
<1> SUFFICES ASSUME Init, NEW e \in Endpoint
             PROVE  EndFits(e) /\ \E k \in 0..Len(frames[e]) : Stream(e, k)
  BY DEF StreamInv
<1> DEFINE p == Peer(e)
<1>1. p \in Endpoint
  BY OtherEnd
<1>2. /\ frames[e] = <<>> /\ frames[p] = <<>> /\ wire[e] = <<>> /\ posting[e] = NoFrame
      /\ unprocessed_bytes[p] = <<>> /\ unprocessed_fds[p] = <<>>
      /\ send_bytes[e] = <<>> /\ send_fds[e] = <<>> /\ written[e] = Nothing
      /\ retained_fds[e] = <<>> /\ retained_fds[p] = <<>>
      /\ fds_posted[e] = 0 /\ fds_posted[p] = 0
      /\ received_fd_count[p] = 0 /\ acknowledged_fd_count[p] = 0
      /\ delivered[p] = <<>> /\ incoming_messages[p] = <<>> /\ batch[p] = <<>>
      /\ io_pc[e] = "peek" /\ main_pc[e] = "idle" /\ stop_op[e] = "none"
  BY <1>1 DEF Init
<1> HIDE DEF p
<1>3. /\ <<>> \in Seq(Frame) /\ <<>> \in Seq(Carrier) /\ <<>> \in Seq(Nat) /\ Len(<<>>) = 0
      /\ 0 \in Nat /\ 0..0 = {0} /\ 1..0 = {}
  OBVIOUS
<1>4. /\ BytesUpTo(<<>>, 0) = 0 /\ FdsUpTo(<<>>, 0) = 0 /\ AcksUpTo(<<>>, 0) = 0
      /\ MessagesIn(<<>>)[0] = <<>>
  BY <1>3, FrameSums, MessagesProperties
<1>5. <<>> = From(0, 0)
  <2>1. \A i \in 1..Len(<<>>) : <<>>[i] = 0 + i
    BY <1>3
  <2> QED
    BY <1>3, <2>1, IsFrom
<1>6. Totals(WireFds(<<>>))[0] = 0
  BY <1>3, WireNumbers
<1>7. fds_posted[e] - Len(retained_fds[e]) = 0 /\ fds_posted[p] - Len(retained_fds[p]) = 0
  <2>1. 0 - 0 = 0
    OBVIOUS
  <2> QED
    BY <1>2, <1>3, <2>1
<1>8. EndFits(e)
  <2>1. PostingFits(e)
    BY <1>2, <1>3, <1>4, <1>5 DEF PostingFits, NoFrame
  <2>2. RetainedFits(e)
    <3>1. LetGo(e) = 0
      BY <1>7 DEF LetGo
    <3> QED
      BY <1>2, <1>3, <1>5, <3>1 DEF RetainedFits
  <2>3. FdsRide(e) /\ StopFits(e)
    BY <1>2 DEF FdsRide, StopFits, Stopping
  <2> QED
    BY <1>2, <1>3, <2>1, <2>2, <2>3 DEF EndFits
<1>9. Flows(e, p, 0)
  <2>1. BytesFlow(<<>>, 0, <<>>, <<>>)
    BY <1>3 DEF BytesFlow
  <2>2. FdsFlow(<<>>, 0, <<>>, <<>>)
    BY <1>3, <1>4, <1>5, <1>6 DEF FdsFlow
  <2> QED
    BY <1>2, <2>1, <2>2 DEF Flows
<1>10. Links(e, p, 0)
  <2>1. BytesLinked(<<>>, 0, <<>>, <<>>, <<>>, 0)
    BY <1>3, <1>4 DEF BytesLinked
  <2>2. FdsLinked(<<>>, 0, <<>>, <<>>, <<>>, 0)
    BY <1>3, <1>4, <1>6 DEF FdsLinked
  <2> QED
    BY <1>2, <2>1, <2>2 DEF Links, Nothing
<1>11. ParsedFits(e, p, 0)
  <2>1. LetGo(p) = 0
    BY <1>7 DEF LetGo
  <2>2. <<>> \o <<>> \o <<>> = <<>>
    OBVIOUS
  <2>3. Parsed(p) = <<>>
    BY <1>2, <2>2 DEF Parsed
  <2> QED
    BY <1>2, <1>3, <1>4, <2>1, <2>3 DEF ParsedFits
<1>12. Stream(e, 0)
  BY <1>9, <1>10, <1>11 DEF Stream, p
<1>13. 0 \in 0..Len(frames[e])
  BY <1>2, <1>3
<1> QED
  BY <1>8, <1>12, <1>13

\* close() and the death of a process close the descriptor.
LEMMA EndingKeepsStreams ==
    ASSUME IndInv, StreamInv, NEW e \in Endpoint,
           \/ JoinAndClose(e) \/ Crash(e)
           \/ VerifyStopped(e) /\ io_thread_state[e] # "Stopped"
    PROVE  StreamInv'
<1>1. Peer(e) \in Endpoint /\ Peer(e) # e
  BY OtherEnd
<1>2. io_pc \in [Endpoint -> IOPc] /\ main_pc \in [Endpoint -> MainPc]
  BY DEF IndInv, TypeOK
<1>3. CASE JoinAndClose(e)
  <2>1. /\ CloseSocket(e) /\ main_pc[e] = "join" /\ main_pc'[e] = "idle"
        /\ main_pc'[Peer(e)] = main_pc[Peer(e)] /\ io_pc' = io_pc /\ io_pc[e] = "done"
    BY <1>1, <1>2, <1>3 DEF JoinAndClose, MainStep, ioLocals
  <2>2. UNCHANGED <<stop_op, frames, io_thread_state, written, peeked, unprocessed_bytes,
                    unprocessed_fds, fds_posted, posting, retained_fds, send_fds, send_bytes,
                    received_fd_count, acknowledged_fd_count, batch, delivered,
                    incoming_messages>>
    BY <1>3 DEF JoinAndClose, shared, control, queues, parser, unprocessed, counts, ioLocals,
                transfer, mainRest
  <2>3. io_pc'[e] \in Ending
    BY <2>1 DEF Ending
  <2> QED
    BY <2>1, <2>2, <2>3, CloseKeepsStreams
<1>4. CASE Die(e)
  <2>1. /\ CloseSocket(e) /\ main_pc'[e] = "dead" /\ main_pc'[Peer(e)] = main_pc[Peer(e)]
        /\ io_pc'[e] = "dead" /\ io_pc'[Peer(e)] = io_pc[Peer(e)]
    BY <1>1, <1>2, <1>4 DEF Die
  <2>2. UNCHANGED <<stop_op, frames, io_thread_state, written, peeked, unprocessed_bytes,
                    unprocessed_fds, fds_posted, posting, retained_fds, send_fds, send_bytes,
                    received_fd_count, acknowledged_fd_count, batch, delivered,
                    incoming_messages>>
    BY <1>4 DEF Die, shared, control, queues, parser, unprocessed, counts, transfer, mainRest
  <2>3. io_pc'[e] \in Ending
    BY <2>1 DEF Ending
  <2> QED
    BY <2>1, <2>2, <2>3, CloseKeepsStreams
<1> QED
  BY <1>3, <1>4 DEF Crash, VerifyStopped

\* A transport that is not transferred is not created again.
LEMMA NotTransferred ==
    ASSUME IndInv, StreamInv, Unbroken, NEW e \in Endpoint
    PROVE  ~CreateTransport(e)
<1>1. main_pc[e] = "released" => stop_op[e] = "transfer"
  BY DEF IndInv, JoinedFirst
<1>2. stop_op[e] # "none" => stop_op[e] \in Ops[e]
  BY DEF StreamInv, EndFits, StopFits
<1> QED
  BY <1>1, <1>2 DEF Unbroken, CreateTransport, MainStep

\* Every step keeps the streams.
LEMMA StreamNext ==
    ASSUME IndInv, StreamInv, Unbroken, WithinLimits, [Next]_vars
    PROVE  StreamInv'
<1>1. ASSUME NEW e \in Endpoint, IoThread(e) PROVE StreamInv'
  <2>1. CASE \/ PeekSendQueue(e) \/ LoadState(e) \/ Poll(e) \/ PollFails(e) \/ DrainWakeupPipe(e)
             \/ StopOnHangup(e) \/ PeekToSend(e) \/ ReceiveEnds(e) \/ ParseEnds(e) \/ ReportEof(e)
             \/ CheckTransferred(e) \/ MarkEof(e) \/ FinalNotify(e) \/ PublishBatch(e)
             \/ VerifyStopped(e) /\ io_thread_state[e] = "Stopped"
    BY <2>1, QuietIoSteps, QuietKeepsStreams
  <2>2. CASE VerifyStopped(e) /\ io_thread_state[e] # "Stopped"
    BY <2>2, EndingKeepsStreams
  <2>3. CASE SendFails(e)
    BY <2>3, SendFailsKeepsStreams
  <2>4. CASE DiscardWritten(e)
    BY <2>4, DiscardKeepsStreams
  <2>5. CASE \E n \in 1..ChunkSize : SendSome(e, n) \/ ReceiveSome(e, n)
    BY <2>5, SendKeepsStreams, ReceiveKeepsStreams
  <2>6. CASE ParseMessage(e)
    BY <2>6, ParseMessageKeepsStreams
  <2>7. CASE ParseAcknowledgement(e)
    BY <2>7, ParseAcknowledgementKeepsStreams
  <2>8. CASE ReleaseAcknowledgedFds(e)
    BY <2>8, ReleaseKeepsStreams
  <2>9. CASE AcknowledgeReceivedFds(e)
    BY <2>9, AcknowledgeKeepsStreams
  <2> QED
    BY <1>1, <2>1, <2>2, <2>3, <2>4, <2>5, <2>6, <2>7, <2>8, <2>9 DEF IoThread
<1>2. ASSUME NEW e \in Endpoint, MainContinues(e) \/ MainBegins(e) PROVE StreamInv'
  <2>1. CASE \/ WakeIoThread(e) \/ ActivateReadHook(e) \/ TakeMessages(e)
             \/ ReturnShouldShutdown(e) \/ TestReadable(e) \/ BlockOnCondition(e)
             \/ StoreDesiredState(e) \/ JoinAndRelease(e) \/ LockToWait(e) \/ SetUpReadHook(e)
             \/ \E op \in StopOps : BeginStop(e, op)
    BY <2>1, QuietMainSteps, QuietKeepsStreams
  <2>2. CASE EnqueueMessage(e)
    BY <2>2, EnqueueKeepsStreams
  <2>3. CASE \E size \in PayloadSizes, n \in FdCounts : PostMessage(e, size, n)
    BY <2>3, PostKeepsStreams
  <2>4. CASE JoinAndClose(e)
    BY <2>4, EndingKeepsStreams
  <2> QED
    BY <1>2, <2>1, <2>2, <2>3, <2>4, NotTransferred DEF MainContinues, MainBegins
<1>3. ASSUME NEW e \in Endpoint, Crash(e) PROVE StreamInv'
  BY <1>3, EndingKeepsStreams
<1>4. CASE UNCHANGED vars
  <2>1. Quiet
    <3>1. /\ UNCHANGED <<send_bytes, send_fds, retained_fds, unprocessed, counts, written,
                         posting, fds_posted, wire, frames, open>>
          /\ UNCHANGED <<delivered, incoming_messages, batch, io_pc, io_thread_state, peeked,
                         main_pc, stop_op>>
      BY <1>4 DEF vars, shared, control, queues, parser, ioLocals, transfer, mainLocals, mainRest,
                  outside
    <3>2. \A x \in Endpoint : FdsRide(x) /\ StopFits(x)
      BY DEF StreamInv, EndFits
    <3>3. \A x \in Endpoint : Parsed(x)' = Parsed(x) /\ (Ended(x) => Ended(x)')
      BY <3>1 DEF Parsed, Ended
    <3>4. \A x \in Endpoint : FdsRide(x)' /\ StopFits(x)'
      BY <3>1, <3>2 DEF FdsRide, StopFits, Stopping
    <3> QED
      BY <3>1, <3>3, <3>4 DEF Quiet
  <2> QED
    BY <2>1, QuietKeepsStreams
<1> QED
  BY <1>1, <1>2, <1>3, <1>4 DEF Next

-----------------------------------------------------------------------------
(* What follows for every run of the transport within the receivers' limits. *)

\* What is queued, on the wire and received makes up the frames of each end, in order.
THEOREM StreamInvariance ==
    ASSUME Unbroken
    PROVE  Spec /\ []WithinLimits => []StreamInv
<1>1. Init => StreamInv
  BY StreamInit
<1>2. IndInv /\ StreamInv /\ WithinLimits /\ [Next]_vars => StreamInv'
  BY StreamNext
<1>3. Spec => []IndInv
  BY Invariance
<1> QED
  BY <1>1, <1>2, <1>3, PTL DEF Spec

\* What was received is a prefix of what was sent.
LEMMA ParsedIsPrefix ==
    ASSUME IndInv, StreamInv, NEW e \in Endpoint
    PROVE  /\ Sent(Peer(e)) \in Seq(Message) /\ Parsed(e) \in Seq(Message)
           /\ Len(Parsed(e)) <= Len(Sent(Peer(e)))
           /\ \A i \in 1..Len(Parsed(e)) : Parsed(e)[i] = Sent(Peer(e))[i]
<1> DEFINE p == Peer(e)
           fs == frames[p]
<1>1. p \in Endpoint /\ Peer(p) = e /\ fs \in Seq(Frame)
  BY OtherEnd, EndTypes
<1>2. PICK k \in 0..Len(fs) : Stream(p, k)
  BY <1>1 DEF StreamInv
<1>3. Parsed(e) = MessagesIn(fs)[k]
  BY <1>1, <1>2 DEF Stream, ParsedFits
<1>4. Sent(p) = MessagesIn(fs)[Len(fs)]
  BY DEF Sent
<1> HIDE DEF fs
<1>5. Len(fs) \in k..Len(fs)
  BY <1>1, <1>2, LenProperties
<1> QED
  BY <1>1, <1>2, <1>3, <1>4, <1>5, MessagesGrow DEF p

\* Framing and transfer_data keep the stream whole: what an end has parsed is a prefix of what
\* its peer posted, for every split of the bytes into sends and receives.
THEOREM DeliveredInOrder ==
    ASSUME Unbroken
    PROVE  Spec /\ []WithinLimits => []InOrderDelivery
<1>1. IndInv /\ StreamInv => InOrderDelivery
  <2> SUFFICES ASSUME IndInv, StreamInv, NEW e \in Endpoint
               PROVE  /\ Len(Parsed(e)) <= Len(Sent(Peer(e)))
                      /\ Parsed(e) = SubSeq(Sent(Peer(e)), 1, Len(Parsed(e)))
    BY DEF InOrderDelivery
  <2> DEFINE s == Parsed(e)
             t == Sent(Peer(e))
  <2>1. /\ s \in Seq(Message) /\ t \in Seq(Message) /\ Len(s) <= Len(t)
        /\ \A i \in 1..Len(s) : s[i] = t[i]
    BY ParsedIsPrefix
  <2> HIDE DEF s, t
  <2>2. s = SubSeq(t, 1, Len(s))
    BY <2>1
  <2> QED
    BY <2>1, <2>2 DEF s, t
<1> QED
  BY <1>1, Invariance, StreamInvariance, PTL

\* The peer does not acknowledge more descriptors than are retained.
LEMMA NoOverrun ==
    ASSUME IndInv, StreamInv, NEW e \in Endpoint
    PROVE  acknowledged_fd_count[e] <= Len(retained_fds[e])
<1>1. PICK k \in 0..Len(frames[e]) : Stream(e, k)
  BY DEF StreamInv
<1> DEFINE a == acknowledged_fd_count[e]
           l == fds_posted[e] - Len(retained_fds[e])
           f == FdsUpTo(frames[e], k)
           g == FdsUpTo(frames[e], Len(frames[e]))
<1>2. l \in Nat /\ l + a <= f /\ f <= g /\ g <= fds_posted[e] /\ f \in Nat /\ g \in Nat
  BY <1>1, LetGoBounds DEF LetGo
<1>3. a \in Nat /\ fds_posted[e] \in Nat /\ Len(retained_fds[e]) \in Nat
  BY EndTypes
<1> HIDE DEF a, f, g
<1>4. a <= Len(retained_fds[e])
  BY <1>2, <1>3
<1> QED
  BY <1>4 DEF a

\* release_acknowledged_fds never finds "Peer acknowledged more FDs than we sent".
THEOREM AcknowledgedOnlyOnce ==
    ASSUME Unbroken
    PROVE  Spec /\ []WithinLimits => []NoExcessAcknowledgement
<1>1. IndInv /\ StreamInv => NoExcessAcknowledgement
  BY NoOverrun DEF NoExcessAcknowledgement
<1> QED
  BY <1>1, Invariance, StreamInvariance, PTL

\* Numbers between two others are among those that follow the lower one.
LEMMA AmongThese ==
    ASSUME NEW a \in Nat, NEW n \in Nat, NEW x \in Nat, a < x, x <= a + n
    PROVE  Len(From(a, n)) = n /\ \E i \in 1..n : From(a, n)[i] = x
<1>1. Len(From(a, n)) = n /\ \A i \in 1..n : From(a, n)[i] = a + i
  BY FromProperties
<1>2. x - a \in 1..n /\ a + (x - a) = x
  OBVIOUS
<1> QED
  BY <1>1, <1>2

\* A descriptor is retained until the peer has taken it out of what it received: whatever the
\* order of sends, receives and acknowledgements, nobody closes one that is on its way.
THEOREM FdsStayRetained ==
    ASSUME Unbroken
    PROVE  Spec /\ []WithinLimits => []FdsRetainedUntilReceived
<1>1. IndInv /\ StreamInv => FdsRetainedUntilReceived
  <2> SUFFICES ASSUME IndInv, StreamInv, NEW e \in Endpoint, open[e], open[Peer(e)],
                      NEW x \in InFlightFds(e)
               PROVE  x \in {retained_fds[e][i] : i \in 1..Len(retained_fds[e])}
    BY DEF FdsRetainedUntilReceived
  <2> DEFINE p == Peer(e)
             w == wire[e]
             r == unprocessed_fds[p]
             fs == frames[e]
             l == LetGo(e)
             n == Len(retained_fds[e])
  <2>1. PICK k \in 0..Len(frames[e]) : Stream(e, k)
    BY DEF StreamInv
  <2> DEFINE f == FdsUpTo(fs, k)
             g == FdsUpTo(fs, Len(fs))
  <2>2. EndFits(e) /\ p \in Endpoint
    BY OtherEnd DEF StreamInv
  <2>3. /\ l \in Nat /\ f \in Nat /\ g \in Nat /\ l + acknowledged_fd_count[e] <= f
        /\ f <= g /\ g <= fds_posted[e]
    BY <2>1, LetGoBounds
  <2>4. /\ fds_posted[e] \in Nat /\ n \in Nat /\ acknowledged_fd_count[e] \in Nat
        /\ w \in Seq(Carrier) /\ r \in Seq(Nat) /\ send_fds[e] \in Seq(Nat) /\ fs \in Seq(Frame)
    BY <2>2, EndTypes
  <2>5. l = fds_posted[e] - n /\ retained_fds[e] = From(l, n)
    BY <2>2 DEF EndFits, RetainedFits, LetGo
  <2>6. FdsFlow(fs, k, r, w)
    BY <2>1 DEF Stream, Flows
  <2> HIDE DEF l, n, f, g
  <2>7. l <= f /\ g <= l + n
    BY <2>3, <2>4, <2>5
  <2>8. SUFFICES x \in Nat /\ l < x /\ x <= fds_posted[e]
    <3>1. fds_posted[e] = l + n
      BY <2>3, <2>4, <2>5
    <3>2. l \in Nat /\ n \in Nat /\ x \in Nat /\ l < x /\ x <= l + n
      BY <2>3, <2>4, <2>8, <3>1
    <3> DEFINE s == retained_fds[e]
    <3>3. s = From(l, n)
      BY <2>5
    <3> HIDE DEF s
    <3>4. Len(From(l, n)) = n /\ \E i \in 1..n : From(l, n)[i] = x
      BY <3>2, AmongThese
    <3>5. x \in {s[i] : i \in 1..Len(s)}
      BY <3>3, <3>4
    <3> QED
      BY <3>5 DEF s
  <2>b. ASSUME f < x, x <= g, x \in Nat PROVE l < x /\ x <= fds_posted[e]
    <3> DEFINE all == fds_posted[e]
    <3>1. l \in Nat /\ f \in Nat /\ g \in Nat /\ all \in Nat /\ l <= f /\ g <= all
      BY <2>3, <2>4, <2>7
    <3> HIDE DEF all
    <3>2. l < x /\ x <= all
      BY <2>b, <3>1
    <3> QED
      BY <3>2 DEF all
  <2>9. \/ \E i \in 1..Len(send_fds[e]) : x = send_fds[e][i]
        \/ \E i \in 1..Len(r) : x = r[i]
        \/ \E j \in 1..Len(w) : \E i \in 1..Len(w[j].fds) : x = w[j].fds[i]
    BY DEF InFlightFds
  <2> DEFINE T(i) == Totals(WireFds(w))[i]
  <2>10. /\ r = From(f, Len(r)) /\ f + Len(r) + T(Len(w)) <= g
         /\ \A j \in 1..Len(w) : w[j].fds = From(f + Len(r) + T(j - 1), Len(w[j].fds))
    BY <2>6 DEF FdsFlow, f, g
  <2>11. /\ Len(w) \in Nat /\ \A j \in 0..Len(w) : T(j) \in Nat
         /\ \A j \in 1..Len(w) : T(j) = T(j - 1) + Len(w[j].fds) /\ Len(w[j].fds) \in Nat
         /\ WireFds(w) \in Seq(Nat) /\ Len(WireFds(w)) = Len(w)
    BY <2>4, WireNumbers
  <2>12. Len(r) \in Nat
    BY <2>4, LenProperties
  <2> HIDE DEF w, r, fs
  <2>13. CASE \E i \in 1..Len(send_fds[e]) : x = send_fds[e][i]
    <3>1. PICK i \in 1..Len(send_fds[e]) : x = send_fds[e][i]
      BY <2>13
    <3>2. x \in Nat
      BY <2>4, <3>1, ElementOfSeq
    <3> QED
      BY <2>2, <3>1, <3>2 DEF EndFits, RetainedFits, l
  <2>14. CASE \E i \in 1..Len(r) : x = r[i]
    <3>1. PICK i \in 1..Len(r) : x = r[i]
      BY <2>14
    <3>2. x = f + i
      <4>1. \A m \in 1..Len(r) : From(f, Len(r))[m] = f + m
        BY <2>3, <2>12, FromProperties
      <4> QED
        BY <2>10, <3>1, <4>1
    <3>3. T(Len(w)) \in Nat
      BY <2>11
    <3>4. f < x /\ x <= g /\ x \in Nat
      <4> DEFINE t == T(Len(w))
                 m == Len(r)
      <4>1. t \in Nat /\ m \in Nat /\ i \in 1..m /\ f + m + t <= g /\ x = f + i
        BY <2>10, <2>12, <3>2, <3>3
      <4> HIDE DEF t, m
      <4> QED
        BY <2>3, <4>1
    <3> QED
      BY <2>b, <3>4
  <2>15. CASE \E j \in 1..Len(w) : \E i \in 1..Len(w[j].fds) : x = w[j].fds[i]
    <3>1. PICK j \in 1..Len(w) : \E i \in 1..Len(w[j].fds) : x = w[j].fds[i]
      BY <2>15
    <3>2. PICK i \in 1..Len(w[j].fds) : x = w[j].fds[i]
      BY <3>1
    <3> DEFINE c == Len(w[j].fds)
               b == f + Len(r) + T(j - 1)
    <3>3. j - 1 \in 0..Len(w) /\ j \in 0..Len(w) /\ Len(w) \in j..Len(w)
      BY <2>11
    <3>4. T(j - 1) \in Nat /\ T(j) \in Nat /\ T(Len(w)) \in Nat /\ c \in Nat /\ T(j) = T(j - 1) + c
      BY <2>11, <3>3
    <3>5. T(j) <= T(Len(w))
      <4>1. j \in 0..Len(WireFds(w)) /\ Len(w) \in j..Len(WireFds(w))
        BY <2>11, <3>3
      <4> QED
        BY <2>11, <4>1, TotalsGrow
    <3> HIDE DEF T
    <3>6. b \in Nat
      BY <2>3, <2>12, <3>4
    <3>7. w[j].fds = From(b, c)
      BY <2>10
    <3> HIDE DEF b, c
    <3>8. i \in 1..c
      BY DEF c
    <3>9. x = b + i
      <4>1. \A m \in 1..c : From(b, c)[m] = b + m
        BY <3>4, <3>6, FromProperties
      <4> QED
        BY <3>2, <3>7, <3>8, <4>1
    <3>10. b = f + Len(r) + T(j - 1)
      BY DEF b
    <3>11. f < x /\ x <= g /\ x \in Nat
      <4> DEFINE t0 == T(j - 1)
                 t1 == T(j)
                 t2 == T(Len(w))
                 m == Len(r)
      <4>1. /\ t0 \in Nat /\ t1 \in Nat /\ t2 \in Nat /\ c \in Nat /\ m \in Nat /\ i \in 1..c
            /\ t1 = t0 + c /\ t1 <= t2 /\ f + m + t2 <= g /\ x = b + i /\ b = f + m + t0
        BY <2>10, <2>12, <3>4, <3>5, <3>8, <3>9, <3>10
      <4> HIDE DEF t0, t1, t2, m
      <4> QED
        BY <2>3, <4>1
    <3> QED
      BY <2>b, <3>11
  <2> QED
    BY <2>9, <2>13, <2>14, <2>15
<1> QED
  BY <1>1, Invariance, StreamInvariance, PTL

-----------------------------------------------------------------------------
(* The transport is a lossless first-in first-out channel in each direction. *)

AllSent == [e \in Endpoint |-> Sent(e)]

\* What every step but three leaves alone.
LEMMA SameFrames ==
    ASSUME frames' = frames
    PROVE  AllSent' = AllSent
<1>1. \A e \in Endpoint : Sent(e)' = Sent(e)
  BY DEF Sent
<1> QED
  BY <1>1 DEF AllSent

\* enqueue_message and the read callback are the only steps that the channel sees.
LEMMA ChannelStepsAre ==
    ASSUME NEW e \in Endpoint,
           \/ IoThread(e) /\ ~AcknowledgeReceivedFds(e)
           \/ MainContinues(e) /\ ~EnqueueMessage(e) /\ ~TakeMessages(e)
           \/ MainBegins(e) \/ Crash(e)
    PROVE  frames' = frames /\ delivered' = delivered
<1>1. CASE IoThread(e) /\ ~AcknowledgeReceivedFds(e)
  BY <1>1 DEF IoThread, PeekSendQueue, LoadState, Poll, PollFails, DrainWakeupPipe, StopOnHangup,
              PeekToSend, SendFails, DiscardWritten, SendSome, ReceiveSome, ReceiveEnds,
              ParseMessage, ParseAcknowledgement, ParseEnds, ReleaseAcknowledgedFds, PublishBatch,
              ReportEof, VerifyStopped, Die, CheckTransferred, MarkEof, FinalNotify, outside
<1>2. CASE MainContinues(e) /\ ~EnqueueMessage(e) /\ ~TakeMessages(e)
  BY <1>2 DEF MainContinues, WakeIoThread, ActivateReadHook, ReturnShouldShutdown, TestReadable,
              BlockOnCondition, StoreDesiredState, JoinAndClose, JoinAndRelease, CreateTransport,
              LockToWait, outside
<1>3. CASE MainBegins(e) \/ Crash(e)
  BY <1>3 DEF MainBegins, PostMessage, SetUpReadHook, LockToWait, BeginStop, Crash, Die, outside
<1> QED
  BY <1>1, <1>2, <1>3

\* One more frame: a message more, or an acknowledgement, which the channel does not see.
LEMMA SentGrows ==
    ASSUME IndInv, NEW e \in Endpoint, NEW f \in Frame,
           frames' = [frames EXCEPT ![e] = Append(@, f)]
    PROVE  LET x == Intended(frames'[e], Len(frames[e]) + 1) IN
           /\ x \in Message /\ Sent(e) \in Seq(Message)
           /\ Sent(e)' = IF f.type = "Payload" THEN Append(Sent(e), x) ELSE Sent(e)
           /\ \A y \in Endpoint : y # e => Sent(y)' = Sent(y)
<1> DEFINE fs == frames[e]
           gs == Append(fs, f)
           n == Len(fs)
<1>1. fs \in Seq(Frame) /\ frames'[e] = gs /\ n \in Nat
  BY EndTypes, EndFunctions
<1>2. gs \in Seq(Frame) /\ Len(gs) = n + 1 /\ gs[n + 1] = f
  <2> HIDE DEF fs
  <2> QED
    BY <1>1, AppendProperties
<1>3. \A y \in Endpoint : y # e => Sent(y)' = Sent(y)
  BY EndFunctions DEF Sent
<1>4. Sent(e) = MessagesIn(fs)[n] /\ Sent(e)' = MessagesIn(gs)[n + 1]
  BY <1>1, <1>2 DEF Sent
<1> HIDE DEF fs, gs
<1>5. n + 1 \in 1..Len(gs) /\ (n + 1) - 1 = n /\ n \in 0..Len(fs) /\ n \in n..Len(fs)
  BY <1>1, <1>2
<1>6. MessagesIn(gs)[n] = MessagesIn(fs)[n]
  BY <1>1, <1>5, MessagesAppend DEF gs
<1>7. MessagesIn(gs)[n + 1] =
        IF gs[n + 1].type = "Payload" THEN Append(MessagesIn(gs)[n], Intended(gs, n + 1))
        ELSE MessagesIn(gs)[n]
  <2>1. MessagesIn(gs)[n + 1] =
          IF gs[n + 1].type = "Payload" THEN Append(MessagesIn(gs)[(n + 1) - 1], Intended(gs, n + 1))
          ELSE MessagesIn(gs)[(n + 1) - 1]
    BY <1>2, <1>5, MessagesProperties
  <2> QED
    BY <1>5, <2>1
<1>8. Intended(gs, n + 1) \in Message
  BY <1>2, <1>5, IntendedType
<1>9. MessagesIn(fs)[n] \in Seq(Message)
  BY <1>1, <1>5, MessagesGrow
<1> QED
  BY <1>1, <1>2, <1>3, <1>4, <1>6, <1>7, <1>8, <1>9 DEF fs

\* Putting a message into the send queue sends it.
LEMMA EnqueueSends ==
    ASSUME IndInv, StreamInv, NEW e \in Endpoint, EnqueueMessage(e)
    PROVE  Channel!Send(e)
<1> DEFINE x == Intended(frames'[e], Len(frames[e]) + 1)
<1>1. posting[e] \in Frame /\ posting[e].type = "Payload"
  BY EndTypes DEF StreamInv, EndFits, PostingFits
<1>2. frames' = [frames EXCEPT ![e] = Append(@, posting[e])] /\ delivered' = delivered
  BY DEF EnqueueMessage
<1>3. /\ x \in Message /\ Sent(e) \in Seq(Message) /\ Sent(e)' = Append(Sent(e), x)
      /\ \A y \in Endpoint : y # e => Sent(y)' = Sent(y)
  BY <1>1, <1>2, SentGrows
<1> HIDE DEF x
<1> DEFINE s == Sent(e)
           t == Sent(e)'
<1>4. Len(t) > Len(s) /\ t[Len(t)] = x
  <2>1. s \in Seq(Message) /\ t = Append(s, x) /\ x \in Message
    BY <1>3
  <2> HIDE DEF s, t
  <2> QED
    BY <2>1, AppendProperties
<1>5. AllSent'[e] = t /\ AllSent[e] = s
  BY DEF AllSent
<1>6. AllSent' = [AllSent EXCEPT ![e] = Append(@, x)]
  <2>1. AllSent' = [y \in Endpoint |-> Sent(y)'] /\ AllSent = [y \in Endpoint |-> Sent(y)]
    BY DEF AllSent
  <2>2. [AllSent EXCEPT ![e] = Append(@, x)]
          = [y \in Endpoint |-> IF y = e THEN Append(Sent(e), x) ELSE Sent(y)]
    BY <2>1
  <2> QED
    BY <1>3, <2>1, <2>2
<1>7. AllSent'[e][Len(AllSent'[e])] = x /\ Len(AllSent'[e]) > Len(AllSent[e])
  BY <1>4, <1>5
<1>8. /\ Len(AllSent'[e]) > Len(AllSent[e]) /\ AllSent'[e][Len(AllSent'[e])] \in Message
      /\ AllSent' = [AllSent EXCEPT ![e] = Append(@, AllSent'[e][Len(AllSent'[e])])]
  BY <1>3, <1>6, <1>7
<1> QED
  BY <1>2, <1>8 DEF Channel!Send, AllSent

\* The part of a sequence after its first a elements, when they are those of another.
LEMMA NextPart ==
    ASSUME NEW S, NEW d \in Seq(S), NEW i \in Seq(S), NEW b \in Seq(S), NEW t \in Seq(S),
           Len((d \o i) \o b) <= Len(t),
           \A j \in 1..Len((d \o i) \o b) : ((d \o i) \o b)[j] = t[j]
    PROVE  /\ Len(d) + Len(i) <= Len(t)
           /\ i = SubSeq(t, Len(d) + 1, Len(d) + Len(i))
<1>1. /\ Len(d) \in Nat /\ Len(i) \in Nat /\ Len(b) \in Nat /\ Len(t) \in Nat
      /\ d \o i \in Seq(S) /\ Len(d \o i) = Len(d) + Len(i)
      /\ Len((d \o i) \o b) = Len(d) + Len(i) + Len(b)
  BY LenProperties, ConcatProperties
<1>2. Len(d) + Len(i) <= Len(t)
  BY <1>1
<1>3. \A j \in 1..Len(i) : i[j] = t[Len(d) + j]
  <2> SUFFICES ASSUME NEW j \in 1..Len(i) PROVE i[j] = t[Len(d) + j]
    OBVIOUS
  <2>1. Len(d) + j \in 1..Len((d \o i) \o b) /\ Len(d) + j \in 1..Len(d \o i)
    BY <1>1
  <2>2. ((d \o i) \o b)[Len(d) + j] = (d \o i)[Len(d) + j]
    BY <1>1, <2>1, ConcatProperties
  <2>3. (d \o i)[Len(d) + j] = i[j]
    BY <1>1, <2>1, ConcatProperties
  <2> QED
    BY <2>1, <2>2, <2>3
<1>4. /\ SubSeq(t, Len(d) + 1, Len(d) + Len(i)) \in Seq(S)
      /\ Len(SubSeq(t, Len(d) + 1, Len(d) + Len(i))) = Len(i)
      /\ \A j \in 1..Len(i) : SubSeq(t, Len(d) + 1, Len(d) + Len(i))[j] = t[Len(d) + j]
  BY <1>1, <1>2
<1>5. i = SubSeq(t, Len(d) + 1, Len(d) + Len(i))
  BY <1>3, <1>4, SeqEqual
<1> QED
  BY <1>2, <1>5

\* The read callback gets the next messages, or none.
LEMMA TakeReceives ==
    ASSUME IndInv, StreamInv, NEW e \in Endpoint, TakeMessages(e), incoming_messages[e] # <<>>
    PROVE  \E n \in 1..Len(Sent(Peer(e))) : Channel!Receive(e, n)
<1> DEFINE d == delivered[e]
           i == incoming_messages[e]
           b == batch[e]
           t == Sent(Peer(e))
           n == Len(i)
<1>1. frames' = frames /\ delivered' = [delivered EXCEPT ![e] = @ \o i]
  BY DEF TakeMessages
<1>2. d \in Seq(Message) /\ i \in Seq(Message) /\ b \in Seq(Message) /\ i # <<>>
  BY EndTypes
<1>3. /\ t \in Seq(Message) /\ Len((d \o i) \o b) <= Len(t)
      /\ \A j \in 1..Len((d \o i) \o b) : ((d \o i) \o b)[j] = t[j]
  BY ParsedIsPrefix DEF Parsed
<1> HIDE DEF d, i, b, t
<1>4. Len(d) + Len(i) <= Len(t) /\ i = SubSeq(t, Len(d) + 1, Len(d) + Len(i))
  BY <1>2, <1>3, NextPart
<1>5. Len(d) \in Nat /\ n \in Nat \ {0} /\ Len(t) \in Nat
  BY <1>2, <1>3, LenProperties, EmptySeq
<1> HIDE DEF n
<1>6. /\ n \in 1..Len(t) /\ (Len(d) + 1) + n - 1 = Len(d) + n /\ (Len(d) + 1) + n - 1 <= Len(t)
  BY <1>4, <1>5 DEF n
<1>7. Peer(e) \in Endpoint /\ AllSent[Peer(e)] = t /\ Channel!Other(e) = Peer(e)
  BY OtherEnd DEF AllSent, t, Channel!Other, Peer
<1>8. i = SubSeq(t, Len(d) + 1, (Len(d) + 1) + n - 1)
  BY <1>4, <1>6 DEF n
<1>9. AllSent' = AllSent
  BY <1>1, SameFrames
<1>10. Channel!Receive(e, n)
  <2>1. (Len(delivered[e]) + 1) + n - 1 <= Len(AllSent[Peer(e)])
    BY <1>6, <1>7 DEF d
  <2>2. delivered' = [delivered EXCEPT ![e] = @ \o
            SubSeq(AllSent[Peer(e)], Len(delivered[e]) + 1, (Len(delivered[e]) + 1) + n - 1)]
    BY <1>1, <1>7, <1>8 DEF d
  <2> QED
    BY <1>7, <1>9, <2>1, <2>2 DEF Channel!Receive, AllSent
<1> QED
  BY <1>6, <1>10 DEF t

\* Every step of the transport is a step of the channel, or none.
LEMMA ChannelNext ==
    ASSUME IndInv, StreamInv, [Next]_vars
    PROVE  [Channel!Next]_<<[e \in Endpoint |-> Sent(e)], delivered>>
<1> DEFINE Stutters == AllSent' = AllSent /\ delivered' = delivered
<1>1. SUFFICES Channel!Next \/ Stutters
  BY DEF AllSent
<1>2. ASSUME NEW e \in Endpoint, EnqueueMessage(e) PROVE Channel!Next
  BY <1>2, EnqueueSends DEF Channel!Next
<1>3. ASSUME NEW e \in Endpoint, AcknowledgeReceivedFds(e) PROVE Stutters
  <2>1. /\ frames' = [frames EXCEPT ![e] = Append(@, Acknowledgement(e))]
        /\ delivered' = delivered
    BY <1>3 DEF AcknowledgeReceivedFds
  <2>2. Acknowledgement(e) \in Frame /\ Acknowledgement(e).type # "Payload"
    BY EndTypes DEF Acknowledgement, Frame
  <2>3. \A y \in Endpoint : Sent(y)' = Sent(y)
    BY <2>1, <2>2, SentGrows
  <2> QED
    BY <2>1, <2>3 DEF AllSent
<1>4. ASSUME NEW e \in Endpoint, TakeMessages(e) PROVE Channel!Next \/ Stutters
  <2>1. CASE incoming_messages[e] = <<>>
    <3>1. frames' = frames /\ delivered' = [delivered EXCEPT ![e] = @ \o <<>>]
      BY <1>4, <2>1 DEF TakeMessages
    <3>2. delivered \in [Endpoint -> Seq(Message)] /\ delivered[e] \in Seq(Message)
      BY DEF IndInv, TypeOK
    <3>3. delivered[e] \o <<>> = delivered[e]
      BY <3>2
    <3>4. delivered' = delivered
      BY <3>1, <3>2, <3>3
    <3> QED
      BY <3>1, <3>4, SameFrames
  <2>2. CASE incoming_messages[e] # <<>>
    <3>1. PICK n \in 1..Len(Sent(Peer(e))) : Channel!Receive(e, n)
      BY <1>4, <2>2, TakeReceives
    <3>2. AllSent[Channel!Other(e)] = Sent(Peer(e))
      BY OtherEnd DEF AllSent, Channel!Other, Peer
    <3> QED
      BY <3>1, <3>2 DEF Channel!Next, AllSent
  <2> QED
    BY <2>1, <2>2
<1>5. ASSUME NEW e \in Endpoint,
             \/ IoThread(e) /\ ~AcknowledgeReceivedFds(e)
             \/ MainContinues(e) /\ ~EnqueueMessage(e) /\ ~TakeMessages(e)
             \/ MainBegins(e) \/ Crash(e)
      PROVE  Stutters
  BY <1>5, ChannelStepsAre, SameFrames
<1>6. CASE UNCHANGED vars
  <2>1. frames' = frames /\ delivered' = delivered
    BY <1>6 DEF vars, outside
  <2> QED
    BY <2>1, SameFrames
<1> QED
  BY <1>2, <1>3, <1>4, <1>5, <1>6 DEF Next

\* TransportSocket implements the channel its users rely on: no message is lost, repeated,
\* reordered or torn, and each comes with its own descriptors.
THEOREM TransportImplementsChannel ==
    ASSUME Unbroken
    PROVE  Spec /\ []WithinLimits => ImplementsChannel
<1>1. Init => Channel!Init
  <2> SUFFICES ASSUME Init PROVE Channel!Init
    OBVIOUS
  <2>1. <<>> \in Seq(Frame) /\ Len(<<>>) = 0
    OBVIOUS
  <2>2. MessagesIn(<<>>)[0] = <<>>
    BY <2>1, MessagesProperties
  <2>3. \A e \in Endpoint : Sent(e) = <<>>
    BY <2>1, <2>2 DEF Init, Sent
  <2>4. [e \in Endpoint |-> Sent(e)] = [e \in Endpoint |-> <<>>]
    BY <2>3
  <2> QED
    BY <2>4 DEF Init, Channel!Init
<1>2. IndInv /\ StreamInv /\ [Next]_vars
        => [Channel!Next]_<<[e \in Endpoint |-> Sent(e)], delivered>>
  BY ChannelNext
<1> QED
  BY <1>1, <1>2, Invariance, StreamInvariance, PTL DEF Spec, ImplementsChannel, Channel!Spec

-----------------------------------------------------------------------------
(* Two ends of this code never disconnect each other. *)

\* Neither a system call fails nor a message is posted that the parser refuses.
Accepted ==
    /\ \A e \in Endpoint : "os_error" \notin Ops[e]
    /\ \A size \in PayloadSizes : size <= MaxPayload
    /\ \A n \in FdCounts : n <= MaxMessageFds

\* The peer is gone, or this end is stopping.
Excused(e) == ~open[Peer(e)] \/ stop_op[e] # "none"
Leaving == {"hangup", "verify", "check_transferred", "mark_eof", "final_notify", "done"}

EofFits(e) ==
    /\ peer_eof[e] => Excused(e)
    /\ io_thread_state[e] # "Running" => Excused(e)
    /\ io_pc[e] \in Leaving => Excused(e)
    /\ "HUP" \in revents[e] => ~open[Peer(e)]
EofInv == \A e \in Endpoint : EofFits(e)

\* An end that does not move, whatever the other one does.
LEMMA EofStays ==
    ASSUME NEW e \in Endpoint, EofFits(e), peer_eof'[e] = peer_eof[e],
           io_thread_state'[e] = io_thread_state[e], io_pc'[e] = io_pc[e],
           revents'[e] = revents[e], Excused(e) => Excused(e)',
           ~open[Peer(e)] => ~open'[Peer(e)]
    PROVE  EofFits(e)'
  BY DEF EofFits

\* A step of the IO thread that has an excuse for what it does.
LEMMA EofMoves ==
    ASSUME EofInv, NEW e \in Endpoint, open' = open, stop_op' = stop_op,
           \A x \in Endpoint : x # e =>
                /\ peer_eof'[x] = peer_eof[x] /\ io_thread_state'[x] = io_thread_state[x]
                /\ io_pc'[x] = io_pc[x] /\ revents'[x] = revents[x],
           peer_eof'[e] => peer_eof[e] \/ Excused(e),
           io_thread_state'[e] # "Running" => io_thread_state[e] # "Running" \/ Excused(e),
           io_pc'[e] \in Leaving => Excused(e),
           "HUP" \in revents'[e] => "HUP" \in revents[e] \/ ~open[Peer(e)]
    PROVE  EofInv'
<1>1. \A x \in Endpoint : Excused(x)' = Excused(x)
  BY DEF Excused
<1>2. EofFits(e)'
  BY <1>1 DEF EofInv, EofFits
<1>3. ASSUME NEW x \in Endpoint, x # e PROVE EofFits(x)'
  BY <1>1, <1>3, EofStays DEF EofInv
<1> QED
  BY <1>2, <1>3 DEF EofInv

\* Where the thread goes after it has read: it leaves only when the socket has hung up.
LEMMA NowhereElse ==
    /\ \A r : AfterReading(r) \in Leaving => "HUP" \in r
    /\ \A r : AfterDraining(r) \in Leaving => "HUP" \in r
    /\ \A x, eof : AfterPublishing(x, eof) \in Leaving => "HUP" \in revents[x]
    /\ \A x, eof : AfterAcknowledging(x, eof) \in Leaving => "HUP" \in revents[x]
    /\ \A x, eof : AfterReleasing(x, eof) \in Leaving => "HUP" \in revents[x]
    /\ \A x, eof : AfterParsing(x, eof) \in Leaving => "HUP" \in revents[x]
<1>1. \A r : AfterReading(r) \in Leaving => "HUP" \in r
  BY DEF AfterReading, Leaving
<1>2. \A r : AfterDraining(r) \in Leaving => "HUP" \in r
  BY <1>1 DEF AfterDraining, Leaving
<1>3. \A x, eof : AfterPublishing(x, eof) \in Leaving => "HUP" \in revents[x]
  BY <1>1 DEF AfterPublishing, Leaving
<1>4. \A x, eof : AfterAcknowledging(x, eof) \in Leaving => "HUP" \in revents[x]
  BY <1>3 DEF AfterAcknowledging, Leaving
<1>5. \A x, eof : AfterReleasing(x, eof) \in Leaving => "HUP" \in revents[x]
  BY <1>4 DEF AfterReleasing, Leaving
<1>6. \A x, eof : AfterParsing(x, eof) \in Leaving => "HUP" \in revents[x]
  BY <1>5 DEF AfterParsing, Leaving
<1> QED
  BY <1>1, <1>2, <1>3, <1>4, <1>5, <1>6

\* No frame of this code is refused.
LEMMA NothingRejected ==
    ASSUME IndInv, StreamInv, Accepted, NEW e \in Endpoint, NEW h \in HeadersAt(e)
    PROVE  ~Rejected(h)
<1> DEFINE fs == frames[Peer(e)]
<1>1. Peer(e) \in Endpoint /\ fs \in Seq(Frame)
  BY OtherEnd, EndTypes
<1>2. PICK k \in 0..Len(fs) : Stream(Peer(e), k)
  BY <1>1 DEF StreamInv
<1>3. k + 1 \in 1..Len(fs) /\ h = fs[k + 1] /\ FrameFits(fs, k + 1)
  BY <1>2, NextHeader
<1>4. h.type \in {"Payload", "Acknowledgement"} /\ h.payload_size \in Nat /\ h.fd_count \in Nat
  <2> HIDE DEF fs
  <2> QED
    BY <1>1, <1>3, FrameTypes
<1>5. CASE h.type = "Payload"
  <2>1. h.payload_size <= MaxPayload /\ h.fd_count <= MaxMessageFds
    BY <1>3, <1>5 DEF FrameFits, Accepted
  <2>2. MaxPayload \in Nat /\ MaxMessageFds \in Nat
    BY SizeAssumption DEF SizeAssumption
  <2> QED
    BY <1>4, <1>5, <2>1, <2>2 DEF Rejected
<1>6. CASE h.type = "Acknowledgement"
  BY <1>3, <1>6 DEF FrameFits, Rejected
<1> QED
  BY <1>4, <1>5, <1>6

\* The steps of the IO thread.
LEMMA EofIo ==
    ASSUME IndInv, StreamInv, WithinLimits, Accepted, EofInv, NEW e \in Endpoint, IoThread(e),
           ~(VerifyStopped(e) /\ io_thread_state[e] # "Stopped")
    PROVE  EofInv'
<1> DEFINE Others(x) ==
               /\ peer_eof'[x] = peer_eof[x] /\ io_thread_state'[x] = io_thread_state[x]
               /\ io_pc'[x] = io_pc[x] /\ revents'[x] = revents[x]
           Unmoved == open' = open /\ stop_op' = stop_op /\ \A x \in Endpoint : x # e => Others(x)
<1>1. EofFits(e)
  BY DEF EofInv
<1>2. "os_error" \notin Ops[e]
  BY DEF Accepted
<1>3. /\ peer_eof \in [Endpoint -> BOOLEAN] /\ io_thread_state \in [Endpoint -> IOThreadState]
      /\ io_pc \in [Endpoint -> IOPc] /\ revents \in [Endpoint -> SUBSET {"IN", "HUP", "OUT", "WAKE"}]
  BY DEF IndInv, TypeOK
<1>4. CASE PeekSendQueue(e) \/ PeekToSend(e)
  <2>1. /\ Unmoved /\ peer_eof' = peer_eof /\ io_thread_state' = io_thread_state
        /\ revents'[e] = {} /\ io_pc'[e] \in {"load", "peek", "send"}
    BY <1>3, <1>4 DEF PeekSendQueue, PeekToSend, IoStep, shared, control, mainLocals, mainRest, outside
  <2> QED
    BY <2>1, EofMoves DEF Leaving
<1>5. CASE LoadState(e)
  <2>1. /\ Unmoved /\ peer_eof' = peer_eof /\ revents' = revents
        /\ \/ io_pc'[e] = "poll" /\ io_thread_state'[e] = io_thread_state[e]
           \/ io_thread_state[e] # "Running"
    BY <1>3, <1>5 DEF LoadState, IoStep, polled, mainLocals, mainRest, outside
  <2>2. io_thread_state[e] # "Running" => Excused(e)
    BY <1>1 DEF EofFits
  <2> QED
    BY <2>1, <2>2, EofMoves DEF Leaving
<1>6. CASE Poll(e)
  <2>1. /\ Unmoved /\ peer_eof' = peer_eof /\ io_thread_state' = io_thread_state
        /\ revents'[e] = Ready(e)
        /\ io_pc'[e] = "drain_wakeup" \/ io_pc'[e] = AfterDraining(Ready(e))
    BY <1>3, <1>6 DEF Poll, IoStep, shared, control, mainLocals, mainRest, outside
  <2>2. "HUP" \in Ready(e) => ~open[Peer(e)]
    BY DEF Ready
  <2>3. io_pc'[e] \in Leaving => Excused(e)
    BY <2>1, <2>2, NowhereElse DEF Leaving, Excused
  <2> QED
    BY <2>1, <2>2, <2>3, EofMoves
<1>7. CASE PollFails(e)
  BY <1>2, <1>7 DEF PollFails
<1>8. CASE \/ DrainWakeupPipe(e) \/ AcknowledgeReceivedFds(e) \/ PublishBatch(e) \/ ReportEof(e)
  <2>1. /\ Unmoved /\ peer_eof' = peer_eof /\ io_thread_state' = io_thread_state
        /\ revents' = revents
        /\ \/ io_pc'[e] = AfterDraining(revents[e]) \/ io_pc'[e] = AfterReading(revents[e])
           \/ io_pc'[e] = AfterAcknowledging(e, peer_eof[e])
           \/ io_pc'[e] = AfterPublishing(e, peer_eof[e])
    BY <1>3, <1>8 DEF DrainWakeupPipe, AcknowledgeReceivedFds, PublishBatch, ReportEof, IoStep,
                      Broadcast, control, polled, mainLocals, mainRest, outside
  <2>2. io_pc'[e] \in Leaving => Excused(e)
    BY <1>1, <2>1, NowhereElse DEF EofFits, Excused
  <2> QED
    BY <2>1, <2>2, EofMoves
<1>9. CASE \/ StopOnHangup(e) \/ MarkEof(e) \/ CheckTransferred(e) \/ FinalNotify(e)
           \/ VerifyStopped(e) /\ io_thread_state[e] = "Stopped"
  <2>1. Unmoved /\ revents' = revents /\ io_pc[e] \in Leaving
    BY <1>3, <1>9 DEF StopOnHangup, MarkEof, CheckTransferred, FinalNotify, VerifyStopped, IoStep,
                      Broadcast, shared, control, polled, mainLocals, mainRest, outside, Leaving
  <2>2. Excused(e)
    BY <1>1, <2>1 DEF EofFits
  <2> QED
    BY <2>1, <2>2, EofMoves
<1>10. CASE SendFails(e)
  <2>1. /\ Unmoved /\ peer_eof' = peer_eof /\ revents' = revents /\ io_pc'[e] = "peek"
        /\ ~open[Peer(e)]
    BY <1>2, <1>3, <1>10 DEF SendFails, IoStep, polled, mainLocals, mainRest, outside
  <2> QED
    BY <2>1, EofMoves DEF Leaving, Excused
<1>11. CASE DiscardWritten(e)
  <2>1. /\ Unmoved /\ peer_eof' = peer_eof /\ io_thread_state' = io_thread_state
        /\ revents' = revents /\ io_pc'[e] = "peek"
    BY <1>3, <1>11 DEF DiscardWritten, IoStep, control, polled, mainLocals, mainRest, outside
  <2> QED
    BY <2>1, EofMoves DEF Leaving
<1>12. CASE (\E n \in 1..ChunkSize : SendSome(e, n)) \/ ParseMessage(e) \/ ParseAcknowledgement(e)
  <2>1. /\ Unmoved /\ peer_eof' = peer_eof /\ io_thread_state' = io_thread_state
        /\ revents' = revents /\ io_pc' = io_pc /\ io_pc[e] \in {"send", "parse"}
    BY <1>12 DEF SendSome, ParseMessage, ParseAcknowledgement, shared, control, ioLocals, polled,
                 mainLocals, mainRest, outside
  <2> QED
    BY <2>1, EofMoves DEF Leaving
<1>13. CASE \E n \in 1..ChunkSize : ReceiveSome(e, n)
  <2>1. PICK n \in 1..ChunkSize : ReceiveSome(e, n)
    BY <1>13
  <2> DEFINE w == wire[Peer(e)]
             tooManyBytes == Len(unprocessed_bytes[e]) + n > MaxUnprocessedBytes
             tooManyFds == Len(unprocessed_fds[e]) + Len(FdsIn(w, n)) > MaxUnprocessedFds
  <2>2. /\ Unmoved /\ revents' = revents /\ io_thread_state' = io_thread_state
        /\ io_pc'[e] \in {"parse", "receive"}
        /\ peer_eof'[e] = (peer_eof[e] \/ (tooManyBytes \/ tooManyFds))
        /\ n <= Len(w) /\ Cardinality(CarriersIn(w, n)) <= 1
    BY <1>3, <2>1 DEF ReceiveSome, IoStep, polled, mainLocals, mainRest
  <2>3. /\ Len(unprocessed_bytes[e]) + n <= MaxUnprocessedBytes
        /\ Len(unprocessed_fds[e]) + Len(FdsIn(w, n)) <= MaxUnprocessedFds
    BY <2>2 DEF WithinLimits
  <2>4. /\ Len(unprocessed_bytes[e]) \in Nat /\ Len(unprocessed_fds[e]) \in Nat
        /\ MaxUnprocessedBytes \in Nat /\ MaxUnprocessedFds \in Nat /\ n \in Nat
    BY EndTypes, SizeAssumption DEF SizeAssumption
  <2>5. Len(FdsIn(w, n)) \in Nat
    BY <2>2, <2>4, OtherEnd, EndTypes, ReceivedType, LenProperties
  <2> HIDE DEF w
  <2>6. ~tooManyBytes /\ ~tooManyFds
    BY <2>3, <2>4, <2>5
  <2> QED
    BY <2>2, <2>6, EofMoves DEF Leaving
<1>14. CASE ReceiveEnds(e)
  <2>1. /\ Unmoved /\ revents' = revents /\ io_thread_state' = io_thread_state
        /\ io_pc'[e] = "parse" /\ peer_eof'[e] = (peer_eof[e] \/ ~open[Peer(e)])
    BY <1>2, <1>3, <1>14 DEF ReceiveEnds, IoStep, polled, mainLocals, mainRest, outside
  <2> QED
    BY <2>1, EofMoves DEF Leaving, Excused
<1>15. CASE ParseEnds(e)
  <2>1. peer_eof' = peer_eof
    <3>1. \A h \in HeadersAt(e) : ~Rejected(h)
      BY NothingRejected
    <3>2. CASE UNCHANGED peer_eof
      BY <3>2
    <3>3. CASE \E h \in HeadersAt(e) : peer_eof' = [peer_eof EXCEPT ![e] = @ \/ Rejected(h)]
      <4>1. PICK h \in HeadersAt(e) : peer_eof' = [peer_eof EXCEPT ![e] = @ \/ Rejected(h)]
        BY <3>3
      <4>2. (peer_eof[e] \/ Rejected(h)) = peer_eof[e]
        BY <1>3, <3>1
      <4> QED
        BY <1>3, <4>1, <4>2
    <3> QED
      BY <1>15, <3>2, <3>3 DEF ParseEnds
  <2>2. /\ Unmoved /\ revents' = revents /\ io_thread_state' = io_thread_state
        /\ io_pc'[e] = AfterParsing(e, peer_eof'[e])
    BY <1>3, <1>15, <2>1 DEF ParseEnds, IoStep, polled, mainLocals, mainRest, outside
  <2>3. io_pc'[e] \in Leaving => Excused(e)
    BY <1>1, <2>2, NowhereElse DEF EofFits, Excused
  <2> QED
    BY <2>1, <2>2, <2>3, EofMoves
<1>16. CASE ReleaseAcknowledgedFds(e)
  <2> DEFINE overrun == acknowledged_fd_count[e] > Len(retained_fds[e])
  <2>1. ~overrun
    <3>1. acknowledged_fd_count[e] <= Len(retained_fds[e])
      BY NoOverrun
    <3> QED
      BY <3>1, EndTypes
  <2>2. /\ Unmoved /\ revents' = revents /\ io_thread_state' = io_thread_state
        /\ io_pc'[e] = AfterReleasing(e, peer_eof[e] \/ overrun)
        /\ peer_eof'[e] = (peer_eof[e] \/ overrun)
    BY <1>3, <1>16 DEF ReleaseAcknowledgedFds, IoStep, polled, mainLocals, mainRest, outside
  <2>3. io_pc'[e] \in Leaving => Excused(e)
    BY <1>1, <2>2, NowhereElse DEF EofFits, Excused
  <2> HIDE DEF overrun
  <2> QED
    BY <2>1, <2>2, <2>3, EofMoves
<1> QED
  BY <1>4, <1>5, <1>6, <1>7, <1>8, <1>9, <1>10, <1>11, <1>12, <1>13, <1>14, <1>15, <1>16
  DEF IoThread

\* The steps of the main thread, and the end of a process.
LEMMA EofMain ==
    ASSUME IndInv, StreamInv, Unbroken, EofInv, NEW e \in Endpoint,
           \/ MainContinues(e) \/ MainBegins(e) \/ Crash(e)
           \/ VerifyStopped(e) /\ io_thread_state[e] # "Stopped"
    PROVE  EofInv'
<1>1. Peer(e) \in Endpoint /\ Peer(e) # e /\ Peer(Peer(e)) = e
  BY OtherEnd
<1>2. \A x \in Endpoint : EofFits(x)
  BY DEF EofInv
<1>3. /\ peer_eof \in [Endpoint -> BOOLEAN] /\ io_thread_state \in [Endpoint -> IOThreadState]
      /\ io_pc \in [Endpoint -> IOPc] /\ stop_op \in [Endpoint -> StopOps]
      /\ open \in [Endpoint -> BOOLEAN]
  BY DEF IndInv, TypeOK
<1>4. CASE \/ EnqueueMessage(e) \/ WakeIoThread(e) \/ ActivateReadHook(e) \/ TakeMessages(e)
           \/ ReturnShouldShutdown(e) \/ TestReadable(e) \/ BlockOnCondition(e)
           \/ JoinAndRelease(e) \/ LockToWait(e) \/ SetUpReadHook(e)
           \/ \E size \in PayloadSizes, n \in FdCounts : PostMessage(e, size, n)
  <2>1. /\ peer_eof' = peer_eof /\ io_thread_state' = io_thread_state /\ io_pc' = io_pc
        /\ revents' = revents /\ open' = open /\ stop_op' = stop_op
    BY <1>4 DEF EnqueueMessage, WakeIoThread, ActivateReadHook, TakeMessages, ReturnShouldShutdown,
                TestReadable, BlockOnCondition, JoinAndRelease, LockToWait, SetUpReadHook,
                PostMessage, shared, control, ioLocals, polled, mainRest, outside
  <2>2. \A x \in Endpoint : Excused(x)' = Excused(x)
    BY <2>1 DEF Excused
  <2> QED
    BY <1>2, <2>1, <2>2, EofStays DEF EofInv
<1>5. CASE \E op \in StopOps : BeginStop(e, op)
  <2>1. PICK op \in StopOps : BeginStop(e, op)
    BY <1>5
  <2>2. /\ peer_eof' = peer_eof /\ io_thread_state' = io_thread_state /\ io_pc' = io_pc
        /\ revents' = revents /\ open' = open /\ stop_op' = [stop_op EXCEPT ![e] = op]
        /\ op # "none"
    <3>1. "none" \notin Ops[e]
      BY InputAssumption DEF InputAssumption, OpNames
    <3> QED
      BY <2>1, <3>1 DEF BeginStop, ioLocals, polled, outside
  <2>3. \A x \in Endpoint : Excused(x) => Excused(x)'
    BY <1>3, <2>2 DEF Excused
  <2> QED
    BY <1>2, <2>2, <2>3, EofStays DEF EofInv
<1>6. CASE StoreDesiredState(e)
  <2>1. /\ peer_eof' = peer_eof /\ io_pc' = io_pc /\ revents' = revents /\ open' = open
        /\ stop_op' = stop_op /\ \A x \in Endpoint : x # e => io_thread_state'[x] = io_thread_state[x]
    BY <1>3, <1>6 DEF StoreDesiredState, ioLocals, polled, mainRest, outside
  <2>2. stop_op[e] # "none"
    BY <1>6 DEF StoreDesiredState, MainStep, StreamInv, EndFits, StopFits, Stopping
  <2>3. \A x \in Endpoint : Excused(x)' = Excused(x)
    BY <2>1 DEF Excused
  <2>4. EofFits(e)'
    BY <1>2, <2>1, <2>2, <2>3 DEF EofFits, Excused
  <2>5. \A x \in Endpoint : x # e => EofFits(x)'
    BY <1>2, <2>1, <2>3, EofStays
  <2> QED
    BY <2>4, <2>5 DEF EofInv
<1>7. CASE JoinAndClose(e)
  <2>1. /\ peer_eof' = peer_eof /\ io_thread_state' = io_thread_state /\ io_pc' = io_pc
        /\ revents' = revents /\ stop_op' = stop_op /\ open' = [open EXCEPT ![e] = FALSE]
    BY <1>7 DEF JoinAndClose, CloseSocket, shared, control, ioLocals, polled, mainRest
  <2>2. \A x \in Endpoint : /\ Excused(x) => Excused(x)'
                            /\ ~open[Peer(x)] => ~open'[Peer(x)]
    BY <1>3, <2>1, OtherEnd DEF Excused
  <2> QED
    BY <1>2, <2>1, <2>2, EofStays DEF EofInv
<1>8. CASE Die(e)
  <2>1. /\ peer_eof' = peer_eof /\ io_thread_state' = io_thread_state
        /\ io_pc' = [io_pc EXCEPT ![e] = "dead"]
        /\ revents' = revents /\ stop_op' = stop_op /\ open' = [open EXCEPT ![e] = FALSE]
    BY <1>8 DEF Die, CloseSocket, shared, control, polled, mainRest
  <2>2. \A x \in Endpoint : /\ Excused(x) => Excused(x)'
                            /\ ~open[Peer(x)] => ~open'[Peer(x)]
    BY <1>3, <2>1, OtherEnd DEF Excused
  <2>3. EofFits(e)'
    <3>1. io_pc'[e] \notin Leaving
      BY <1>3, <2>1 DEF Leaving
    <3> QED
      BY <1>2, <2>1, <2>2, <3>1 DEF EofFits
  <2>4. \A x \in Endpoint : x # e => EofFits(x)'
    BY <1>2, <1>3, <2>1, <2>2, EofStays
  <2> QED
    BY <2>3, <2>4 DEF EofInv
<1> QED
  BY <1>4, <1>5, <1>6, <1>7, <1>8, NotTransferred
  DEF MainContinues, MainBegins, Crash, VerifyStopped

\* m_peer_eof becomes true only because the peer is gone or because this end is stopping:
\* neither the parser nor the descriptor count ever disconnects two ends of this code.
THEOREM EofOnlyWhenGone ==
    ASSUME Unbroken, Accepted
    PROVE  Spec /\ []WithinLimits => []EofMeansDisconnected
<1>1. Init => EofInv
  <2> SUFFICES ASSUME Init, NEW e \in Endpoint PROVE EofFits(e)
    BY DEF EofInv
  <2>1. /\ peer_eof[e] = FALSE /\ io_thread_state[e] = "Running" /\ io_pc[e] = "peek"
        /\ revents[e] = {}
    BY DEF Init
  <2> QED
    BY <2>1 DEF EofFits, Leaving
<1>2. IndInv /\ StreamInv /\ WithinLimits /\ EofInv /\ [Next]_vars => EofInv'
  <2> SUFFICES ASSUME IndInv, StreamInv, WithinLimits, EofInv, [Next]_vars PROVE EofInv'
    OBVIOUS
  <2>1. CASE UNCHANGED vars
    <3>1. /\ peer_eof' = peer_eof /\ io_thread_state' = io_thread_state /\ io_pc' = io_pc
          /\ revents' = revents /\ open' = open /\ stop_op' = stop_op
      BY <2>1 DEF vars, shared, control, ioLocals, polled, mainLocals, mainRest, outside
    <3>2. \A x \in Endpoint : Excused(x)' = Excused(x)
      BY <3>1 DEF Excused
    <3> QED
      BY <3>1, <3>2, EofStays DEF EofInv
  <2>2. CASE Next
    BY <2>2, EofIo, EofMain DEF Next
  <2> QED
    BY <2>1, <2>2
<1>3. EofInv => EofMeansDisconnected
  BY DEF EofInv, EofFits, Excused, EofMeansDisconnected
<1> QED
  BY <1>1, <1>2, <1>3, Invariance, StreamInvariance, PTL DEF Spec
=============================================================================
