-------------------------- MODULE ConnectionProofs --------------------------
(***************************************************************************)
(* Proofs about IPC connections: every request is dispatched once and in   *)
(* order, and every call gets its own answer.                              *)
(***************************************************************************)
EXTENDS Connection, LeastNumber, SequenceTheorems, TLAPS

-----------------------------------------------------------------------------
(* Sequences of message numbers.                                           *)

Ascending(s) == \A j, k \in 1..Len(s) : j < k => s[j] < s[k]
Holds(s, x) == \E k \in 1..Len(s) : s[k] = x

\* Appending to m_unprocessed_messages keeps it in order, if what is appended is larger.
LEMMA ConcatAscends ==
    ASSUME NEW s \in Seq(Nat), NEW t \in Seq(Nat), Ascending(s), Ascending(t),
           \A x, y : Holds(s, x) /\ Holds(t, y) => x < y
    PROVE  Ascending(s \o t)
<1> SUFFICES ASSUME NEW j \in 1..(Len(s) + Len(t)), NEW k \in 1..(Len(s) + Len(t)), j < k
             PROVE  (s \o t)[j] < (s \o t)[k]
  BY ConcatProperties DEF Ascending
<1>1. /\ (s \o t)[j] = IF j <= Len(s) THEN s[j] ELSE t[j - Len(s)]
      /\ (s \o t)[k] = IF k <= Len(s) THEN s[k] ELSE t[k - Len(s)]
  BY ConcatProperties
<1>2. Len(s) \in Nat /\ Len(t) \in Nat
  OBVIOUS
<1>3. CASE k <= Len(s)
  BY <1>1, <1>2, <1>3 DEF Ascending
<1>4. CASE j <= Len(s) /\ k > Len(s)
  <2>1. Holds(s, s[j])
    BY <1>2, <1>4 DEF Holds
  <2>2. k - Len(s) \in 1..Len(t)
    BY <1>2, <1>4
  <2>3. Holds(t, t[k - Len(s)])
    BY <2>2 DEF Holds
  <2> QED
    BY <1>1, <1>2, <1>4, <2>1, <2>3
<1>5. CASE j > Len(s)
  <2>1. j - Len(s) \in 1..Len(t) /\ k - Len(s) \in 1..Len(t) /\ j - Len(s) < k - Len(s)
    BY <1>2, <1>5
  <2>2. t[j - Len(s)] < t[k - Len(s)]
    BY <2>1 DEF Ascending
  <2> QED
    BY <1>1, <1>2, <1>5, <2>2
<1> QED
  BY <1>2, <1>3, <1>4, <1>5

\* A concatenation holds what its parts hold.
LEMMA ConcatHolds ==
    ASSUME NEW S, NEW s \in Seq(S), NEW t \in Seq(S), NEW x
    PROVE  Holds(s \o t, x) <=> Holds(s, x) \/ Holds(t, x)
<1>1. /\ Len(s \o t) = Len(s) + Len(t)
      /\ \A i \in 1..(Len(s) + Len(t)) :
            (s \o t)[i] = IF i <= Len(s) THEN s[i] ELSE t[i - Len(s)]
  BY ConcatProperties, Zenon
<1>2. Len(s) \in Nat /\ Len(t) \in Nat
  OBVIOUS
<1>3. ASSUME Holds(s \o t, x) PROVE Holds(s, x) \/ Holds(t, x)
  <2>1. PICK i \in 1..(Len(s) + Len(t)) : (s \o t)[i] = x
    BY <1>1, <1>3 DEF Holds
  <2>2. CASE i <= Len(s)
    <3>1. i \in 1..Len(s) /\ s[i] = x
      BY <1>1, <1>2, <2>1, <2>2
    <3> QED
      BY <3>1 DEF Holds
  <2>3. CASE i > Len(s)
    <3>1. i - Len(s) \in 1..Len(t) /\ t[i - Len(s)] = x
      BY <1>1, <1>2, <2>1, <2>3
    <3> QED
      BY <3>1 DEF Holds
  <2> QED
    BY <1>2, <2>2, <2>3
<1>4. ASSUME Holds(s, x) PROVE Holds(s \o t, x)
  <2>1. PICK i \in 1..Len(s) : s[i] = x
    BY <1>4 DEF Holds
  <2>2. i \in 1..(Len(s) + Len(t)) /\ i <= Len(s)
    BY <1>2
  <2>3. (s \o t)[i] = x
    BY <1>1, <2>1, <2>2
  <2> QED
    BY <1>1, <2>2, <2>3 DEF Holds
<1>5. ASSUME Holds(t, x) PROVE Holds(s \o t, x)
  <2>1. PICK i \in 1..Len(t) : t[i] = x
    BY <1>5 DEF Holds
  <2>2. i + Len(s) \in 1..(Len(s) + Len(t)) /\ ~(i + Len(s) <= Len(s)) /\ (i + Len(s)) - Len(s) = i
    BY <1>2
  <2>3. (s \o t)[i + Len(s)] = x
    BY <1>1, <2>1, <2>2
  <2> QED
    BY <1>1, <2>2, <2>3 DEF Holds
<1> QED
  BY <1>3, <1>4, <1>5

\* handle_messages looks at the first message and goes on with the others.
LEMMA TailKeeps ==
    ASSUME NEW s \in Seq(Nat), s # <<>>, Ascending(s)
    PROVE  /\ Head(s) \in Nat /\ Tail(s) \in Seq(Nat) /\ Ascending(Tail(s))
           /\ \A x : Holds(s, x) <=> x = Head(s) \/ Holds(Tail(s), x)
           /\ \A x : Holds(Tail(s), x) => Head(s) < x
<1>1. /\ Head(s) = s[1] /\ s[1] \in Nat /\ Len(s) \in Nat /\ Len(s) >= 1
      /\ Tail(s) \in Seq(Nat) /\ Len(Tail(s)) = Len(s) - 1
      /\ \A i \in 1..Len(Tail(s)) : Tail(s)[i] = s[i + 1]
  BY HeadTailProperties, ElementOfSeq
<1>2. Ascending(Tail(s))
  BY <1>1 DEF Ascending
<1>3. ASSUME NEW x, Holds(s, x) PROVE x = Head(s) \/ Holds(Tail(s), x)
  <2>1. PICK i \in 1..Len(s) : s[i] = x
    BY <1>3 DEF Holds
  <2>2. CASE i = 1
    BY <1>1, <2>1, <2>2
  <2>3. CASE i # 1
    <3>1. i - 1 \in 1..Len(Tail(s)) /\ Tail(s)[i - 1] = x
      BY <1>1, <2>1, <2>3
    <3> QED
      BY <3>1 DEF Holds
  <2> QED
    BY <2>2, <2>3
<1>4. Holds(s, Head(s))
  BY <1>1 DEF Holds
<1>5. ASSUME NEW x, Holds(Tail(s), x) PROVE Holds(s, x) /\ Head(s) < x
  <2>1. PICK i \in 1..Len(Tail(s)) : Tail(s)[i] = x
    BY <1>5 DEF Holds
  <2>2. i + 1 \in 1..Len(s) /\ s[i + 1] = x /\ 1 \in 1..Len(s) /\ 1 < i + 1
    BY <1>1, <2>1
  <2> QED
    BY <1>1, <2>2 DEF Holds, Ascending
<1> QED
  BY <1>1, <1>2, <1>3, <1>4, <1>5

\* m_unprocessed_messages.take(k) removes message k and no other.
LEMMA WithoutKeeps ==
    ASSUME NEW s \in Seq(Nat), NEW k \in 1..Len(s), Ascending(s)
    PROVE  /\ Without(s, k) \in Seq(Nat) /\ Ascending(Without(s, k))
           /\ \A x : Holds(Without(s, k), x) <=> Holds(s, x) /\ x # s[k]
<1> DEFINE a == SubSeq(s, 1, k - 1)
           b == SubSeq(s, k + 1, Len(s))
<1>1. Len(s) \in Nat /\ k \in Nat /\ 1 <= k /\ k <= Len(s)
  OBVIOUS
<1>2. a \in Seq(Nat) /\ Len(a) = k - 1 /\ \A i \in 1..(k - 1) : a[i] = s[i]
  BY <1>1
<1>3. b \in Seq(Nat) /\ Len(b) = Len(s) - k /\ \A i \in 1..(Len(s) - k) : b[i] = s[k + i]
  BY <1>1
<1> HIDE DEF a, b
<1>4. \A x : Holds(a, x) => \E i \in 1..Len(s) : i < k /\ s[i] = x
  <2> SUFFICES ASSUME NEW x, Holds(a, x) PROVE \E i \in 1..Len(s) : i < k /\ s[i] = x
    OBVIOUS
  <2>1. PICK i \in 1..(k - 1) : a[i] = x
    BY <1>2 DEF Holds
  <2>2. i \in 1..Len(s) /\ i < k
    BY <1>1
  <2>3. s[i] = x
    BY <1>2, <2>1
  <2> QED
    BY <2>2, <2>3
<1>5. \A x : Holds(b, x) => \E i \in 1..Len(s) : k < i /\ s[i] = x
  <2> SUFFICES ASSUME NEW x, Holds(b, x) PROVE \E i \in 1..Len(s) : k < i /\ s[i] = x
    OBVIOUS
  <2>1. PICK i \in 1..(Len(s) - k) : b[i] = x
    BY <1>3 DEF Holds
  <2>2. k + i \in 1..Len(s) /\ k < k + i
    BY <1>1
  <2>3. s[k + i] = x
    BY <1>3, <2>1
  <2> QED
    BY <2>2, <2>3
<1>6. Ascending(a)
  <2> SUFFICES ASSUME NEW i \in 1..(k - 1), NEW j \in 1..(k - 1), i < j
               PROVE  a[i] < a[j]
    BY <1>2 DEF Ascending
  <2>1. i \in 1..Len(s) /\ j \in 1..Len(s)
    BY <1>1
  <2> QED
    BY <1>2, <2>1 DEF Ascending
<1>7. Ascending(b)
  <2> SUFFICES ASSUME NEW i \in 1..(Len(s) - k), NEW j \in 1..(Len(s) - k), i < j
               PROVE  b[i] < b[j]
    BY <1>3 DEF Ascending
  <2>1. k + i \in 1..Len(s) /\ k + j \in 1..Len(s) /\ k + i < k + j
    BY <1>1
  <2> QED
    BY <1>3, <2>1 DEF Ascending
<1>8. \A x, y : Holds(a, x) /\ Holds(b, y) => x < y
  BY <1>1, <1>4, <1>5 DEF Ascending
<1>9. Without(s, k) = a \o b
  BY DEF Without, a, b
<1>10. Without(s, k) \in Seq(Nat) /\ Ascending(Without(s, k))
  BY <1>2, <1>3, <1>6, <1>7, <1>8, <1>9, ConcatAscends, ConcatProperties
<1>11. \A x : Holds(Without(s, k), x) <=> Holds(a, x) \/ Holds(b, x)
  BY <1>2, <1>3, <1>9, ConcatHolds
<1>12. ASSUME NEW x, Holds(s, x), x # s[k] PROVE Holds(a, x) \/ Holds(b, x)
  <2>1. PICK i \in 1..Len(s) : s[i] = x
    BY <1>12 DEF Holds
  <2>2. CASE i < k
    <3>1. i \in 1..Len(a) /\ a[i] = x
      BY <1>1, <1>2, <2>1, <2>2
    <3> QED
      BY <3>1 DEF Holds
  <2>3. CASE i > k
    <3>1. i - k \in 1..Len(b) /\ b[i - k] = s[k + (i - k)] /\ k + (i - k) = i
      BY <1>1, <1>3, <2>3
    <3> QED
      BY <2>1, <3>1 DEF Holds
  <2> QED
    BY <1>12, <2>1, <2>2, <2>3
<1>13. ASSUME NEW x, Holds(a, x) \/ Holds(b, x) PROVE Holds(s, x) /\ x # s[k]
  <2>1. PICK i \in 1..Len(s) : i # k /\ s[i] = x
    BY <1>1, <1>4, <1>5, <1>13
  <2>2. s[i] \in Nat /\ s[k] \in Nat /\ (s[i] < s[k] \/ s[k] < s[i])
    BY <2>1, ElementOfSeq DEF Ascending
  <2> QED
    BY <2>1, <2>2 DEF Holds
<1> QED
  BY <1>10, <1>11, <1>12, <1>13
-----------------------------------------------------------------------------
(* The inductive invariant.                                                *)

\* The values of the variables ...
Types ==
    /\ sent \in [Endpoint -> Seq(Message)]
    /\ leaves \in [Endpoint -> Nat] /\ arrived \in [Endpoint -> Nat] /\ taken \in [Endpoint -> Nat]
    /\ open \in [Endpoint -> BOOLEAN] /\ running \in [Endpoint -> BOOLEAN]
    /\ notify_pipe \in [Endpoint -> BOOLEAN]
    /\ io \in [Endpoint -> {"running", "eof", "stopped"}]
    /\ queued \in [Endpoint -> Seq({"handle", "shutdown"})]
    /\ events \in [Endpoint -> Seq({"hook", "handle", "shutdown"})]
    /\ unprocessed \in [Endpoint -> Seq(Nat)] /\ messages \in [Endpoint -> Seq(Nat)]
    /\ handled \in [Endpoint -> Seq(Nat)]
    /\ current \in [Endpoint -> Nat] /\ waiting \in [Endpoint -> Nat]
    /\ results \in [Endpoint -> Seq([call : Nat, answer : Nat])]

\* ... and how far each end has got with the messages of the other.
Bounds == \A e \in Endpoint :
    /\ leaves[e] <= Len(sent[e])
    /\ arrived[e] <= leaves[Peer(e)] /\ taken[e] <= arrived[e]
    /\ waiting[e] <= Len(sent[e])

\* What was read is in order, through the handlers, the messages that handle_messages has
\* moved out and those that are unprocessed; no request is missing, none is malformed.
InLine(e) ==
    /\ Ascending(handled[e]) /\ Ascending(messages[e]) /\ Ascending(unprocessed[e])
    /\ \A x, y : Holds(handled[e], x) /\ Holds(messages[e], y) => x < y
    /\ \A x, y : Holds(handled[e], x) /\ Holds(unprocessed[e], y) => x < y
    /\ \A x, y : Holds(messages[e], x) /\ Holds(unprocessed[e], y) => x < y
    /\ \A x \in 1..taken[e] : IsRequest(e, x) =>
            Holds(handled[e], x) \/ Holds(messages[e], x) \/ Holds(unprocessed[e], x)
    /\ \A x : Holds(messages[e], x) \/ Holds(unprocessed[e], x) =>
            x \in 1..taken[e] /\ Incoming(e)[x].type # "malformed"
    /\ \A x : Holds(handled[e], x) => x \in 1..taken[e] /\ IsRequest(e, x)
    /\ current[e] # 0 => Holds(handled[e], current[e])
Lines == \A e \in Endpoint : InLine(e)

\* Message i of the peer has not been looked at, by handle_messages or by a waiting call ...
Unread(e, i) ==
    /\ i \in 1..Len(Incoming(e))
    /\ i > taken[e] \/ Holds(messages[e], i) \/ Holds(unprocessed[e], i)
\* ... or is being handled.
Pending(e, i) == Unread(e, i) \/ (current[e] # 0 /\ i = current[e])
\* Message i of the peer answers call c.
AnswerTo(e, i, c) ==
    i \in 1..Len(Incoming(e)) /\ IsAnswer(e, i) /\ Incoming(e)[i].of = c

\* While an end is open, the only answer on its way is to the call that waits, and the only
\* call the peer may still answer is that one.  No call is answered twice.
OneCall(e) ==
    /\ \A i : Unread(e, i) /\ IsAnswer(e, i) /\ open[e] => Incoming(e)[i].of = waiting[e]
    /\ \A c : Pending(Peer(e), c) /\ sent[e][c].type = "call" /\ open[e] => c = waiting[e]
    /\ \A c, i : Pending(Peer(e), c) /\ sent[e][c].type = "call" => ~AnswerTo(e, i, c)
    /\ \A i, j, c : AnswerTo(e, i, c) /\ AnswerTo(e, j, c) => i = j
    /\ \A i, c : AnswerTo(e, i, c) => c \in 1..Len(sent[e])
    /\ running[e] /\ waiting[e] # 0 => open[e]
Calls == \A e \in Endpoint : OneCall(e)

\* The calls that have returned.
ResultsMatch == \A e \in Endpoint : \A k \in 1..Len(results[e]) :
    /\ results[e][k].call <= Len(sent[e]) /\ results[e][k].answer <= taken[e]
    /\ results[e][k].answer # 0 => Incoming(e)[results[e][k].answer].of = results[e][k].call

ConnectionInv == Types /\ Bounds /\ Lines /\ Calls /\ ResultsMatch
-----------------------------------------------------------------------------
(* The peer, and what drain_messages_from_peer reads.                      *)

\* Each of the two processes has the other as its peer.
LEMMA PeerLemma ==
    \A e \in Endpoint : Peer(e) \in Endpoint /\ Peer(e) # e /\ Peer(Peer(e)) = e
<1> SUFFICES ASSUME NEW e \in Endpoint
             PROVE  Peer(e) \in Endpoint /\ Peer(e) # e /\ Peer(Peer(e)) = e
  OBVIOUS
<1>1. \A p \in Endpoint : Peer(p) \in Endpoint /\ Peer(p) # p
  BY PeersAssumption DEF Peer, PeersAssumption
<1> QED
  BY <1>1, PeersAssumption DEF PeersAssumption

\* What is drained is what arrived since the last time and parses, in order.
LEMMA ParsedIsNew ==
    ASSUME Types, Bounds, NEW e \in Endpoint
    PROVE  /\ Parsed(e) \in Seq(Nat) /\ Ascending(Parsed(e))
           /\ \A x : Holds(Parsed(e), x) <=>
                 x \in (taken[e] + 1)..arrived[e] /\ Incoming(e)[x].type # "malformed"
<1> DEFINE a == taken[e]
           b == arrived[e]
           m == Incoming(e)
           Body(f, n) ==
                IF n = a THEN <<>>
                ELSE IF m[n].type = "malformed" THEN f[n - 1]
                ELSE Append(f[n - 1], n)
           Rec(f, c) == f = [n \in a..c |-> Body(f, n)]
<1>1. a \in Nat /\ b \in Nat /\ a <= b
  BY DEF Types, Bounds
<1>2. Parsed(e) = (CHOOSE f : Rec(f, b))[b]
  BY DEF Parsed
<1> HIDE DEF a, b, m, Body
\* The function that the recursion defines exists.
<1>3. \A c \in a..b : \E f : Rec(f, c)
  <2> DEFINE T == {c \in a..b : ~\E f : Rec(f, c)}
  <2> SUFFICES ASSUME T # {} PROVE FALSE
    OBVIOUS
  <2>1. PICK c \in T : \A k \in T : c <= k
    <3>1. T \subseteq Nat
      BY <1>1
    <3> HIDE DEF T
    <3> QED
      BY <3>1, LeastElement
  <2>2. CASE c = a
    <3>1. Rec([n \in a..c |-> <<>>], c)
      BY <1>1, <2>2 DEF Body
    <3> QED
      BY <3>1
  <2>3. CASE c # a
    <3>1. c - 1 \in a..b /\ ~(c <= c - 1)
      BY <1>1, <2>3
    <3>2. PICK f : Rec(f, c - 1)
      BY <2>1, <3>1
    <3> DEFINE g == [n \in a..c |-> Body(f, n)]
    <3>3. \A n \in a..(c - 1) : f[n] = Body(f, n) /\ n \in a..c
      BY <1>1, <3>1, <3>2
    <3>4. \A n \in a..c : n # a => n - 1 \in a..(c - 1)
      BY <1>1
    <3>5. Rec(g, c)
      <4>1. \A n \in a..c : g[n] = Body(f, n)
        OBVIOUS
      <4>2. \A n \in a..c : n # a => f[n - 1] = g[n - 1]
        BY <3>3, <3>4, <4>1
      <4> HIDE DEF g
      <4>3. \A n \in a..c : Body(f, n) = Body(g, n)
        BY <4>2 DEF Body
      <4> QED
        BY <4>3 DEF g
    <3> QED
      BY <3>5
  <2> QED
    BY <2>2, <2>3
<1> DEFINE F == CHOOSE f : Rec(f, b)
<1>4. Rec(F, b)
  <2> HIDE DEF Rec
  <2>1. \E f : Rec(f, b)
    BY <1>1, <1>3
  <2> QED
    BY <2>1
<1> HIDE DEF F
<1>5. /\ F[a] = <<>>
      /\ \A n \in (a + 1)..b :
            F[n] = IF m[n].type = "malformed" THEN F[n - 1] ELSE Append(F[n - 1], n)
  <2>1. \A n \in a..b : F[n] = Body(F, n)
    BY <1>4
  <2>2. a \in a..b /\ \A n \in (a + 1)..b : n \in a..b /\ n # a
    BY <1>1
  <2> QED
    BY <2>1, <2>2 DEF Body
<1> HIDE DEF Rec
<1> DEFINE Good(n) ==
        /\ F[n] \in Seq(Nat) /\ Ascending(F[n])
        /\ \A x : Holds(F[n], x) <=> x \in (a + 1)..n /\ m[x].type # "malformed"
<1>6. Good(a)
  BY <1>1, <1>5 DEF Ascending, Holds
<1>7. ASSUME NEW n \in (a + 1)..b, Good(n - 1) PROVE Good(n)
  <2>1. n \in Nat /\ n - 1 \in Nat /\ \A x : x \in (a + 1)..n <=> x \in (a + 1)..(n - 1) \/ x = n
    BY <1>1
  <2>2. CASE m[n].type = "malformed"
    <3>1. F[n] = F[n - 1]
      BY <1>5, <2>2
    <3> QED
      BY <1>7, <2>1, <2>2, <3>1
  <2>3. CASE m[n].type # "malformed"
    <3> DEFINE s == F[n - 1]
    <3>1. F[n] = Append(s, n)
      BY <1>5, <2>3
    <3>2. /\ s \in Seq(Nat) /\ Ascending(s)
          /\ \A x : Holds(s, x) <=> x \in (a + 1)..(n - 1) /\ m[x].type # "malformed"
      BY <1>7
    <3>3. <<n>> \in Seq(Nat) /\ Ascending(<<n>>) /\ \A x : Holds(<<n>>, x) <=> x = n
      BY <2>1 DEF Ascending, Holds
    <3> HIDE DEF s
    <3>4. F[n] = s \o <<n>>
      BY <2>1, <3>1, <3>2, AppendIsConcat
    <3>5. \A x, y : Holds(s, x) /\ Holds(<<n>>, y) => x < y
      BY <1>1, <2>1, <3>2, <3>3
    <3>6. F[n] \in Seq(Nat) /\ Ascending(F[n])
      BY <3>2, <3>3, <3>4, <3>5, ConcatAscends, ConcatProperties
    <3>7. ASSUME NEW x PROVE Holds(F[n], x) <=> Holds(s, x) \/ x = n
      <4>1. Holds(s \o <<n>>, x) <=> Holds(s, x) \/ Holds(<<n>>, x)
        BY <3>2, <3>3, ConcatHolds
      <4> QED
        BY <3>3, <3>4, <4>1
    <3> QED
      BY <2>1, <2>3, <3>2, <3>6, <3>7
  <2> QED
    BY <2>2, <2>3
<1>8. Good(b)
  <2> DEFINE T == {n \in a..b : ~Good(n)}
  <2> SUFFICES ASSUME ~Good(b) PROVE FALSE
    OBVIOUS
  <2> HIDE DEF Good
  <2>1. T \subseteq Nat /\ b \in T
    BY <1>1
  <2>2. PICK n \in T : \A k \in T : n <= k
    <3> HIDE DEF T
    <3> QED
      BY <2>1, LeastElement
  <2>3. n # a
    BY <1>6
  <2>4. n \in (a + 1)..b /\ n - 1 \in a..b /\ ~(n <= n - 1)
    BY <1>1, <2>3
  <2>5. Good(n - 1)
    BY <2>2, <2>4
  <2> QED
    BY <1>7, <2>4, <2>5
<1> QED
  BY <1>2, <1>8 DEF F, a, b, m
-----------------------------------------------------------------------------
(* Parts of actions.                                                       *)

\* An end that closes, in shutdown or in a crash, loses messages that were not published yet
\* and no others.
LEMMA CloseEffect ==
    ASSUME Types, Bounds, NEW e \in Endpoint,
           IF open[e] THEN CloseEnd(e) ELSE UNCHANGED <<leaves, open>>
    PROVE  /\ leaves' \in [Endpoint -> Nat] /\ open' \in [Endpoint -> BOOLEAN]
           /\ \A p \in Endpoint : arrived[Peer(p)] <= leaves'[p] /\ leaves'[p] <= leaves[p]
           /\ ~open'[e] /\ \A p \in Endpoint : p # e => open'[p] = open[p]
<1>1. \A p \in Endpoint : Peer(p) \in Endpoint /\ Peer(Peer(p)) = p
  BY PeerLemma
<1>2. \A p \in Endpoint : arrived[Peer(p)] \in Nat /\ leaves[p] \in Nat /\ arrived[Peer(p)] <= leaves[p]
  BY <1>1 DEF Types, Bounds
<1>3. CASE open[e]
  <2>1. PICK n \in arrived[Peer(e)]..leaves[e] : leaves' = [leaves EXCEPT ![e] = n]
    BY <1>3 DEF CloseEnd
  <2>2. n \in Nat /\ arrived[Peer(e)] <= n /\ n <= leaves[e]
    BY <1>2
  <2>3. open' = [open EXCEPT ![e] = FALSE]
    BY <1>3 DEF CloseEnd
  <2>4. leaves' \in [Endpoint -> Nat] /\ \A p \in Endpoint : leaves'[p] = IF p = e THEN n ELSE leaves[p]
    BY <2>1, <2>2 DEF Types
  <2>5. open' \in [Endpoint -> BOOLEAN] /\ ~open'[e] /\ \A p \in Endpoint : p # e => open'[p] = open[p]
    BY <2>3 DEF Types
  <2>6. \A p \in Endpoint : arrived[Peer(p)] <= leaves'[p] /\ leaves'[p] <= leaves[p]
    BY <1>2, <2>2, <2>4
  <2> QED
    BY <2>4, <2>5, <2>6
<1>4. CASE ~open[e]
  <2>1. leaves' = leaves /\ open' = open
    BY <1>4
  <2>2. leaves' \in [Endpoint -> Nat] /\ open' \in [Endpoint -> BOOLEAN]
    BY <2>1 DEF Types
  <2>3. \A p \in Endpoint : arrived[Peer(p)] <= leaves'[p] /\ leaves'[p] <= leaves[p]
    BY <1>2, <2>1
  <2> QED
    BY <1>4, <2>1, <2>2, <2>3
<1> QED
  BY <1>3, <1>4

\* Transport::close and die().
LEMMA ShutdownEffect ==
    ASSUME Types, Bounds, NEW e \in Endpoint, Shutdown(e)
    PROVE  /\ leaves' \in [Endpoint -> Nat] /\ open' \in [Endpoint -> BOOLEAN]
           /\ running' \in [Endpoint -> BOOLEAN]
           /\ io' \in [Endpoint -> {"running", "eof", "stopped"}]
           /\ notify_pipe' \in [Endpoint -> BOOLEAN]
           /\ \A p \in Endpoint : arrived[Peer(p)] <= leaves'[p] /\ leaves'[p] <= leaves[p]
           /\ ~open'[e] /\ \A p \in Endpoint : p # e => open'[p] = open[p] /\ running'[p] = running[p]
<1>1. /\ leaves' \in [Endpoint -> Nat] /\ open' \in [Endpoint -> BOOLEAN]
      /\ \A p \in Endpoint : arrived[Peer(p)] <= leaves'[p] /\ leaves'[p] <= leaves[p]
      /\ ~open'[e] /\ \A p \in Endpoint : p # e => open'[p] = open[p]
  BY CloseEffect DEF Shutdown
<1>2. /\ io' = [io EXCEPT ![e] = "stopped"]
      /\ notify_pipe' = [notify_pipe EXCEPT ![e] = @ \/ io[e] # "stopped"]
      /\ running' = [running EXCEPT ![e] = "exit_on_death" \notin Ops[e]]
  BY DEF Shutdown
<1>3. /\ io' \in [Endpoint -> {"running", "eof", "stopped"}]
      /\ notify_pipe' \in [Endpoint -> BOOLEAN] /\ running' \in [Endpoint -> BOOLEAN]
      /\ \A p \in Endpoint : p # e => running'[p] = running[p]
  BY <1>2 DEF Types
<1> QED
  BY <1>1, <1>3

\* drain_messages_from_peer posts at most two events.
LEMMA DrainEffect ==
    ASSUME Types, Bounds, NEW e \in Endpoint, Drain(e)
    PROVE  /\ taken' = [taken EXCEPT ![e] = arrived[e]]
           /\ queued' \in [Endpoint -> Seq({"handle", "shutdown"})]
<1> DEFINE E == {"handle", "shutdown"}
           x == IF unprocessed[e] \o Parsed(e) # <<>> THEN <<"handle">> ELSE <<>>
           y == IF ShouldShutdown(e) THEN <<"shutdown">> ELSE <<>>
<1>1. x \in Seq(E) /\ y \in Seq(E)
  <2>1. <<"handle">> \in Seq(E) /\ <<"shutdown">> \in Seq(E) /\ <<>> \in Seq(E)
    OBVIOUS
  <2> HIDE DEF E
  <2> QED
    BY <2>1
<1>2. queued' = [queued EXCEPT ![e] = (@ \o x) \o y] /\ taken' = [taken EXCEPT ![e] = arrived[e]]
  BY DEF Drain
<1>3. queued \in [Endpoint -> Seq(E)]
  BY DEF Types
<1> HIDE DEF E, x, y
<1>4. (queued[e] \o x) \o y \in Seq(E)
  BY <1>1, <1>3, ConcatProperties
<1>5. queued' \in [Endpoint -> Seq(E)]
  BY <1>2, <1>3, <1>4
<1> QED
  BY <1>2, <1>5 DEF E

\* post_message appends one message.
LEMMA PostEffect ==
    ASSUME Types, Bounds, NEW e \in Endpoint, NEW m \in Message, Post(e, m)
    PROVE  /\ sent' \in [Endpoint -> Seq(Message)] /\ leaves' \in [Endpoint -> Nat]
           /\ \A p \in Endpoint : leaves[p] <= leaves'[p] /\ leaves'[p] <= Len(sent'[p])
           /\ \A p \in Endpoint : p # e => sent'[p] = sent[p]
           /\ Len(sent'[e]) = Len(sent[e]) + 1 /\ sent'[e][Len(sent[e]) + 1] = m
           /\ \A i \in 1..Len(sent[e]) : sent'[e][i] = sent[e][i]
<1>1. sent[e] \in Seq(Message) /\ leaves[e] \in Nat /\ Len(sent[e]) \in Nat
  BY DEF Types
<1>2. sent' = [sent EXCEPT ![e] = Append(@, m)] /\ leaves' = [leaves EXCEPT ![e] = @ + 1]
  BY DEF Post
<1>3. sent'[e] = Append(sent[e], m) /\ leaves'[e] = leaves[e] + 1
  BY <1>2 DEF Types
<1>4. /\ Append(sent[e], m) \in Seq(Message)
      /\ Len(Append(sent[e], m)) = Len(sent[e]) + 1
      /\ \A i \in 1..Len(sent[e]) : Append(sent[e], m)[i] = sent[e][i]
      /\ Append(sent[e], m)[Len(sent[e]) + 1] = m
  BY <1>1, AppendProperties
<1>5. sent' \in [Endpoint -> Seq(Message)] /\ leaves' \in [Endpoint -> Nat]
  <2>1. sent \in [Endpoint -> Seq(Message)] /\ leaves \in [Endpoint -> Nat]
    BY DEF Types
  <2>2. sent' \in [Endpoint -> Seq(Message)]
    BY <1>2, <1>4, <2>1
  <2>3. leaves' \in [Endpoint -> Nat]
    BY <1>2, <2>1
  <2> QED
    BY <2>2, <2>3
<1>6. \A p \in Endpoint : p # e => sent'[p] = sent[p] /\ leaves'[p] = leaves[p]
  BY <1>2 DEF Types
<1>7. \A p \in Endpoint : leaves[p] \in Nat /\ Len(sent[p]) \in Nat /\ leaves[p] <= Len(sent[p])
  BY DEF Types, Bounds
<1>8. \A p \in Endpoint : leaves[p] <= leaves'[p] /\ leaves'[p] <= Len(sent'[p])
  BY <1>3, <1>4, <1>6, <1>7
<1> QED
  BY <1>3, <1>4, <1>5, <1>6, <1>8
-----------------------------------------------------------------------------
(* Types and bounds.                                                       *)

\* What an end does about the transport, its event loop and its calls, or the end of its
\* process, keeps the types.
LEMMA TypesNext ==
    ASSUME Types, Bounds, Lines, NEW e \in Endpoint,
           Transport(e) \/ MainThread(e) \/ Application(e) \/ Crash(e)
    PROVE  Types'
<1> Peer(e) \in Endpoint
  BY PeerLemma
<1>a. /\ arrived[e] \in Nat /\ leaves[Peer(e)] \in Nat /\ Len(sent[e]) \in Nat
      /\ unprocessed[e] \in Seq(Nat) /\ handled[e] \in Seq(Nat) /\ <<>> \in Seq(Nat)
  BY DEF Types
<1>b. /\ arrived \in [Endpoint -> Nat] /\ taken \in [Endpoint -> Nat]
      /\ unprocessed \in [Endpoint -> Seq(Nat)] /\ messages \in [Endpoint -> Seq(Nat)]
      /\ handled \in [Endpoint -> Seq(Nat)]
      /\ current \in [Endpoint -> Nat] /\ waiting \in [Endpoint -> Nat]
  BY DEF Types
<1>1. CASE Publish(e)
  <2>1. PICK n \in (arrived[e] + 1)..leaves[Peer(e)] : arrived' = [arrived EXCEPT ![e] = n]
    BY <1>1 DEF Publish
  <2>2. n \in Nat
    BY <1>a
  <2>3. arrived' \in [Endpoint -> Nat]
    BY <2>1, <2>2 DEF Types
  <2>4. notify_pipe' \in [Endpoint -> BOOLEAN]
    BY <1>1 DEF Publish, Types
  <2> QED
    BY <1>1, <2>3, <2>4 DEF Publish, Types, loop
<1>2. CASE ReachEof(e)
  <2>1. io' \in [Endpoint -> {"running", "eof", "stopped"}]
    BY <1>2 DEF ReachEof, Types
  <2>2. notify_pipe' \in [Endpoint -> BOOLEAN]
    BY <1>2 DEF ReachEof, Types
  <2> QED
    BY <1>2, <2>1, <2>2 DEF ReachEof, Types, loop
<1>3. CASE Pump(e)
  <2> DEFINE E == {"hook", "handle", "shutdown"}
             x == IF notify_pipe[e] THEN <<"hook">> ELSE <<>>
  <2>1. queued[e] \in Seq(E)
    <3>1. queued[e] \in Seq({"handle", "shutdown"})
      BY DEF Types
    <3> QED
      BY <3>1, SeqMonotonic
  <2>2. x \in Seq(E)
    <3>1. <<"hook">> \in Seq(E) /\ <<>> \in Seq(E)
      OBVIOUS
    <3> HIDE DEF E
    <3> QED
      BY <3>1
  <2>3. events' = [events EXCEPT ![e] = queued[e] \o x]
    BY <1>3 DEF Pump
  <2>4. events \in [Endpoint -> Seq(E)]
    BY DEF Types
  <2> HIDE DEF E, x
  <2>5. events' \in [Endpoint -> Seq(E)]
    BY <2>1, <2>2, <2>3, <2>4, ConcatProperties
  <2>6. queued' \in [Endpoint -> Seq({"handle", "shutdown"})]
    BY <1>3 DEF Pump, Types
  <2> QED
    BY <1>3, <2>5, <2>6 DEF Pump, Types, transport, E
<1>4. CASE RunHook(e)
  <2>1. events' \in [Endpoint -> Seq({"hook", "handle", "shutdown"})]
    BY <1>4 DEF RunHook, Types
  <2>2. notify_pipe' \in [Endpoint -> BOOLEAN]
    BY <1>4 DEF RunHook, Types
  <2>3. taken' \in [Endpoint -> Nat] /\ queued' \in [Endpoint -> Seq({"handle", "shutdown"})]
    <3>1. Drain(e)
      BY <1>4 DEF RunHook
    <3>2. /\ taken' = [taken EXCEPT ![e] = arrived[e]]
          /\ queued' \in [Endpoint -> Seq({"handle", "shutdown"})]
      BY <3>1, DrainEffect
    <3> QED
      BY <1>a, <1>b, <3>2
  <2>4. unprocessed[e] \o Parsed(e) \in Seq(Nat)
    BY ParsedIsNew, ConcatProperties DEF Types
  <2>5. messages' \in [Endpoint -> Seq(Nat)] /\ unprocessed' \in [Endpoint -> Seq(Nat)]
    <3>1. /\ messages' = [messages EXCEPT ![e] = unprocessed[e] \o Parsed(e)]
          /\ unprocessed' = [unprocessed EXCEPT ![e] = <<>>]
      BY <1>4 DEF RunHook
    <3> QED
      BY <1>a, <1>b, <2>4, <3>1
  <2> QED
    BY <1>4, <2>1, <2>2, <2>3, <2>5 DEF RunHook, Types
<1>5. CASE RunHandleMessages(e)
  <2>1. events' \in [Endpoint -> Seq({"hook", "handle", "shutdown"})]
    BY <1>5 DEF RunHandleMessages, Types
  <2>2. messages' \in [Endpoint -> Seq(Nat)] /\ unprocessed' \in [Endpoint -> Seq(Nat)]
    <3>1. /\ messages' = [messages EXCEPT ![e] = unprocessed[e]]
          /\ unprocessed' = [unprocessed EXCEPT ![e] = <<>>]
      BY <1>5 DEF RunHandleMessages
    <3> QED
      BY <1>a, <1>b, <3>1
  <2> QED
    BY <1>5, <2>1, <2>2 DEF RunHandleMessages, Types, transport
<1>6. CASE RunShutdown(e)
  <2>1. events' \in [Endpoint -> Seq({"hook", "handle", "shutdown"})]
    BY <1>6 DEF RunShutdown, Types
  <2>2. Shutdown(e)
    BY <1>6 DEF RunShutdown
  <2> QED
    BY <1>6, <2>1, <2>2, ShutdownEffect DEF RunShutdown, Types
<1>7. CASE HandleNext(e)
  <2>1. Head(messages[e]) \in Nat /\ Tail(messages[e]) \in Seq(Nat)
    BY <1>7, TailKeeps DEF HandleNext, Types, Lines, InLine
  <2>2. messages' \in [Endpoint -> Seq(Nat)]
    BY <1>7, <2>1 DEF HandleNext, Types
  <2>3. /\ current' \in {current, [current EXCEPT ![e] = Head(messages[e])]}
        /\ handled' \in {handled, [handled EXCEPT ![e] = Append(@, Head(messages[e]))]}
    BY <1>7 DEF HandleNext
  <2>4. current' \in [Endpoint -> Nat] /\ handled' \in [Endpoint -> Seq(Nat)]
    <3>1. Append(handled[e], Head(messages[e])) \in Seq(Nat)
      BY <1>a, <2>1, AppendProperties
    <3> QED
      BY <1>b, <2>1, <2>3, <3>1
  <2> QED
    BY <1>7, <2>2, <2>4 DEF HandleNext, Types, transport, loop
<1>8. CASE HandlerReturns(e)
  <2>1. current' \in [Endpoint -> Nat]
    BY <1>8 DEF HandlerReturns, Types
  <2>2. [type |-> "answer", of |-> current[e]] \in Message
    BY DEF Types, Message
  <2>3. sent' \in [Endpoint -> Seq(Message)] /\ leaves' \in [Endpoint -> Nat]
    <3>1. CASE Post(e, [type |-> "answer", of |-> current[e]])
      BY <2>2, <3>1, PostEffect
    <3>2. CASE UNCHANGED <<sent, leaves>>
      BY <3>2 DEF Types
    <3> QED
      BY <1>8, <3>1, <3>2 DEF HandlerReturns
  <2> QED
    BY <1>8, <2>1, <2>3 DEF HandlerReturns, Types, loop
<1>9. CASE TakeAnswer(e)
  <2>1. PICK k \in Answers(e) : /\ unprocessed' = [unprocessed EXCEPT ![e] = Without(@, k)]
                               /\ Return(e, unprocessed[e][k])
    BY <1>9 DEF TakeAnswer
  <2>2. k \in 1..Len(unprocessed[e]) /\ unprocessed[e] \in Seq(Nat)
    BY DEF Answers, Types
  <2>3. Without(unprocessed[e], k) \in Seq(Nat) /\ unprocessed[e][k] \in Nat
    BY <2>2, WithoutKeeps, ElementOfSeq DEF Lines, InLine
  <2>4. unprocessed' \in [Endpoint -> Seq(Nat)]
    BY <2>1, <2>3 DEF Types
  <2>5. waiting' \in [Endpoint -> Nat]
    BY <2>1 DEF Return, Types
  <2>6. results' \in [Endpoint -> Seq([call : Nat, answer : Nat])]
    BY <2>1, <2>3 DEF Return, Types
  <2> QED
    BY <1>9, <2>4, <2>5, <2>6 DEF TakeAnswer, Types, transport, loop
<1>10. CASE WaitAndDrain(e)
  <2>1. taken' \in [Endpoint -> Nat] /\ queued' \in [Endpoint -> Seq({"handle", "shutdown"})]
    <3>1. Drain(e)
      BY <1>10 DEF WaitAndDrain
    <3>2. /\ taken' = [taken EXCEPT ![e] = arrived[e]]
          /\ queued' \in [Endpoint -> Seq({"handle", "shutdown"})]
      BY <3>1, DrainEffect
    <3> QED
      BY <1>a, <1>b, <3>2
  <2>2. unprocessed[e] \o Parsed(e) \in Seq(Nat)
    BY ParsedIsNew, ConcatProperties DEF Types
  <2>3. unprocessed' \in [Endpoint -> Seq(Nat)]
    BY <1>10, <2>2 DEF WaitAndDrain, Types
  <2> QED
    BY <1>10, <2>1, <2>3 DEF WaitAndDrain, Types
<1>11. CASE WaitUntilEof(e)
  <2>1. taken' \in [Endpoint -> Nat] /\ queued' \in [Endpoint -> Seq({"handle", "shutdown"})]
    <3>1. Drain(e)
      BY <1>11 DEF WaitUntilEof
    <3>2. /\ taken' = [taken EXCEPT ![e] = arrived[e]]
          /\ queued' \in [Endpoint -> Seq({"handle", "shutdown"})]
      BY <3>1, DrainEffect
    <3> QED
      BY <1>a, <1>b, <3>2
  <2>2. unprocessed[e] \o Parsed(e) \in Seq(Nat)
    BY ParsedIsNew, ConcatProperties DEF Types
  <2>3. unprocessed' \in [Endpoint -> Seq(Nat)]
    BY <1>11, <2>2 DEF WaitUntilEof, Types
  <2>4. Shutdown(e)
    BY <1>11 DEF WaitUntilEof
  <2>5. waiting' \in [Endpoint -> Nat]
    BY <1>11 DEF WaitUntilEof, Return, Types
  <2>6. results' \in [Endpoint -> Seq([call : Nat, answer : Nat])]
    BY <1>11 DEF WaitUntilEof, Return, Types
  <2> QED
    BY <1>11, <2>1, <2>3, <2>4, <2>5, <2>6, ShutdownEffect DEF WaitUntilEof, Types
<1>12. CASE HandlerFails(e)
  <2>1. current' \in [Endpoint -> Nat]
    BY <1>12 DEF HandlerFails, Types
  <2> QED
    BY <1>12, <2>1 DEF HandlerFails, Types, transport, loop
<1>13. CASE DidMisbehave(e)
  BY <1>13, ShutdownEffect DEF DidMisbehave, Types, loop
<1>14. CASE PostMessage(e)
  <2>1. PICK m \in {[type |-> "post", of |-> 0], [type |-> "malformed", of |-> 0]} : Post(e, m)
    BY <1>14 DEF PostMessage
  <2>2. m \in Message
    BY DEF Message
  <2>3. sent' \in [Endpoint -> Seq(Message)] /\ leaves' \in [Endpoint -> Nat]
    BY <2>1, <2>2, PostEffect
  <2> QED
    BY <1>14, <2>3 DEF PostMessage, Types, loop
<1>15. CASE SendSync(e)
  <2>1. [type |-> "call", of |-> 0] \in Message /\ Post(e, [type |-> "call", of |-> 0])
    BY <1>15 DEF Message, SendSync
  <2>2. sent' \in [Endpoint -> Seq(Message)] /\ leaves' \in [Endpoint -> Nat]
    BY <2>1, PostEffect
  <2>3. waiting' \in [Endpoint -> Nat]
    <3>1. waiting' = [waiting EXCEPT ![e] = Len(sent[e]) + 1]
      BY <1>15 DEF SendSync
    <3>2. Len(sent[e]) + 1 \in Nat /\ waiting \in [Endpoint -> Nat]
      BY <1>a, <1>b
    <3> QED
      BY <3>1, <3>2
  <2> QED
    BY <1>15, <2>2, <2>3 DEF SendSync, Types, loop
<1>16. CASE SendSyncWhenClosed(e)
  <2>1. results' \in [Endpoint -> Seq([call : Nat, answer : Nat])]
    BY <1>16 DEF SendSyncWhenClosed, Types
  <2> QED
    BY <1>16, <2>1 DEF SendSyncWhenClosed, Types, transport, loop
<1>17. CASE Crash(e)
  <2>1. running' \in [Endpoint -> BOOLEAN]
    BY <1>17 DEF Crash, Types
  <2>2. leaves' \in [Endpoint -> Nat] /\ open' \in [Endpoint -> BOOLEAN]
    BY <1>17, CloseEffect DEF Crash
  <2> QED
    BY <1>17, <2>1, <2>2 DEF Crash, Types, loop
<1> QED
  BY <1>1, <1>2, <1>3, <1>4, <1>5, <1>6, <1>7, <1>8, <1>9, <1>10, <1>11, <1>12, <1>13, <1>14,
     <1>15, <1>16, <1>17 DEF Transport, MainThread, Application

\* Three actions post a message; the others leave what was posted.
LEMMA WhoPosts ==
    ASSUME Types, Bounds, NEW e \in Endpoint,
           Transport(e) \/ MainThread(e) \/ Application(e) \/ Crash(e)
    PROVE  /\ UNCHANGED sent \/ \E m \in Message : Post(e, m)
           /\ UNCHANGED sent \/ HandlerReturns(e) \/ PostMessage(e) \/ SendSync(e)
           /\ \A m \in Message : Post(e, m) => ~UNCHANGED sent
<1>1. current[e] \in Nat
  BY DEF Types
<1>2. HandlerReturns(e) => UNCHANGED sent \/ \E m \in Message : Post(e, m)
  BY <1>1 DEF HandlerReturns, Message
<1>3. PostMessage(e) \/ SendSync(e) => \E m \in Message : Post(e, m)
  BY DEF PostMessage, SendSync, Message
<1>4. Transport(e) => UNCHANGED sent
  BY DEF Transport, Publish, ReachEof
<1>5. MainThread(e) => UNCHANGED sent \/ HandlerReturns(e)
  BY DEF MainThread, Pump, RunHook, RunHandleMessages, RunShutdown, HandleNext, TakeAnswer,
         WaitAndDrain, WaitUntilEof, transport
<1>6. Application(e) \/ Crash(e) => UNCHANGED sent \/ PostMessage(e) \/ SendSync(e)
  BY DEF Application, HandlerFails, DidMisbehave, SendSyncWhenClosed, Crash, transport
<1>7. ASSUME NEW m \in Message, Post(e, m) PROVE ~UNCHANGED sent
  <2>1. Len(sent'[e]) = Len(sent[e]) + 1
    BY <1>7, PostEffect
  <2>2. Len(sent[e]) \in Nat
    BY DEF Types
  <2> QED
    BY <2>1, <2>2
<1> QED
  BY <1>2, <1>3, <1>4, <1>5, <1>6, <1>7

\* What was posted stays posted.
LEMMA SentGrows ==
    ASSUME Types, Bounds, NEW e \in Endpoint,
           Transport(e) \/ MainThread(e) \/ Application(e) \/ Crash(e)
    PROVE  \A p \in Endpoint : /\ Len(sent[p]) \in Nat /\ Len(sent'[p]) \in Nat
                               /\ Len(sent[p]) <= Len(sent'[p])
                               /\ \A i \in 1..Len(sent[p]) : sent'[p][i] = sent[p][i]
<1>1. \A p \in Endpoint : Len(sent[p]) \in Nat
  BY DEF Types
<1>2. CASE UNCHANGED sent
  BY <1>1, <1>2
<1>3. CASE \E m \in Message : Post(e, m)
  <2>1. PICK m \in Message : Post(e, m)
    BY <1>3
  <2>2. /\ \A p \in Endpoint : p # e => sent'[p] = sent[p]
        /\ Len(sent'[e]) = Len(sent[e]) + 1
        /\ \A i \in 1..Len(sent[e]) : sent'[e][i] = sent[e][i]
    BY <2>1, PostEffect
  <2> QED
    BY <1>1, <2>2
<1> QED
  BY <1>2, <1>3, WhoPosts

\* Messages are taken after they have arrived, and arrive after they have left.
LEMMA BoundsNext ==
    ASSUME Types, Bounds, NEW e \in Endpoint,
           Transport(e) \/ MainThread(e) \/ Application(e) \/ Crash(e), Types'
    PROVE  Bounds'
<1>1. \A p \in Endpoint : /\ Peer(p) \in Endpoint /\ Peer(Peer(p)) = p
                          /\ Len(sent[p]) \in Nat /\ leaves[p] \in Nat /\ arrived[p] \in Nat
                          /\ taken[p] \in Nat /\ waiting[p] \in Nat
                          /\ Len(sent'[p]) \in Nat /\ leaves'[p] \in Nat /\ arrived'[p] \in Nat
                          /\ taken'[p] \in Nat /\ waiting'[p] \in Nat
  <2>1. \A p \in Endpoint : Len(sent[p]) \in Nat /\ Len(sent'[p]) \in Nat
    <3>1. sent \in [Endpoint -> Seq(Message)] /\ sent' \in [Endpoint -> Seq(Message)]
      BY DEF Types
    <3> QED
      BY <3>1, LenProperties
  <2>2. \A p \in Endpoint : /\ leaves[p] \in Nat /\ arrived[p] \in Nat
                            /\ taken[p] \in Nat /\ waiting[p] \in Nat
    BY DEF Types
  <2>3. \A p \in Endpoint : /\ leaves'[p] \in Nat /\ arrived'[p] \in Nat
                            /\ taken'[p] \in Nat /\ waiting'[p] \in Nat
    BY DEF Types
  <2> QED
    BY <2>1, <2>2, <2>3, PeerLemma
<1>2. \A p \in Endpoint : /\ leaves[p] <= Len(sent[p])
                          /\ arrived[p] <= leaves[Peer(p)] /\ taken[p] <= arrived[p]
                          /\ waiting[p] <= Len(sent[p])
  BY DEF Bounds
<1>3. \A p \in Endpoint : Len(sent[p]) <= Len(sent'[p])
  BY SentGrows
<1> SUFFICES ASSUME NEW p \in Endpoint
             PROVE  /\ leaves'[p] <= Len(sent'[p])
                    /\ arrived'[p] <= leaves'[Peer(p)] /\ taken'[p] <= arrived'[p]
                    /\ waiting'[p] <= Len(sent'[p])
  BY DEF Bounds
<1>4. CASE UNCHANGED <<leaves, arrived, taken, waiting>>
  BY <1>1, <1>2, <1>3, <1>4
<1>5. CASE Publish(e)
  <2>1. PICK n \in (arrived[e] + 1)..leaves[Peer(e)] : arrived' = [arrived EXCEPT ![e] = n]
    BY <1>5 DEF Publish
  <2>2. n \in Nat /\ arrived[e] <= n /\ n <= leaves[Peer(e)]
    BY <1>1
  <2>3. arrived'[p] = IF p = e THEN n ELSE arrived[p]
    BY <2>1 DEF Types
  <2>4. UNCHANGED <<sent, leaves, taken, waiting>>
    BY <1>5 DEF Publish
  <2> QED
    BY <1>1, <1>2, <2>2, <2>3, <2>4
<1>6. CASE Drain(e) /\ UNCHANGED <<arrived, leaves, waiting>>
  <2>1. taken'[p] = IF p = e THEN arrived[p] ELSE taken[p]
    BY <1>6 DEF Drain, Types
  <2> QED
    BY <1>1, <1>2, <1>3, <1>6, <2>1
<1>7. CASE \E m \in Message : Post(e, m) /\ UNCHANGED <<arrived, taken>>
                                      /\ waiting'[p] <= Len(sent'[p])
  <2>1. PICK m \in Message : Post(e, m) /\ UNCHANGED <<arrived, taken>>
                                      /\ waiting'[p] <= Len(sent'[p])
    BY <1>7
  <2>2. \A q \in Endpoint : leaves[q] <= leaves'[q] /\ leaves'[q] <= Len(sent'[q])
    BY <2>1, PostEffect
  <2> QED
    BY <1>1, <1>2, <2>1, <2>2
<1>8. CASE /\ \A q \in Endpoint : arrived[Peer(q)] <= leaves'[q] /\ leaves'[q] <= leaves[q]
           /\ arrived' = arrived /\ taken' \in {taken, [taken EXCEPT ![e] = arrived[e]]}
           /\ waiting' \in {waiting, [waiting EXCEPT ![e] = 0]}
  <2>a. taken \in [Endpoint -> Nat] /\ waiting \in [Endpoint -> Nat]
    BY DEF Types
  <2>1. taken'[p] \in {taken[p], arrived[p]} /\ waiting'[p] \in {waiting[p], 0}
    BY <1>8, <2>a
  <2>2. leaves'[p] <= leaves[p] /\ arrived[p] <= leaves'[Peer(p)]
    BY <1>1, <1>8
  <2> QED
    <3>1. arrived'[p] = arrived[p] /\ Peer(p) \in Endpoint
      BY <1>1, <1>8
    <3>2. /\ leaves[p] \in Nat /\ leaves'[p] \in Nat /\ leaves'[Peer(p)] \in Nat
          /\ arrived[p] \in Nat /\ taken[p] \in Nat /\ waiting[p] \in Nat
          /\ Len(sent[p]) \in Nat /\ Len(sent'[p]) \in Nat
      BY <1>1, <3>1
    <3>3. /\ leaves[p] <= Len(sent[p]) /\ Len(sent[p]) <= Len(sent'[p])
          /\ taken[p] <= arrived[p] /\ waiting[p] <= Len(sent[p])
      BY <1>2, <1>3
    <3> QED
      BY <2>1, <2>2, <3>1, <3>2, <3>3
<1>9. CASE HandlerReturns(e)
  <2>1. [type |-> "answer", of |-> current[e]] \in Message
    BY DEF Types, Message
  <2>2. UNCHANGED <<arrived, taken, waiting>>
    BY <1>9 DEF HandlerReturns
  <2>3. waiting'[p] <= Len(sent'[p])
    <3>1. waiting'[p] = waiting[p]
      BY <2>2
    <3>2. /\ waiting[p] \in Nat /\ Len(sent[p]) \in Nat /\ Len(sent'[p]) \in Nat
          /\ waiting[p] <= Len(sent[p]) /\ Len(sent[p]) <= Len(sent'[p])
      BY <1>1, <1>2, <1>3
    <3> QED
      BY <3>1, <3>2
  <2>4. UNCHANGED <<sent, leaves>> \/ Post(e, [type |-> "answer", of |-> current[e]])
    BY <1>9 DEF HandlerReturns
  <2> QED
    BY <1>4, <1>7, <2>1, <2>2, <2>3, <2>4
<1>10. CASE TakeAnswer(e)
  <2>1. UNCHANGED <<leaves, arrived, taken>> /\ waiting' = [waiting EXCEPT ![e] = 0]
    BY <1>10 DEF TakeAnswer, Return, transport
  <2>2. waiting'[p] = waiting[p] \/ waiting'[p] = 0
    BY <2>1 DEF Types
  <2> QED
    BY <1>1, <1>2, <1>3, <2>1, <2>2
<1>11. CASE PostMessage(e)
  <2>1. UNCHANGED <<arrived, taken, waiting>>
    BY <1>11 DEF PostMessage
  <2>2. waiting'[p] <= Len(sent'[p])
    <3>1. waiting'[p] = waiting[p]
      BY <2>1
    <3>2. /\ waiting[p] \in Nat /\ Len(sent[p]) \in Nat /\ Len(sent'[p]) \in Nat
          /\ waiting[p] <= Len(sent[p]) /\ Len(sent[p]) <= Len(sent'[p])
      BY <1>1, <1>2, <1>3
    <3> QED
      BY <3>1, <3>2
  <2>3. \E m \in Message : Post(e, m)
    BY <1>11 DEF PostMessage, Message
  <2> QED
    BY <1>7, <2>1, <2>2, <2>3
<1>12. CASE SendSync(e)
  <2>1. UNCHANGED <<arrived, taken>> /\ waiting' = [waiting EXCEPT ![e] = Len(sent[e]) + 1]
    BY <1>12 DEF SendSync
  <2>2. [type |-> "call", of |-> 0] \in Message /\ Post(e, [type |-> "call", of |-> 0])
    BY <1>12 DEF SendSync, Message
  <2>3. Len(sent'[e]) = Len(sent[e]) + 1
    BY <2>2, PostEffect
  <2>4. waiting'[p] = IF p = e THEN Len(sent[e]) + 1 ELSE waiting[p]
    BY <2>1 DEF Types
  <2>5. waiting'[p] <= Len(sent'[p])
    BY <1>1, <1>2, <1>3, <2>3, <2>4
  <2> QED
    BY <1>7, <2>1, <2>2, <2>5
<1>13. CASE RunShutdown(e) \/ DidMisbehave(e)
  <2>1. Shutdown(e) /\ UNCHANGED <<arrived, taken, waiting>>
    BY <1>13 DEF RunShutdown, DidMisbehave
  <2> QED
    BY <1>8, <2>1, ShutdownEffect
<1>14. CASE WaitUntilEof(e)
  <2>1. Shutdown(e) /\ Drain(e) /\ UNCHANGED arrived /\ waiting' = [waiting EXCEPT ![e] = 0]
    BY <1>14 DEF WaitUntilEof, Return
  <2> QED
    BY <1>8, <2>1, ShutdownEffect, DrainEffect
<1>15. CASE Crash(e)
  BY <1>8, <1>15, CloseEffect DEF Crash
<1>16. RunHook(e) \/ WaitAndDrain(e) => Drain(e) /\ UNCHANGED <<arrived, leaves, waiting>>
  BY DEF RunHook, WaitAndDrain
<1>17. ReachEof(e) \/ Pump(e) \/ RunHandleMessages(e) \/ HandleNext(e) \/ HandlerFails(e)
            \/ SendSyncWhenClosed(e) => UNCHANGED <<leaves, arrived, taken, waiting>>
  BY DEF ReachEof, Pump, RunHandleMessages, HandleNext, HandlerFails, SendSyncWhenClosed, transport
<1> QED
  BY <1>4, <1>5, <1>6, <1>9, <1>10, <1>11, <1>12, <1>13, <1>14, <1>15, <1>16, <1>17
  DEF Transport, MainThread, Application
-----------------------------------------------------------------------------
(* The requests stay in line.                                              *)

\* What has arrived does not change.
LEMMA IncomingKept ==
    ASSUME Types, Bounds, NEW e \in Endpoint,
           Transport(e) \/ MainThread(e) \/ Application(e) \/ Crash(e)
    PROVE  \A p \in Endpoint : \A x \in 1..arrived[p] : Incoming(p)'[x] = Incoming(p)[x]
<1> SUFFICES ASSUME NEW p \in Endpoint, NEW x \in 1..arrived[p]
             PROVE  sent'[Peer(p)][x] = sent[Peer(p)][x]
  BY DEF Incoming, Peer
<1>1. Peer(p) \in Endpoint
  BY PeerLemma
<1>2. Len(sent[Peer(p)]) \in Nat /\ \A i \in 1..Len(sent[Peer(p)]) : sent'[Peer(p)][i] = sent[Peer(p)][i]
  BY <1>1, SentGrows
<1>3. arrived[p] <= leaves[Peer(p)] /\ leaves[Peer(p)] <= Len(sent[Peer(p)])
  BY <1>1 DEF Bounds
<1>4. arrived[p] \in Nat /\ leaves[Peer(p)] \in Nat
  BY <1>1 DEF Types
<1> QED
  BY <1>2, <1>3, <1>4

\* A step that moves no message of an end keeps its line.
LEMMA LineKept ==
    ASSUME Types, Bounds, Lines, NEW p \in Endpoint,
           \A x \in 1..arrived[p] : Incoming(p)'[x] = Incoming(p)[x],
           handled'[p] = handled[p], messages'[p] = messages[p],
           unprocessed'[p] = unprocessed[p], taken'[p] = taken[p],
           current'[p] = current[p] \/ current'[p] = 0
    PROVE  InLine(p)'
<1>1. InLine(p)
  BY DEF Lines
<1>2. \A x \in 1..taken[p] : Incoming(p)'[x] = Incoming(p)[x]
  <2>1. taken[p] \in Nat /\ arrived[p] \in Nat /\ taken[p] <= arrived[p]
    BY DEF Types, Bounds
  <2> QED
    BY <2>1
<1>3. \A x \in 1..taken[p] : IsRequest(p, x)' <=> IsRequest(p, x)
  BY <1>2 DEF IsRequest
<1>4. /\ \A x \in 1..taken[p] : IsRequest(p, x)' =>
            Holds(handled[p], x) \/ Holds(messages[p], x) \/ Holds(unprocessed[p], x)
      /\ \A x : Holds(messages[p], x) \/ Holds(unprocessed[p], x) =>
            x \in 1..taken[p] /\ Incoming(p)'[x].type # "malformed"
      /\ \A x : Holds(handled[p], x) => x \in 1..taken[p] /\ IsRequest(p, x)'
      /\ current'[p] # 0 => Holds(handled[p], current'[p])
  BY <1>1, <1>2, <1>3 DEF InLine
<1>5. /\ Ascending(handled[p]) /\ Ascending(messages[p]) /\ Ascending(unprocessed[p])
      /\ \A x, y : Holds(handled[p], x) /\ Holds(messages[p], y) => x < y
      /\ \A x, y : Holds(handled[p], x) /\ Holds(unprocessed[p], y) => x < y
      /\ \A x, y : Holds(messages[p], x) /\ Holds(unprocessed[p], y) => x < y
  BY <1>1 DEF InLine
<1> QED
  BY <1>4, <1>5 DEF InLine

\* Draining lengthens the line at its end.
LEMMA LineDrained ==
    ASSUME Types, Bounds, Lines, NEW e \in Endpoint,
           \A x \in 1..arrived[e] : Incoming(e)'[x] = Incoming(e)[x],
           handled'[e] = handled[e], taken'[e] = arrived[e], current'[e] = current[e],
           \/ messages'[e] = messages[e] /\ unprocessed'[e] = unprocessed[e] \o Parsed(e)
           \/ /\ messages[e] = <<>> /\ unprocessed'[e] = <<>>
              /\ messages'[e] = unprocessed[e] \o Parsed(e)
    PROVE  InLine(e)'
<1> DEFINE h == handled[e]
           m == messages[e]
           u == unprocessed[e]
           d == Parsed(e)
           t == taken[e]
           a == arrived[e]
           In == Incoming(e)
           OK(x) == In[x].type # "malformed"
           Req(x) == IsRequest(e, x)
<1>1. /\ Ascending(h) /\ Ascending(m) /\ Ascending(u)
      /\ \A x, y : Holds(h, x) /\ Holds(m, y) => x < y
      /\ \A x, y : Holds(h, x) /\ Holds(u, y) => x < y
      /\ \A x, y : Holds(m, x) /\ Holds(u, y) => x < y
      /\ \A x \in 1..t : Req(x) => Holds(h, x) \/ Holds(m, x) \/ Holds(u, x)
      /\ \A x : Holds(m, x) \/ Holds(u, x) => x \in 1..t /\ OK(x)
      /\ \A x : Holds(h, x) => x \in 1..t /\ Req(x)
      /\ current[e] # 0 => Holds(h, current[e])
  BY DEF Lines, InLine
<1>2. /\ d \in Seq(Nat) /\ Ascending(d)
      /\ \A x : Holds(d, x) <=> x \in (t + 1)..a /\ OK(x)
  BY ParsedIsNew
<1>3. /\ t \in Nat /\ a \in Nat /\ t <= a /\ u \in Seq(Nat)
  BY DEF Types, Bounds
<1>4. \A x : Req(x) => OK(x)
  BY DEF IsRequest
<1>5. \A x \in 1..a : Incoming(e)'[x] = In[x] /\ (IsRequest(e, x)' <=> Req(x))
  BY DEF IsRequest
<1> HIDE DEF h, m, u, d, t, a, In, OK, Req
<1>6. \A x : x \in 1..t \/ x \in (t + 1)..a <=> x \in 1..a
  BY <1>3
<1>7. \A x, y : x \in 1..t /\ y \in (t + 1)..a => x < y
  BY <1>3
<1>8. Ascending(u \o d)
  BY <1>1, <1>2, <1>3, <1>7, ConcatAscends
<1>9. \A x : Holds(u \o d, x) <=> Holds(u, x) \/ Holds(d, x)
  BY <1>2, <1>3, ConcatHolds
<1>10. \A x, y : (Holds(h, x) \/ Holds(m, x)) /\ Holds(u \o d, y) => x < y
  BY <1>1, <1>2, <1>7, <1>9
<1>11. \A x : Holds(u \o d, x) => x \in 1..a /\ OK(x)
  BY <1>1, <1>2, <1>6, <1>9
<1>12. \A x \in 1..a : Req(x) => Holds(h, x) \/ Holds(m, x) \/ Holds(u \o d, x)
  BY <1>1, <1>2, <1>4, <1>6, <1>9
<1>13. \A x : Holds(<<>>, x) => FALSE
  BY DEF Holds
<1>14. Ascending(<<>>)
  BY DEF Ascending
<1>15. /\ \A x : Holds(m, x) => x \in 1..a /\ OK(x)
       /\ \A x : Holds(h, x) => x \in 1..a /\ Req(x)
  BY <1>1, <1>6
<1>16. handled'[e] = h /\ taken'[e] = a /\ current'[e] = current[e]
  BY DEF h, a
<1>17. \A x \in 1..a : OK(x) <=> Incoming(e)'[x].type # "malformed"
  BY <1>5 DEF OK
<1>18. CASE messages'[e] = m /\ unprocessed'[e] = u \o d
  <2>1. Ascending(handled'[e]) /\ Ascending(messages'[e]) /\ Ascending(unprocessed'[e])
    BY <1>1, <1>8, <1>16, <1>18
  <2>2. /\ \A x, y : Holds(handled'[e], x) /\ Holds(messages'[e], y) => x < y
        /\ \A x, y : Holds(handled'[e], x) /\ Holds(unprocessed'[e], y) => x < y
        /\ \A x, y : Holds(messages'[e], x) /\ Holds(unprocessed'[e], y) => x < y
    BY <1>1, <1>10, <1>16, <1>18
  <2>3. /\ \A x \in 1..taken'[e] : IsRequest(e, x)' =>
              Holds(handled'[e], x) \/ Holds(messages'[e], x) \/ Holds(unprocessed'[e], x)
        /\ \A x : Holds(messages'[e], x) \/ Holds(unprocessed'[e], x) =>
              x \in 1..taken'[e] /\ Incoming(e)'[x].type # "malformed"
        /\ \A x : Holds(handled'[e], x) => x \in 1..taken'[e] /\ IsRequest(e, x)'
    BY <1>5, <1>11, <1>12, <1>15, <1>16, <1>17, <1>18
  <2>4. current'[e] # 0 => Holds(handled'[e], current'[e])
    BY <1>1, <1>16
  <2> QED
    BY <2>1, <2>2, <2>3, <2>4 DEF InLine
<1>19. CASE m = <<>> /\ unprocessed'[e] = <<>> /\ messages'[e] = u \o d
  <2>1. Ascending(handled'[e]) /\ Ascending(messages'[e]) /\ Ascending(unprocessed'[e])
    BY <1>1, <1>8, <1>13, <1>14, <1>16, <1>19
  <2>2. /\ \A x, y : Holds(handled'[e], x) /\ Holds(messages'[e], y) => x < y
        /\ \A x, y : Holds(handled'[e], x) /\ Holds(unprocessed'[e], y) => x < y
        /\ \A x, y : Holds(messages'[e], x) /\ Holds(unprocessed'[e], y) => x < y
    BY <1>1, <1>10, <1>13, <1>14, <1>16, <1>19
  <2>3. /\ \A x \in 1..taken'[e] : IsRequest(e, x)' =>
              Holds(handled'[e], x) \/ Holds(messages'[e], x) \/ Holds(unprocessed'[e], x)
        /\ \A x : Holds(messages'[e], x) \/ Holds(unprocessed'[e], x) =>
              x \in 1..taken'[e] /\ Incoming(e)'[x].type # "malformed"
        /\ \A x : Holds(handled'[e], x) => x \in 1..taken'[e] /\ IsRequest(e, x)'
    BY <1>5, <1>11, <1>12, <1>13, <1>14, <1>15, <1>16, <1>17, <1>19
  <2>4. current'[e] # 0 => Holds(handled'[e], current'[e])
    BY <1>1, <1>16
  <2> QED
    BY <2>1, <2>2, <2>3, <2>4 DEF InLine
<1> QED
  BY <1>18, <1>19 DEF m, u, d

\* A step of one end touches nothing that the other end keeps.
LEMMA OnlyOwn ==
    ASSUME Types, NEW e \in Endpoint,
           Transport(e) \/ MainThread(e) \/ Application(e) \/ Crash(e)
    PROVE  \A p \in Endpoint : p # e =>
              /\ sent'[p] = sent[p] /\ arrived'[p] = arrived[p] /\ taken'[p] = taken[p]
              /\ open'[p] = open[p] /\ running'[p] = running[p]
              /\ unprocessed'[p] = unprocessed[p] /\ messages'[p] = messages[p]
              /\ handled'[p] = handled[p] /\ current'[p] = current[p]
              /\ waiting'[p] = waiting[p] /\ results'[p] = results[p]
<1> SUFFICES ASSUME NEW p \in Endpoint, p # e
             PROVE  /\ sent'[p] = sent[p] /\ arrived'[p] = arrived[p] /\ taken'[p] = taken[p]
                    /\ open'[p] = open[p] /\ running'[p] = running[p]
                    /\ unprocessed'[p] = unprocessed[p] /\ messages'[p] = messages[p]
                    /\ handled'[p] = handled[p] /\ current'[p] = current[p]
                    /\ waiting'[p] = waiting[p] /\ results'[p] = results[p]
  OBVIOUS
<1>d. /\ p \in DOMAIN sent /\ p \in DOMAIN arrived /\ p \in DOMAIN taken
      /\ p \in DOMAIN open /\ p \in DOMAIN running
      /\ p \in DOMAIN unprocessed /\ p \in DOMAIN messages /\ p \in DOMAIN handled
      /\ p \in DOMAIN current /\ p \in DOMAIN waiting /\ p \in DOMAIN results
  BY DEF Types
<1>1. CASE Publish(e)
  BY <1>d, <1>1 DEF Publish, transport, loop
<1>2. CASE ReachEof(e)
  BY <1>d, <1>2 DEF ReachEof, transport, loop
<1>3. CASE Pump(e)
  BY <1>d, <1>3 DEF Pump, transport, loop
<1>4. CASE RunHook(e)
  BY <1>d, <1>4 DEF RunHook, Drain, transport, loop
<1>5. CASE RunHandleMessages(e)
  BY <1>d, <1>5 DEF RunHandleMessages, transport, loop
<1>6. CASE RunShutdown(e)
  BY <1>d, <1>6 DEF RunShutdown, Shutdown, CloseEnd, transport, loop
<1>7. CASE HandleNext(e)
  BY <1>d, <1>7 DEF HandleNext, transport, loop
<1>8. CASE HandlerReturns(e)
  BY <1>d, <1>8 DEF HandlerReturns, Post, transport, loop
<1>9. CASE TakeAnswer(e)
  BY <1>d, <1>9 DEF TakeAnswer, Return, transport, loop
<1>10. CASE WaitAndDrain(e)
  BY <1>d, <1>10 DEF WaitAndDrain, Drain, transport, loop
<1>11. CASE WaitUntilEof(e)
  BY <1>d, <1>11 DEF WaitUntilEof, Drain, Shutdown, CloseEnd, Return, transport, loop
<1>12. CASE HandlerFails(e)
  BY <1>d, <1>12 DEF HandlerFails, transport, loop
<1>13. CASE DidMisbehave(e)
  BY <1>d, <1>13 DEF DidMisbehave, Shutdown, CloseEnd, transport, loop
<1>14. CASE PostMessage(e)
  BY <1>d, <1>14 DEF PostMessage, Post, transport, loop
<1>15. CASE SendSync(e)
  BY <1>d, <1>15 DEF SendSync, Post, transport, loop
<1>16. CASE SendSyncWhenClosed(e)
  BY <1>d, <1>16 DEF SendSyncWhenClosed, transport, loop
<1>17. CASE Crash(e)
  BY <1>d, <1>17 DEF Crash, CloseEnd, transport, loop
<1> QED
  BY <1>1, <1>2, <1>3, <1>4, <1>5, <1>6, <1>7, <1>8, <1>9,
     <1>10, <1>11, <1>12, <1>13, <1>14, <1>15, <1>16, <1>17
  DEF Transport, MainThread, Application

\* Every step keeps the requests in line: reading them on behalf of a waiting call, moving
\* them out in handle_messages, dispatching them, taking an answer from among them.
LEMMA LinesNext ==
    ASSUME Types, Bounds, Lines, NEW e \in Endpoint,
           Transport(e) \/ MainThread(e) \/ Application(e) \/ Crash(e)
    PROVE  Lines'
<1>1. \A p \in Endpoint : \A x \in 1..arrived[p] : Incoming(p)'[x] = Incoming(p)[x]
  BY IncomingKept
<1>2. ASSUME NEW p \in Endpoint, p # e PROVE InLine(p)'
  <2>1. /\ handled'[p] = handled[p] /\ messages'[p] = messages[p]
        /\ unprocessed'[p] = unprocessed[p] /\ taken'[p] = taken[p] /\ current'[p] = current[p]
    BY <1>2, OnlyOwn
  <2> QED
    BY <1>1, <2>1, LineKept
<1> SUFFICES InLine(e)'
  BY <1>2 DEF Lines
<1>d. /\ taken \in [Endpoint -> Nat] /\ current \in [Endpoint -> Nat]
      /\ unprocessed \in [Endpoint -> Seq(Nat)] /\ messages \in [Endpoint -> Seq(Nat)]
      /\ handled \in [Endpoint -> Seq(Nat)]
  BY DEF Types
<1>3. CASE /\ UNCHANGED <<handled, messages, unprocessed, taken>>
           /\ current' = current \/ current' = [current EXCEPT ![e] = 0]
  <2>1. /\ handled'[e] = handled[e] /\ messages'[e] = messages[e]
        /\ unprocessed'[e] = unprocessed[e] /\ taken'[e] = taken[e]
        /\ current'[e] = current[e] \/ current'[e] = 0
    BY <1>3, <1>d
  <2> QED
    BY <1>1, <2>1, LineKept
<1>4. CASE RunHook(e)
  <2>1. /\ handled'[e] = handled[e] /\ current'[e] = current[e] /\ messages[e] = <<>>
        /\ unprocessed'[e] = <<>> /\ messages'[e] = unprocessed[e] \o Parsed(e)
    BY <1>4, <1>d DEF RunHook, Idle
  <2>2. taken'[e] = arrived[e]
    BY <1>4, <1>d DEF RunHook, Drain
  <2> QED
    BY <1>1, <2>1, <2>2, LineDrained
<1>5. CASE WaitAndDrain(e) \/ WaitUntilEof(e)
  <2>1. /\ handled'[e] = handled[e] /\ current'[e] = current[e] /\ messages'[e] = messages[e]
        /\ unprocessed'[e] = unprocessed[e] \o Parsed(e)
    BY <1>5, <1>d DEF WaitAndDrain, WaitUntilEof
  <2>2. taken'[e] = arrived[e]
    BY <1>5, <1>d DEF WaitAndDrain, WaitUntilEof, Drain
  <2> QED
    BY <1>1, <2>1, <2>2, LineDrained
\* The other three move messages along the line.
<1> DEFINE h == handled[e]
           m == messages[e]
           u == unprocessed[e]
           t == taken[e]
           OK(x) == Incoming(e)[x].type # "malformed"
           Req(x) == IsRequest(e, x)
<1>6. /\ Ascending(h) /\ Ascending(m) /\ Ascending(u)
      /\ \A x, y : Holds(h, x) /\ Holds(m, y) => x < y
      /\ \A x, y : Holds(h, x) /\ Holds(u, y) => x < y
      /\ \A x, y : Holds(m, x) /\ Holds(u, y) => x < y
      /\ \A x \in 1..t : Req(x) => Holds(h, x) \/ Holds(m, x) \/ Holds(u, x)
      /\ \A x : Holds(m, x) \/ Holds(u, x) => x \in 1..t /\ OK(x)
      /\ \A x : Holds(h, x) => x \in 1..t /\ Req(x)
      /\ current[e] # 0 => Holds(h, current[e])
  BY DEF Lines, InLine
<1>7. h \in Seq(Nat) /\ m \in Seq(Nat) /\ u \in Seq(Nat)
  BY <1>d
<1>8. \A x \in 1..t : (OK(x) <=> Incoming(e)'[x].type # "malformed") /\ (IsRequest(e, x)' <=> Req(x))
  <2>1. t \in Nat /\ arrived[e] \in Nat /\ t <= arrived[e]
    BY DEF Types, Bounds
  <2>2. \A x \in 1..t : x \in 1..arrived[e]
    BY <2>1
  <2>3. \A x \in 1..t : Incoming(e)'[x] = Incoming(e)[x]
    BY <1>1, <2>2
  <2> QED
    BY <2>3 DEF IsRequest
<1>9. Ascending(<<>>) /\ \A x : ~Holds(<<>>, x)
  BY DEF Ascending, Holds
<1>10. CASE RunHandleMessages(e)
  <2>1. /\ handled'[e] = h /\ current'[e] = current[e] /\ taken'[e] = t /\ m = <<>>
        /\ messages'[e] = u /\ unprocessed'[e] = <<>>
    BY <1>10, <1>d DEF RunHandleMessages, transport, Idle
  <2> HIDE DEF h, m, u, t, OK, Req
  <2>2. Ascending(handled'[e]) /\ Ascending(messages'[e]) /\ Ascending(unprocessed'[e])
    BY <1>6, <1>9, <2>1
  <2>3. /\ \A x, y : Holds(handled'[e], x) /\ Holds(messages'[e], y) => x < y
        /\ \A x, y : Holds(handled'[e], x) /\ Holds(unprocessed'[e], y) => x < y
        /\ \A x, y : Holds(messages'[e], x) /\ Holds(unprocessed'[e], y) => x < y
    BY <1>6, <1>9, <2>1
  <2>4. /\ \A x \in 1..taken'[e] : IsRequest(e, x)' =>
              Holds(handled'[e], x) \/ Holds(messages'[e], x) \/ Holds(unprocessed'[e], x)
        /\ \A x : Holds(messages'[e], x) \/ Holds(unprocessed'[e], x) =>
              x \in 1..taken'[e] /\ Incoming(e)'[x].type # "malformed"
        /\ \A x : Holds(handled'[e], x) => x \in 1..taken'[e] /\ IsRequest(e, x)'
        /\ current'[e] # 0 => Holds(handled'[e], current'[e])
    BY <1>6, <1>8, <1>9, <2>1
  <2> QED
    BY <2>2, <2>3, <2>4 DEF InLine
<1>11. CASE HandleNext(e)
  <2> DEFINE i == Head(m)
  <2>1. /\ m # <<>> /\ messages'[e] = Tail(m) /\ unprocessed'[e] = u /\ taken'[e] = t
        /\ current[e] = 0
    BY <1>11, <1>d DEF HandleNext, transport
  <2>2. \/ IsAnswer(e, i) /\ handled'[e] = h /\ current'[e] = current[e]
        \/ Req(i) /\ handled'[e] = Append(h, i) /\ current'[e] = i
    BY <1>11, <1>d DEF HandleNext
  <2>3. IsAnswer(e, i) => ~Req(i)
    BY DEF IsAnswer, IsRequest
  <2> HIDE DEF h, m, u, t, OK, Req
  <2>4. /\ i \in Nat /\ Tail(m) \in Seq(Nat) /\ Ascending(Tail(m))
        /\ \A x : Holds(m, x) <=> x = i \/ Holds(Tail(m), x)
        /\ \A x : Holds(Tail(m), x) => i < x
    BY <1>6, <1>7, <2>1, TailKeeps
  <2> HIDE DEF i
  <2>5. Holds(m, i)
    BY <2>4
  <2>6. CASE ~Req(i) /\ handled'[e] = h /\ current'[e] = current[e]
    <3>1. Ascending(handled'[e]) /\ Ascending(messages'[e]) /\ Ascending(unprocessed'[e])
      BY <1>6, <2>1, <2>4, <2>6
    <3>2. /\ \A x, y : Holds(handled'[e], x) /\ Holds(messages'[e], y) => x < y
          /\ \A x, y : Holds(handled'[e], x) /\ Holds(unprocessed'[e], y) => x < y
          /\ \A x, y : Holds(messages'[e], x) /\ Holds(unprocessed'[e], y) => x < y
      BY <1>6, <2>1, <2>4, <2>6
    <3>3. /\ \A x \in 1..taken'[e] : IsRequest(e, x)' =>
                Holds(handled'[e], x) \/ Holds(messages'[e], x) \/ Holds(unprocessed'[e], x)
          /\ \A x : Holds(messages'[e], x) \/ Holds(unprocessed'[e], x) =>
                x \in 1..taken'[e] /\ Incoming(e)'[x].type # "malformed"
          /\ \A x : Holds(handled'[e], x) => x \in 1..taken'[e] /\ IsRequest(e, x)'
          /\ current'[e] # 0 => Holds(handled'[e], current'[e])
      BY <1>6, <1>8, <2>1, <2>4, <2>6
    <3> QED
      BY <3>1, <3>2, <3>3 DEF InLine
  <2>7. CASE Req(i) /\ handled'[e] = Append(h, i) /\ current'[e] = i
    <3>1. <<i>> \in Seq(Nat) /\ Ascending(<<i>>) /\ \A x : Holds(<<i>>, x) <=> x = i
      BY <2>4 DEF Ascending, Holds
    <3>2. handled'[e] = h \o <<i>>
      BY <1>7, <2>4, <2>7, AppendIsConcat
    <3>3. \A x : Holds(handled'[e], x) <=> Holds(h, x) \/ x = i
      <4>1. \A x : Holds(h \o <<i>>, x) <=> Holds(h, x) \/ Holds(<<i>>, x)
        BY <1>7, <3>1, ConcatHolds
      <4> QED
        BY <3>1, <3>2, <4>1
    <3>4. \A x, y : Holds(h, x) /\ Holds(<<i>>, y) => x < y
      BY <1>6, <2>5, <3>1
    <3>5. Ascending(handled'[e]) /\ Ascending(messages'[e]) /\ Ascending(unprocessed'[e])
      BY <1>6, <1>7, <2>1, <2>4, <3>1, <3>2, <3>4, ConcatAscends
    <3>6. /\ \A x, y : Holds(handled'[e], x) /\ Holds(messages'[e], y) => x < y
          /\ \A x, y : Holds(handled'[e], x) /\ Holds(unprocessed'[e], y) => x < y
          /\ \A x, y : Holds(messages'[e], x) /\ Holds(unprocessed'[e], y) => x < y
      BY <1>6, <2>1, <2>4, <2>5, <3>3
    <3>7. /\ \A x \in 1..taken'[e] : IsRequest(e, x)' =>
                Holds(handled'[e], x) \/ Holds(messages'[e], x) \/ Holds(unprocessed'[e], x)
          /\ \A x : Holds(messages'[e], x) \/ Holds(unprocessed'[e], x) =>
                x \in 1..taken'[e] /\ Incoming(e)'[x].type # "malformed"
          /\ \A x : Holds(handled'[e], x) => x \in 1..taken'[e] /\ IsRequest(e, x)'
          /\ current'[e] # 0 => Holds(handled'[e], current'[e])
      BY <1>6, <1>8, <2>1, <2>4, <2>5, <2>7, <3>3
    <3> QED
      BY <3>5, <3>6, <3>7 DEF InLine
  <2> QED
    BY <2>2, <2>3, <2>6, <2>7
<1>12. CASE TakeAnswer(e)
  <2>1. PICK k \in Answers(e) : unprocessed' = [unprocessed EXCEPT ![e] = Without(@, k)]
    BY <1>12 DEF TakeAnswer
  <2>2. /\ handled'[e] = h /\ messages'[e] = m /\ taken'[e] = t /\ current'[e] = current[e]
        /\ unprocessed'[e] = Without(u, k)
    BY <1>12, <1>d, <2>1 DEF TakeAnswer, transport
  <2>3. k \in 1..Len(u) /\ ~Req(u[k])
    BY DEF Answers, IsAnswer, IsRequest
  <2> HIDE DEF h, m, u, t, OK, Req
  <2>4. /\ Ascending(Without(u, k))
        /\ \A x : Holds(Without(u, k), x) <=> Holds(u, x) /\ x # u[k]
    BY <1>6, <1>7, <2>3, WithoutKeeps
  <2>5. Ascending(handled'[e]) /\ Ascending(messages'[e]) /\ Ascending(unprocessed'[e])
    BY <1>6, <2>2, <2>4
  <2>6. /\ \A x, y : Holds(handled'[e], x) /\ Holds(messages'[e], y) => x < y
        /\ \A x, y : Holds(handled'[e], x) /\ Holds(unprocessed'[e], y) => x < y
        /\ \A x, y : Holds(messages'[e], x) /\ Holds(unprocessed'[e], y) => x < y
    BY <1>6, <2>2, <2>4
  <2>7. /\ \A x \in 1..taken'[e] : IsRequest(e, x)' =>
              Holds(handled'[e], x) \/ Holds(messages'[e], x) \/ Holds(unprocessed'[e], x)
        /\ \A x : Holds(messages'[e], x) \/ Holds(unprocessed'[e], x) =>
              x \in 1..taken'[e] /\ Incoming(e)'[x].type # "malformed"
        /\ \A x : Holds(handled'[e], x) => x \in 1..taken'[e] /\ IsRequest(e, x)'
        /\ current'[e] # 0 => Holds(handled'[e], current'[e])
    BY <1>6, <1>8, <2>2, <2>3, <2>4
  <2> QED
    BY <2>5, <2>6, <2>7 DEF InLine
<1>13. \/ Publish(e) \/ ReachEof(e) \/ Pump(e) \/ RunShutdown(e) \/ HandlerReturns(e)
       \/ HandlerFails(e) \/ DidMisbehave(e) \/ PostMessage(e) \/ SendSync(e)
       \/ SendSyncWhenClosed(e) \/ Crash(e)
       => /\ UNCHANGED <<handled, messages, unprocessed, taken>>
          /\ current' = current \/ current' = [current EXCEPT ![e] = 0]
  BY DEF Publish, ReachEof, Pump, RunShutdown, HandlerReturns, HandlerFails, DidMisbehave,
         PostMessage, SendSync, SendSyncWhenClosed, Crash, transport
<1> QED
  BY <1>3, <1>4, <1>5, <1>10, <1>11, <1>12, <1>13 DEF Transport, MainThread, Application
-----------------------------------------------------------------------------
(* Calls and their answers.                                                *)

\* As long as nothing is posted, reading, dispatching and taking answers leave less to read
\* and less to handle.
LEMMA UnreadShrinks ==
    ASSUME Types, Bounds, Lines, NEW e \in Endpoint, UNCHANGED sent,
           Transport(e) \/ MainThread(e) \/ Application(e) \/ Crash(e)
    PROVE  \A p \in Endpoint : \A i : /\ Unread(p, i)' => Unread(p, i)
                                      /\ Pending(p, i)' => Pending(p, i)
<1>1. ASSUME NEW p \in Endpoint, p # e, NEW i
      PROVE  (Unread(p, i)' => Unread(p, i)) /\ (Pending(p, i)' => Pending(p, i))
  <2>1. /\ messages'[p] = messages[p] /\ unprocessed'[p] = unprocessed[p]
        /\ taken'[p] = taken[p] /\ current'[p] = current[p]
    BY <1>1, OnlyOwn
  <2> QED
    BY <2>1 DEF Pending, Unread, Incoming
<1> SUFFICES ASSUME NEW i
             PROVE  (Unread(e, i)' => Unread(e, i)) /\ (Pending(e, i)' => Pending(e, i))
  BY <1>1
<1>d. /\ taken \in [Endpoint -> Nat] /\ current \in [Endpoint -> Nat]
      /\ unprocessed \in [Endpoint -> Seq(Nat)] /\ messages \in [Endpoint -> Seq(Nat)]
  BY DEF Types
<1>e. taken[e] \in Nat /\ arrived[e] \in Nat /\ taken[e] <= arrived[e]
  BY DEF Types, Bounds
<1> DEFINE m == messages[e]
           u == unprocessed[e]
           n == Len(Incoming(e))
<1>f. m \in Seq(Nat) /\ u \in Seq(Nat) /\ Ascending(m) /\ Ascending(u)
  BY <1>d DEF Lines, InLine
<1>g. /\ Unread(e, i) <=> i \in 1..n /\ (i > taken[e] \/ Holds(m, i) \/ Holds(u, i))
      /\ Unread(e, i)' <=> i \in 1..n /\ (\/ i > taken'[e] \/ Holds(messages'[e], i)
                                          \/ Holds(unprocessed'[e], i))
  BY DEF Unread, Incoming
<1>h. /\ Pending(e, i) <=> Unread(e, i) \/ (current[e] # 0 /\ i = current[e])
      /\ Pending(e, i)' <=> Unread(e, i)' \/ (current'[e] # 0 /\ i = current'[e])
  BY DEF Pending
<1>i. \A j : ~Holds(<<>>, j)
  BY DEF Holds
<1>j. Holds(m, i) => i \in 1..n
  <2>1. Holds(m, i) => i \in 1..taken[e]
    BY DEF Lines, InLine
  <2>2. n \in Nat /\ taken[e] <= n
    <3>1. Peer(e) \in Endpoint
      BY PeerLemma
    <3>2. arrived[e] <= leaves[Peer(e)] /\ leaves[Peer(e)] <= n
      BY <3>1 DEF Bounds, Incoming
    <3>3. leaves[Peer(e)] \in Nat /\ n \in Nat
      BY <3>1 DEF Types, Incoming
    <3> QED
      BY <1>e, <3>2, <3>3
  <2> QED
    BY <1>e, <2>1, <2>2
<1>2. CASE /\ UNCHANGED <<messages, unprocessed, taken>>
           /\ current' = current \/ current' = [current EXCEPT ![e] = 0]
  <2>1. /\ messages'[e] = m /\ unprocessed'[e] = u /\ taken'[e] = taken[e]
        /\ current'[e] = current[e] \/ current'[e] = 0
    BY <1>2, <1>d
  <2> QED
    BY <1>g, <1>h, <2>1
<1>3. CASE RunHook(e) \/ WaitAndDrain(e) \/ WaitUntilEof(e)
  <2>1. /\ taken'[e] = arrived[e]
    BY <1>3, <1>d DEF RunHook, WaitAndDrain, WaitUntilEof, Drain
  <2>2. \/ messages'[e] = u \o Parsed(e) /\ unprocessed'[e] = <<>>
        \/ messages'[e] = m /\ unprocessed'[e] = u \o Parsed(e)
    BY <1>3, <1>d DEF RunHook, WaitAndDrain, WaitUntilEof
  <2>3. current'[e] = current[e]
    BY <1>3 DEF RunHook, WaitAndDrain, WaitUntilEof
  <2>4. Parsed(e) \in Seq(Nat) /\ (Holds(Parsed(e), i) => i \in (taken[e] + 1)..arrived[e])
    BY ParsedIsNew
  <2> HIDE DEF m, u, n
  <2>5. Holds(u \o Parsed(e), i) => Holds(u, i) \/ i > taken[e]
    <3>1. Holds(u \o Parsed(e), i) <=> Holds(u, i) \/ Holds(Parsed(e), i)
      BY <1>f, <2>4, ConcatHolds
    <3> QED
      BY <1>e, <2>4, <3>1
  <2>6. i \in 1..n /\ i > arrived[e] => i > taken[e]
    <3> n \in Nat
      BY PeerLemma DEF n, Incoming, Types
    <3> QED
      BY <1>e
  <2> QED
    BY <1>g, <1>h, <1>i, <2>1, <2>2, <2>3, <2>5, <2>6
<1>4. CASE RunHandleMessages(e)
  <2>1. /\ taken'[e] = taken[e] /\ messages'[e] = u /\ unprocessed'[e] = <<>>
        /\ current'[e] = current[e]
    BY <1>4, <1>d DEF RunHandleMessages, transport
  <2> QED
    BY <1>g, <1>h, <1>i, <2>1
<1>5. CASE HandleNext(e)
  <2>1. /\ taken'[e] = taken[e] /\ m # <<>> /\ messages'[e] = Tail(m) /\ unprocessed'[e] = u
        /\ current'[e] = current[e] \/ current'[e] = Head(m)
    BY <1>5, <1>d DEF HandleNext, transport
  <2>2. Holds(m, i) <=> i = Head(m) \/ Holds(Tail(m), i)
    BY <1>f, <2>1, TailKeeps
  <2> QED
    BY <1>g, <1>h, <1>j, <2>1, <2>2
<1>6. CASE TakeAnswer(e)
  <2>1. PICK k \in Answers(e) : unprocessed' = [unprocessed EXCEPT ![e] = Without(@, k)]
    BY <1>6 DEF TakeAnswer
  <2>2. /\ messages'[e] = m /\ taken'[e] = taken[e] /\ current'[e] = current[e]
        /\ unprocessed'[e] = Without(u, k)
    BY <1>6, <1>d, <2>1 DEF TakeAnswer, transport
  <2>3. k \in 1..Len(u)
    BY DEF Answers
  <2>4. Holds(Without(u, k), i) => Holds(u, i)
    BY <1>f, <2>3, WithoutKeeps
  <2> QED
    BY <1>g, <1>h, <2>2, <2>4
<1>7. \/ Publish(e) \/ ReachEof(e) \/ Pump(e) \/ RunShutdown(e) \/ HandlerReturns(e)
      \/ HandlerFails(e) \/ DidMisbehave(e) \/ PostMessage(e) \/ SendSync(e)
      \/ SendSyncWhenClosed(e) \/ Crash(e)
      => /\ UNCHANGED <<messages, unprocessed, taken>>
         /\ current' = current \/ current' = [current EXCEPT ![e] = 0]
  BY DEF Publish, ReachEof, Pump, RunShutdown, HandlerReturns, HandlerFails, DidMisbehave,
         PostMessage, SendSync, SendSyncWhenClosed, Crash, transport
<1> QED
  BY <1>2, <1>3, <1>4, <1>5, <1>6, <1>7 DEF Transport, MainThread, Application

\* Posting a message, a call or the answer to the call whose handler returns keeps calls and
\* answers matched: an end posts only while it waits for nothing.
LEMMA PostCalls ==
    ASSUME Types, Bounds, Lines, Calls, NEW e \in Endpoint, NEW m \in Message, Post(e, m),
           UNCHANGED <<taken, messages, unprocessed, open, running>>,
           open[e], waiting[e] = 0,
           m.type = "call" => waiting' = [waiting EXCEPT ![e] = Len(sent[e]) + 1],
           m.type # "call" => UNCHANGED waiting,
           current' = current \/ current' = [current EXCEPT ![e] = 0],
           m.type = "answer" =>
                /\ current[e] # 0 /\ m.of = current[e] /\ current'[e] = 0
                /\ Incoming(e)[current[e]].type = "call"
    PROVE  Calls'
<1> DEFINE q == Peer(e)
           n == Len(sent[e]) + 1
           c0 == current[e]
<1>1. q \in Endpoint /\ q # e /\ Peer(q) = e /\ \A p \in Endpoint : p = e \/ p = q
  BY PeerLemma, PeersAssumption
<1>2. /\ Incoming(e) = sent[q] /\ Incoming(q) = sent[e]
      /\ Incoming(e)' = sent'[q] /\ Incoming(q)' = sent'[e]
  BY <1>1 DEF Incoming
<1>3. /\ sent'[q] = sent[q] /\ Len(sent'[e]) = n /\ sent'[e][n] = m
      /\ \A i \in 1..(n - 1) : sent'[e][i] = sent[e][i]
      /\ n - 1 = Len(sent[e]) /\ n \in Nat /\ n - 1 \in Nat
  <2>1. /\ sent'[q] = sent[q] /\ Len(sent'[e]) = n /\ sent'[e][n] = m
        /\ \A i \in 1..Len(sent[e]) : sent'[e][i] = sent[e][i]
    BY <1>1, PostEffect
  <2>2. Len(sent[e]) \in Nat
    BY DEF Types
  <2>3. n - 1 = Len(sent[e])
    BY <2>2
  <2> QED
    BY <2>1, <2>2, <2>3
<1>4. \A i : i \in 1..n <=> i \in 1..(n - 1) \/ i = n
  BY <1>3
<1>5. n > taken[q] /\ n \notin 1..(n - 1) /\ taken[e] \in Nat
  <2>1. taken[q] <= arrived[q] /\ arrived[q] <= leaves[e] /\ leaves[e] <= n - 1
    BY <1>1, <1>3 DEF Bounds
  <2>2. taken[q] \in Nat /\ arrived[q] \in Nat /\ leaves[e] \in Nat /\ taken[e] \in Nat
    BY <1>1 DEF Types
  <2> QED
    BY <1>3, <2>1, <2>2
<1>6. current'[q] = current[q] /\ (current'[e] = current[e] \/ current'[e] = 0)
  BY <1>1 DEF Types
<1>7. /\ m.type = "call" => waiting'[e] = n /\ waiting'[q] = waiting[q]
      /\ m.type # "call" => waiting'[e] = 0 /\ waiting'[q] = waiting[q]
  BY <1>1 DEF Types
<1>a. m.type = "answer" => c0 # 0 /\ m.of = c0 /\ current'[e] = 0 /\ sent[q][c0].type = "call"
  BY <1>2
\* What becomes unread or pending is the message that was posted.
<1> DEFINE E(i) == i \in 1..Len(sent[q])
           Q(i) == i \in 1..(n - 1)
<1>8. /\ \A i : Unread(q, i)' <=> Unread(q, i) \/ i = n
      /\ \A i : Unread(q, i) => Q(i)
      /\ \A i : Unread(e, i)' <=> Unread(e, i)
      /\ \A i : Unread(e, i) => E(i)
  <2>1. \A i : i > taken[q] \/ ~(i > taken[q])
    OBVIOUS
  <2>2. \A i : Unread(q, i) <=>
            Q(i) /\ (i > taken[q] \/ Holds(messages[q], i) \/ Holds(unprocessed[q], i))
    BY <1>2, <1>3 DEF Unread
  <2>3. \A i : Unread(q, i)' <=>
            i \in 1..n /\ (i > taken[q] \/ Holds(messages[q], i) \/ Holds(unprocessed[q], i))
    BY <1>2, <1>3 DEF Unread
  <2>4. \A i : Unread(e, i)' <=> Unread(e, i)
    BY <1>2, <1>3 DEF Unread
  <2>5. \A i : Unread(e, i) => E(i)
    BY <1>2 DEF Unread
  <2> QED
    BY <1>4, <1>5, <2>2, <2>3, <2>4, <2>5
<1>9. c0 # 0 => E(c0) /\ ~Unread(e, c0)
  <2> SUFFICES ASSUME c0 # 0 PROVE E(c0) /\ ~Unread(e, c0)
    OBVIOUS
  <2>1. Holds(handled[e], c0) /\ c0 \in 1..taken[e]
    BY DEF Lines, InLine
  <2>2. ~Holds(messages[e], c0) /\ ~Holds(unprocessed[e], c0)
    <3>1. Holds(messages[e], c0) \/ Holds(unprocessed[e], c0) => c0 < c0
      BY <2>1 DEF Lines, InLine
    <3> QED
      BY <1>5, <2>1, <3>1
  <2>3. taken[e] <= arrived[e] /\ arrived[e] <= leaves[q] /\ leaves[q] <= Len(sent[q])
    BY <1>1 DEF Bounds
  <2>4. arrived[e] \in Nat /\ leaves[q] \in Nat /\ Len(sent[q]) \in Nat
    BY <1>1 DEF Types
  <2>5. E(c0) /\ ~(c0 > taken[e])
    BY <1>5, <2>1, <2>3, <2>4
  <2> QED
    BY <2>2, <2>5 DEF Unread
<1>10. /\ \A i : Pending(q, i)' <=> Pending(q, i) \/ i = n
       /\ \A i : Pending(q, i) => Q(i)
       /\ \A i : Pending(e, i)' => Pending(e, i)
       /\ \A i : Pending(e, i) => E(i)
       /\ m.type = "answer" => Pending(e, c0) /\ \A i : Pending(e, i)' => i # c0
  <2>1. \A i : Pending(q, i) => Q(i)
    <3>1. current[q] # 0 => Q(current[q])
      <4>1. current[q] # 0 => current[q] \in 1..taken[q]
        BY <1>1 DEF Lines, InLine
      <4>2. taken[q] \in Nat
        BY <1>1 DEF Types
      <4>3. taken[q] <= n - 1
        BY <1>3, <1>5, <4>2
      <4> QED
        BY <1>3, <4>1, <4>2, <4>3
    <3> QED
      BY <1>8, <3>1 DEF Pending
  <2>2. \A i : Pending(q, i)' <=> Pending(q, i) \/ i = n
    BY <1>6, <1>8 DEF Pending
  <2>3. \A i : Pending(e, i)' => Pending(e, i)
    BY <1>6, <1>8 DEF Pending
  <2>4. \A i : Pending(e, i) => E(i)
    BY <1>8, <1>9 DEF Pending
  <2>5. m.type = "answer" => Pending(e, c0) /\ \A i : Pending(e, i)' => i # c0
    BY <1>8, <1>9, <1>a DEF Pending
  <2> QED
    BY <2>1, <2>2, <2>3, <2>4, <2>5
<1>11. /\ \A i, c : AnswerTo(e, i, c) <=> E(i) /\ sent[q][i].type = "answer" /\ sent[q][i].of = c
       /\ \A i, c : AnswerTo(q, i, c) <=> Q(i) /\ sent[e][i].type = "answer" /\ sent[e][i].of = c
       /\ \A i, c : AnswerTo(e, i, c)' <=> AnswerTo(e, i, c)
       /\ \A i, c : AnswerTo(q, i, c)' <=>
                        AnswerTo(q, i, c) \/ (i = n /\ m.type = "answer" /\ m.of = c)
  <2>1. \A i, c : AnswerTo(e, i, c) <=> E(i) /\ sent[q][i].type = "answer" /\ sent[q][i].of = c
    BY <1>2 DEF AnswerTo, IsAnswer
  <2>2. \A i, c : AnswerTo(q, i, c) <=> Q(i) /\ sent[e][i].type = "answer" /\ sent[e][i].of = c
    BY <1>2, <1>3 DEF AnswerTo, IsAnswer
  <2>3. \A i, c : AnswerTo(e, i, c)' <=> AnswerTo(e, i, c)
    BY <1>2, <1>3 DEF AnswerTo, IsAnswer
  <2>4. \A i, c : AnswerTo(q, i, c)' <=>
                i \in 1..n /\ sent'[e][i].type = "answer" /\ sent'[e][i].of = c
    BY <1>2, <1>3 DEF AnswerTo, IsAnswer
  <2> QED
    BY <1>3, <1>4, <1>5, <2>1, <2>2, <2>3, <2>4
\* The invariant before the step, of either end.
<1>12. /\ \A i : Unread(e, i) /\ sent[q][i].type = "answer" => sent[q][i].of = 0
       /\ \A c : Pending(q, c) /\ sent[e][c].type = "call" => c = 0
       /\ \A c, i : Pending(q, c) /\ sent[e][c].type = "call" => ~AnswerTo(e, i, c)
       /\ \A i, j, c : AnswerTo(e, i, c) /\ AnswerTo(e, j, c) => i = j
       /\ \A i, c : AnswerTo(e, i, c) => Q(c)
  BY <1>2, <1>3 DEF Calls, OneCall, IsAnswer
<1>13. /\ \A i : Unread(q, i) /\ sent[e][i].type = "answer" /\ open[q] => sent[e][i].of = waiting[q]
       /\ \A c : Pending(e, c) /\ sent[q][c].type = "call" /\ open[q] => c = waiting[q]
       /\ \A c, i : Pending(e, c) /\ sent[q][c].type = "call" => ~AnswerTo(q, i, c)
       /\ \A i, j, c : AnswerTo(q, i, c) /\ AnswerTo(q, j, c) => i = j
       /\ \A i, c : AnswerTo(q, i, c) => E(c)
       /\ running[q] /\ waiting[q] # 0 => open[q]
  BY <1>1, <1>2 DEF Calls, OneCall, IsAnswer
<1>14. 0 \notin 1..(n - 1)
  OBVIOUS
<1>15. \A i : IsAnswer(e, i)' <=> sent[q][i].type = "answer"
  BY <1>2, <1>3 DEF IsAnswer
<1>16. \A i : IsAnswer(q, i)' <=> sent'[e][i].type = "answer"
  BY <1>2 DEF IsAnswer
<1>17. Incoming(e)' = sent[q] /\ Incoming(q)' = sent'[e] /\ Peer(e)' = q /\ Peer(q)' = e
  BY <1>1, <1>2, <1>3 DEF Peer
<1> HIDE DEF q, n, c0, E, Q
<1>18. OneCall(e)'
  <2>1. \A i : Unread(e, i)' /\ IsAnswer(e, i)' /\ open'[e] => Incoming(e)'[i].of = waiting'[e]
    <3>1. \A i : ~(Unread(e, i) /\ sent[q][i].type = "answer")
      <4> SUFFICES ASSUME NEW i, Unread(e, i), sent[q][i].type = "answer" PROVE FALSE
        OBVIOUS
      <4>1. AnswerTo(e, i, 0)
        BY <1>8, <1>11, <1>12
      <4> QED
        BY <1>12, <1>14, <4>1 DEF Q
    <3> QED
      BY <1>8, <1>15, <3>1
  <2>2. \A c : Pending(q, c)' /\ sent'[e][c].type = "call" /\ open'[e] => c = waiting'[e]
    <3>1. \A c : ~(Pending(q, c) /\ sent[e][c].type = "call")
      BY <1>10, <1>12, <1>14 DEF Q
    <3>2. \A c : Pending(q, c) => sent'[e][c] = sent[e][c]
      BY <1>3, <1>10 DEF Q
    <3> QED
      BY <1>3, <1>7, <1>10, <3>1, <3>2
  <2>3. \A c, i : Pending(q, c)' /\ sent'[e][c].type = "call" => ~AnswerTo(e, i, c)'
    <3>1. \A c : Pending(q, c) => sent'[e][c] = sent[e][c]
      BY <1>3, <1>10 DEF Q
    <3> QED
      BY <1>5, <1>10, <1>11, <1>12, <3>1 DEF Q
  <2>4. /\ \A i, j, c : AnswerTo(e, i, c)' /\ AnswerTo(e, j, c)' => i = j
        /\ \A i, c : AnswerTo(e, i, c)' => c \in 1..Len(sent'[e])
    BY <1>3, <1>4, <1>11, <1>12 DEF Q
  <2> QED
    BY <1>17, <2>1, <2>2, <2>3, <2>4 DEF OneCall
<1>19. OneCall(q)'
  <2>1. \A i : Unread(q, i)' /\ IsAnswer(q, i)' /\ open'[q] => Incoming(q)'[i].of = waiting'[q]
    <3> SUFFICES ASSUME NEW i, Unread(q, i)', sent'[e][i].type = "answer", open[q]
                 PROVE  sent'[e][i].of = waiting[q]
      BY <1>7, <1>16, <1>17
    <3>1. CASE Unread(q, i)
      BY <1>3, <1>8, <1>13, <3>1 DEF Q
    <3>2. CASE i = n
      BY <1>3, <1>10, <1>13, <1>a, <3>2
    <3> QED
      BY <1>8, <3>1, <3>2
  <2>2. \A c : Pending(e, c)' /\ sent'[q][c].type = "call" /\ open'[q] => c = waiting'[q]
    BY <1>3, <1>7, <1>10, <1>13
  <2>3. \A c, i : Pending(e, c)' /\ sent'[q][c].type = "call" => ~AnswerTo(q, i, c)'
    <3> SUFFICES ASSUME NEW c, NEW i, Pending(e, c)', sent[q][c].type = "call",
                        AnswerTo(q, i, c)'
                 PROVE  FALSE
      BY <1>3
    <3>1. ~AnswerTo(q, i, c)
      BY <1>10, <1>13
    <3>2. m.type = "answer" /\ c = c0
      BY <1>11, <1>a, <3>1
    <3> QED
      BY <1>10, <3>2
  <2>4. \A i, j, c : AnswerTo(q, i, c)' /\ AnswerTo(q, j, c)' => i = j
    BY <1>10, <1>11, <1>13, <1>a
  <2>5. \A i, c : AnswerTo(q, i, c)' => c \in 1..Len(sent'[q])
    BY <1>3, <1>10, <1>11, <1>13, <1>a DEF E
  <2>6. running'[q] /\ waiting'[q] # 0 => open'[q]
    BY <1>7, <1>13
  <2> QED
    BY <1>17, <2>1, <2>2, <2>3, <2>4, <2>5, <2>6 DEF OneCall
<1> QED
  BY <1>1, <1>18, <1>19 DEF Calls

\* Every step keeps calls and answers matched.
LEMMA CallsNext ==
    ASSUME Types, Bounds, Lines, Calls, NEW e \in Endpoint,
           Transport(e) \/ MainThread(e) \/ Application(e) \/ Crash(e)
    PROVE  Calls'
<1>1. CASE \E m \in Message : Post(e, m)
  <2>1. CASE HandlerReturns(e)
    <3> DEFINE m == [type |-> "answer", of |-> current[e]]
    <3>1. ~UNCHANGED sent
      BY <1>1, WhoPosts
    <3>2. Post(e, m) /\ open[e] /\ Incoming(e)[current[e]].type = "call"
      BY <2>1, <3>1 DEF HandlerReturns
    <3>3. /\ UNCHANGED <<taken, messages, unprocessed, open, running, waiting>>
          /\ current[e] # 0 /\ waiting[e] = 0 /\ current' = [current EXCEPT ![e] = 0]
      BY <2>1 DEF HandlerReturns, InHandler
    <3>4. current'[e] = 0 /\ m \in Message
      BY <3>3 DEF Types, Message
    <3>5. m.type = "answer" /\ m.of = current[e] /\ m.type # "call"
      OBVIOUS
    <3> HIDE DEF m
    <3> QED
      BY <3>2, <3>3, <3>4, <3>5, PostCalls
  <2>2. CASE PostMessage(e)
    <3>1. PICK m \in {[type |-> "post", of |-> 0], [type |-> "malformed", of |-> 0]} : Post(e, m)
      BY <2>2 DEF PostMessage
    <3>2. m \in Message /\ m.type # "call" /\ m.type # "answer"
      BY DEF Message
    <3>3. /\ UNCHANGED <<taken, messages, unprocessed, open, running, waiting, current>>
          /\ open[e] /\ waiting[e] = 0
      BY <2>2 DEF PostMessage, InApplication, InHandler, Idle
    <3> QED
      BY <3>1, <3>2, <3>3, PostCalls
  <2>3. CASE SendSync(e)
    <3> DEFINE m == [type |-> "call", of |-> 0]
    <3>1. /\ UNCHANGED <<taken, messages, unprocessed, open, running, current>>
          /\ open[e] /\ waiting[e] = 0 /\ waiting' = [waiting EXCEPT ![e] = Len(sent[e]) + 1]
          /\ Post(e, m)
      BY <2>3 DEF SendSync, InApplication, InHandler, Idle
    <3>2. m \in Message /\ m.type = "call" /\ m.type # "answer"
      BY DEF Message
    <3> HIDE DEF m
    <3> QED
      BY <3>1, <3>2, PostCalls
  <2> QED
    BY <1>1, <2>1, <2>2, <2>3, WhoPosts
<1>2. CASE UNCHANGED sent
  <2>1. \A p \in Endpoint : \A i : /\ Unread(p, i)' => Unread(p, i)
                                   /\ Pending(p, i)' => Pending(p, i)
    BY <1>2, UnreadShrinks
  <2>2. \A p \in Endpoint : /\ Incoming(p)' = Incoming(p)
                            /\ \A i : IsAnswer(p, i)' <=> IsAnswer(p, i)
                            /\ \A i, c : AnswerTo(p, i, c)' <=> AnswerTo(p, i, c)
    BY <1>2 DEF Incoming, IsAnswer, AnswerTo
  <2>3. \A p \in Endpoint : Peer(p) \in Endpoint /\ Peer(p)' = Peer(p)
    BY PeerLemma DEF Peer
  <2>d. waiting \in [Endpoint -> Nat] /\ open \in [Endpoint -> BOOLEAN] /\ running \in [Endpoint -> BOOLEAN]
    BY DEF Types
  <2>4. ASSUME NEW p \in Endpoint, OneCall(p),
               \A i : Unread(p, i)' /\ IsAnswer(p, i) /\ open'[p] => Incoming(p)[i].of = waiting'[p],
               \A c : Pending(Peer(p), c)' /\ sent[p][c].type = "call" /\ open'[p] => c = waiting'[p],
               running'[p] /\ waiting'[p] # 0 => open'[p]
        PROVE  OneCall(p)'
    <3>1. /\ \A c, i : Pending(Peer(p), c) /\ sent[p][c].type = "call" => ~AnswerTo(p, i, c)
          /\ \A i, j, c : AnswerTo(p, i, c) /\ AnswerTo(p, j, c) => i = j
          /\ \A i, c : AnswerTo(p, i, c) => c \in 1..Len(sent[p])
      BY <2>4 DEF OneCall
    <3>2. \A c : Pending(Peer(p), c)' => Pending(Peer(p), c)
      BY <2>1, <2>3
    <3>3. \A c, i : Pending(Peer(p), c)' /\ sent'[p][c].type = "call" => ~AnswerTo(p, i, c)'
      BY <1>2, <2>2, <3>1, <3>2
    <3>4. /\ \A i, j, c : AnswerTo(p, i, c)' /\ AnswerTo(p, j, c)' => i = j
          /\ \A i, c : AnswerTo(p, i, c)' => c \in 1..Len(sent'[p])
      BY <1>2, <2>2, <3>1
    <3>5. \A i : Unread(p, i)' /\ IsAnswer(p, i)' /\ open'[p] => Incoming(p)'[i].of = waiting'[p]
      BY <2>2, <2>4
    <3>6. \A c : Pending(Peer(p), c)' /\ sent'[p][c].type = "call" /\ open'[p] => c = waiting'[p]
      BY <1>2, <2>4
    <3>7. Peer(p)' = Peer(p)
      BY <2>3
    <3> QED
      BY <2>4, <3>3, <3>4, <3>5, <3>6, <3>7 DEF OneCall
  <2>5. ASSUME NEW p \in Endpoint, open'[p] => open[p] /\ waiting'[p] = waiting[p],
               running'[p] /\ waiting'[p] # 0 => open'[p]
        PROVE  OneCall(p)'
    <3>1. OneCall(p)
      BY DEF Calls
    <3>2. \A i : Unread(p, i)' /\ IsAnswer(p, i) /\ open'[p] => Incoming(p)[i].of = waiting'[p]
      BY <2>1, <2>5, <3>1 DEF OneCall
    <3>3. \A c : Pending(Peer(p), c)' /\ sent[p][c].type = "call" /\ open'[p] => c = waiting'[p]
      BY <2>1, <2>3, <2>5, <3>1 DEF OneCall
    <3> QED
      BY <2>4, <2>5, <3>1, <3>2, <3>3
  <2>6. ASSUME NEW p \in Endpoint, p # e PROVE OneCall(p)'
    <3>1. open'[p] = open[p] /\ waiting'[p] = waiting[p] /\ running'[p] = running[p]
      BY <2>6, OnlyOwn
    <3>2. running[p] /\ waiting[p] # 0 => open[p]
      BY DEF Calls, OneCall
    <3> QED
      BY <2>5, <3>1, <3>2
  <2>7. CASE UNCHANGED <<open, waiting, running>>
    <3>1. running[e] /\ waiting[e] # 0 => open[e]
      BY DEF Calls, OneCall
    <3>2. OneCall(e)'
      BY <2>5, <2>7, <3>1
    <3> QED
      BY <2>6, <3>2 DEF Calls
  <2>8. CASE RunShutdown(e) \/ DidMisbehave(e) \/ WaitUntilEof(e)
    <3>1. Shutdown(e)
      BY <2>8 DEF RunShutdown, DidMisbehave, WaitUntilEof
    <3>2. ~open'[e]
      BY <3>1, ShutdownEffect
    <3>3. waiting'[e] = 0
      BY <2>8, <2>d DEF RunShutdown, DidMisbehave, WaitUntilEof, Return, Idle, InHandler
    <3>4. OneCall(e)'
      BY <2>5, <3>2, <3>3
    <3> QED
      BY <2>6, <3>4 DEF Calls
  <2>9. CASE Crash(e)
    <3>1. ~open'[e] /\ ~running'[e]
      BY <2>9, <2>d, CloseEffect DEF Crash
    <3>2. OneCall(e)'
      BY <2>5, <3>1
    <3> QED
      BY <2>6, <3>2 DEF Calls
  <2>10. CASE TakeAnswer(e)
    <3> DEFINE u == unprocessed[e]
               w == waiting[e]
    <3>1. PICK k \in Answers(e) : unprocessed' = [unprocessed EXCEPT ![e] = Without(@, k)]
      BY <2>10 DEF TakeAnswer
    <3> DEFINE a == u[k]
    <3>2. /\ running[e] /\ w # 0 /\ waiting'[e] = 0
          /\ UNCHANGED <<open, running, taken, messages, current>>
          /\ unprocessed'[e] = Without(u, k)
      BY <2>10, <2>d, <3>1 DEF TakeAnswer, Return, transport, Types
    <3>3. u \in Seq(Nat) /\ k \in 1..Len(u) /\ Ascending(u) /\ IsAnswer(e, a) /\ Holds(u, a)
      BY DEF Types, Lines, InLine, Answers, Holds
    <3>4. open[e]
      BY <3>2 DEF Calls, OneCall
    <3>5. Unread(e, a)
      <4>1. a \in 1..taken[e]
        BY <3>3 DEF Lines, InLine
      <4>2. Peer(e) \in Endpoint
        BY PeerLemma
      <4>3. taken[e] <= arrived[e] /\ arrived[e] <= leaves[Peer(e)] /\ leaves[Peer(e)] <= Len(sent[Peer(e)])
        BY <4>2 DEF Bounds
      <4>4. /\ taken[e] \in Nat /\ arrived[e] \in Nat /\ leaves[Peer(e)] \in Nat
            /\ Len(sent[Peer(e)]) \in Nat
        BY <4>2 DEF Types
      <4>5. a \in 1..Len(Incoming(e))
        BY <4>1, <4>3, <4>4 DEF Incoming
      <4> QED
        BY <3>3, <4>5 DEF Unread
    <3>6. Incoming(e)[a].of = w /\ a \in 1..Len(Incoming(e))
      BY <3>3, <3>4, <3>5 DEF Calls, OneCall, Unread
    <3>7. AnswerTo(e, a, w)
      BY <3>3, <3>6 DEF AnswerTo
    \* No other answer is on its way ...
    <3>8. \A i : ~(Unread(e, i)' /\ IsAnswer(e, i))
      <4> SUFFICES ASSUME NEW i, Unread(e, i)', IsAnswer(e, i) PROVE FALSE
        OBVIOUS
      <4>1. Unread(e, i)
        BY <2>1
      <4>2. Incoming(e)[i].of = w /\ i \in 1..Len(Incoming(e))
        BY <3>4, <4>1 DEF Calls, OneCall, Unread
      <4>3. AnswerTo(e, i, w)
        BY <4>2 DEF AnswerTo
      <4>4. i = a
        BY <3>7, <4>3 DEF Calls, OneCall
      <4>5. \/ i > taken[e] \/ Holds(messages[e], i) \/ Holds(Without(u, k), i)
        BY <3>2 DEF Unread
      <4>6. ~Holds(Without(u, k), i)
        BY <3>3, <4>4, WithoutKeeps
      <4>7. a \in 1..taken[e] /\ (Holds(messages[e], a) => a < a)
        BY <3>3 DEF Lines, InLine
      <4>8. taken[e] \in Nat
        BY DEF Types
      <4> QED
        BY <4>4, <4>5, <4>6, <4>7, <4>8
    \* ... and the peer has no call left to answer.
    <3>9. \A c : ~(Pending(Peer(e), c) /\ sent[e][c].type = "call")
      BY <3>4, <3>7 DEF Calls, OneCall
    <3>10. \A c : ~(Pending(Peer(e), c)' /\ sent[e][c].type = "call")
      BY <2>1, <2>3, <3>9
    <3>11. OneCall(e)'
      BY <2>4, <3>2, <3>8, <3>10 DEF Calls
    <3> QED
      BY <2>6, <3>11 DEF Calls
  <2>11. \/ Publish(e) \/ ReachEof(e) \/ Pump(e) \/ RunHook(e) \/ RunHandleMessages(e)
         \/ HandleNext(e) \/ HandlerReturns(e) \/ HandlerFails(e) \/ WaitAndDrain(e)
         \/ PostMessage(e) \/ SendSyncWhenClosed(e)
         => UNCHANGED <<open, waiting, running>>
    BY DEF Publish, ReachEof, Pump, RunHook, RunHandleMessages, HandleNext, HandlerReturns,
           HandlerFails, WaitAndDrain, PostMessage, SendSyncWhenClosed, transport
  <2>12. ~SendSync(e)
    <3> SUFFICES ASSUME SendSync(e) PROVE FALSE
      OBVIOUS
    <3> DEFINE m == [type |-> "call", of |-> 0]
    <3>1. Post(e, m) /\ m \in Message
      BY DEF SendSync, Message
    <3> QED
      BY <1>2, <3>1, WhoPosts
  <2> QED
    BY <2>7, <2>8, <2>9, <2>10, <2>11, <2>12 DEF Transport, MainThread, Application
<1> QED
  BY <1>1, <1>2, WhoPosts

\* Every step keeps the results right: the answer that ends a call is the answer to it.
LEMMA ResultsNext ==
    ASSUME Types, Bounds, Lines, Calls, ResultsMatch, NEW e \in Endpoint,
           Transport(e) \/ MainThread(e) \/ Application(e) \/ Crash(e)
    PROVE  ResultsMatch'
<1> DEFINE R == [call : Nat, answer : Nat]
           Right(p, r) == /\ r.call <= Len(sent[p]) /\ r.answer <= taken[p]
                          /\ r.answer # 0 => Incoming(p)[r.answer].of = r.call
           RightAfter(p, r) == /\ r.call <= Len(sent'[p]) /\ r.answer <= taken'[p]
                               /\ r.answer # 0 => Incoming(p)'[r.answer].of = r.call
<1>1. \A p \in Endpoint : /\ Len(sent[p]) \in Nat /\ Len(sent'[p]) \in Nat
                          /\ Len(sent[p]) <= Len(sent'[p])
  BY SentGrows
<1>2. \A p \in Endpoint : /\ taken[p] \in Nat /\ taken'[p] \in Nat /\ arrived[p] \in Nat
                          /\ taken[p] <= taken'[p] /\ taken[p] <= arrived[p]
  <2>1. \A p \in Endpoint : taken[p] \in Nat /\ arrived[p] \in Nat /\ taken[p] <= arrived[p]
    BY DEF Types, Bounds
  <2>2. taken' = taken \/ taken' = [taken EXCEPT ![e] = arrived[e]]
    BY DEF Transport, MainThread, Application, Publish, ReachEof, Pump, RunHook, RunHandleMessages,
           RunShutdown, HandleNext, HandlerReturns, TakeAnswer, WaitAndDrain, WaitUntilEof,
           HandlerFails, DidMisbehave, PostMessage, SendSync, SendSyncWhenClosed, Crash, Drain,
           transport
  <2>3. \A p \in Endpoint : taken'[p] = taken[p] \/ taken'[p] = arrived[p]
    BY <2>2 DEF Types
  <2> QED
    BY <2>1, <2>3
<1>3. \A p \in Endpoint : \A x \in 1..arrived[p] : Incoming(p)'[x] = Incoming(p)[x]
  BY IncomingKept
<1>4. ASSUME NEW p \in Endpoint, NEW r \in R, Right(p, r) PROVE RightAfter(p, r)
  <2>1. r.call \in Nat /\ r.answer \in Nat
    OBVIOUS
  <2>2. r.answer # 0 => r.answer \in 1..arrived[p]
    BY <1>2, <1>4, <2>1
  <2>3. r.call <= Len(sent'[p])
    BY <1>1, <1>4, <2>1
  <2>4. r.answer <= taken'[p]
    BY <1>2, <1>4, <2>1
  <2> QED
    BY <1>3, <1>4, <2>2, <2>3, <2>4
<1>5. \A p \in Endpoint : results[p] \in Seq(R) /\ Len(results[p]) \in Nat
  BY DEF Types
<1>6. \A p \in Endpoint : \A k \in 1..Len(results[p]) : results[p][k] \in R /\ Right(p, results[p][k])
  BY <1>5, ElementOfSeq DEF ResultsMatch
<1> HIDE DEF R, Right
<1>7. \A p \in Endpoint : \A k \in 1..Len(results[p]) : RightAfter(p, results[p][k])
  BY <1>4, <1>6
<1> SUFFICES ASSUME NEW p \in Endpoint, NEW k \in 1..Len(results'[p])
             PROVE  RightAfter(p, results'[p][k])
  BY DEF ResultsMatch
<1> HIDE DEF RightAfter
<1>8. CASE results'[p] = results[p]
  BY <1>7, <1>8
<1>9. ASSUME NEW r \in R, Right(e, r), results' = [results EXCEPT ![e] = Append(@, r)]
      PROVE  RightAfter(p, results'[p][k])
  <2>1. CASE p # e
    <3>1. results'[p] = results[p]
      BY <1>9, <2>1 DEF Types
    <3> QED
      BY <1>8, <3>1
  <2>2. CASE p = e
    <3>1. results'[e] = Append(results[e], r)
      BY <1>9 DEF Types
    <3>2. /\ Len(results'[e]) = Len(results[e]) + 1
          /\ \A i \in 1..Len(results[e]) : results'[e][i] = results[e][i]
          /\ results'[e][Len(results[e]) + 1] = r
      BY <1>5, <3>1, AppendProperties
    <3>3. k \in 1..Len(results[e]) \/ k = Len(results[e]) + 1
      BY <1>5, <2>2, <3>2
    <3>4. RightAfter(e, r)
      BY <1>4, <1>9
    <3> QED
      BY <1>7, <2>2, <3>2, <3>3, <3>4
  <2> QED
    BY <2>1, <2>2
<1>10. waiting[e] \in Nat /\ waiting[e] <= Len(sent[e]) /\ 0 <= Len(sent[e]) /\ 0 <= taken[e]
  <2>1. waiting[e] \in Nat /\ waiting[e] <= Len(sent[e])
    BY DEF Types, Bounds
  <2> QED
    BY <1>1, <1>2, <2>1
<1>11. CASE WaitUntilEof(e)
  <2>1. results' = [results EXCEPT ![e] = Append(@, [call |-> waiting[e], answer |-> 0])]
    BY <1>11 DEF WaitUntilEof, Return
  <2>2. [call |-> waiting[e], answer |-> 0] \in R /\ Right(e, [call |-> waiting[e], answer |-> 0])
    BY <1>10 DEF R, Right
  <2> QED
    BY <1>9, <2>1, <2>2
<1>12. CASE SendSyncWhenClosed(e)
  <2>1. results' = [results EXCEPT ![e] = Append(@, [call |-> 0, answer |-> 0])]
    BY <1>12 DEF SendSyncWhenClosed
  <2>2. [call |-> 0, answer |-> 0] \in R /\ Right(e, [call |-> 0, answer |-> 0])
    BY <1>10 DEF R, Right
  <2> QED
    BY <1>9, <2>1, <2>2
<1>13. CASE TakeAnswer(e)
  <2>1. PICK j \in Answers(e) :
            results' = [results EXCEPT ![e] = Append(@, [call |-> waiting[e], answer |-> unprocessed[e][j]])]
    BY <1>13 DEF TakeAnswer, Return
  <2> DEFINE a == unprocessed[e][j]
  <2>2. unprocessed[e] \in Seq(Nat) /\ Holds(unprocessed[e], a) /\ IsAnswer(e, a)
    BY DEF Types, Answers, Holds
  <2>3. a \in 1..taken[e]
    BY <2>2 DEF Lines, InLine
  <2>4. Unread(e, a)
    <3>1. Peer(e) \in Endpoint
      BY PeerLemma
    <3>2. arrived[e] <= leaves[Peer(e)] /\ leaves[Peer(e)] <= Len(sent[Peer(e)])
      BY <3>1 DEF Bounds
    <3>3. leaves[Peer(e)] \in Nat /\ Len(sent[Peer(e)]) \in Nat
      BY <3>1 DEF Types
    <3>4. a \in 1..Len(Incoming(e))
      BY <1>2, <2>3, <3>2, <3>3 DEF Incoming
    <3> QED
      BY <2>2, <3>4 DEF Unread
  <2>5. open[e]
    BY <1>13 DEF TakeAnswer, Calls, OneCall
  <2>6. Incoming(e)[a].of = waiting[e]
    BY <2>2, <2>4, <2>5 DEF Calls, OneCall
  <2>7. a \in Nat /\ a <= taken[e]
    BY <1>2, <2>3
  <2> HIDE DEF a
  <2>8. [call |-> waiting[e], answer |-> a] \in R /\ Right(e, [call |-> waiting[e], answer |-> a])
    BY <1>10, <2>6, <2>7 DEF R, Right
  <2> QED
    BY <1>9, <2>1, <2>8 DEF a
<1>14. \/ Publish(e) \/ ReachEof(e) \/ Pump(e) \/ RunHook(e) \/ RunHandleMessages(e)
       \/ RunShutdown(e) \/ HandleNext(e) \/ HandlerReturns(e) \/ HandlerFails(e)
       \/ DidMisbehave(e) \/ WaitAndDrain(e) \/ PostMessage(e) \/ SendSync(e) \/ Crash(e)
       => UNCHANGED results
  BY DEF Publish, ReachEof, Pump, RunHook, RunHandleMessages, RunShutdown, HandleNext,
         HandlerReturns, HandlerFails, DidMisbehave, WaitAndDrain, PostMessage, SendSync, Crash
<1> QED
  BY <1>8, <1>11, <1>12, <1>13, <1>14 DEF Transport, MainThread, Application
-----------------------------------------------------------------------------
(* The theorems.                                                           *)

\* A connection starts with nothing posted, read or called.
LEMMA ConnectionInit == Init => ConnectionInv
<1> SUFFICES ASSUME Init PROVE ConnectionInv
  OBVIOUS
<1>0. \A p \in Endpoint : Peer(p) \in Endpoint
  BY PeerLemma
<1>1. Types
  BY DEF Init, Types
<1>2. \A p \in Endpoint :
         /\ sent[p] = <<>> /\ leaves[p] = 0 /\ arrived[p] = 0 /\ taken[p] = 0
         /\ unprocessed[p] = <<>> /\ messages[p] = <<>> /\ handled[p] = <<>>
         /\ results[p] = <<>> /\ current[p] = 0 /\ waiting[p] = 0
  BY DEF Init
<1>3. \A x : ~Holds(<<>>, x)
  BY DEF Holds
<1>4. Ascending(<<>>) /\ Len(<<>>) = 0 /\ 1..0 = {}
  BY DEF Ascending
<1>5. Bounds
  BY <1>0, <1>2, <1>4 DEF Bounds
<1>6. Lines
  BY <1>2, <1>3, <1>4 DEF Lines, InLine
<1>7. \A p \in Endpoint : Incoming(p) = <<>>
  BY <1>0, <1>2 DEF Incoming
<1>8. \A p \in Endpoint : \A i : ~Unread(p, i) /\ ~Pending(p, i) /\ \A c : ~AnswerTo(p, i, c)
  BY <1>2, <1>4, <1>7 DEF Unread, Pending, AnswerTo
<1>9. Calls
  BY <1>0, <1>2, <1>8 DEF Calls, OneCall
<1>10. ResultsMatch
  BY <1>2, <1>4 DEF ResultsMatch
<1> QED
  BY <1>1, <1>5, <1>6, <1>9, <1>10 DEF ConnectionInv

\* The invariant holds in every state of a connection, whatever the two ends do.
THEOREM ConnectionInvariance == Spec => []ConnectionInv
<1>1. ASSUME ConnectionInv, [Next]_vars PROVE ConnectionInv'
  <2>1. CASE UNCHANGED vars
    <3>1. /\ sent' = sent /\ leaves' = leaves /\ arrived' = arrived /\ taken' = taken
          /\ open' = open /\ io' = io /\ notify_pipe' = notify_pipe /\ queued' = queued
          /\ events' = events /\ unprocessed' = unprocessed /\ messages' = messages
          /\ current' = current /\ waiting' = waiting /\ running' = running
          /\ handled' = handled /\ results' = results
      BY <2>1 DEF vars, transport, loop
    <3>2. Types' /\ Bounds' /\ ResultsMatch'
      BY <1>1, <3>1 DEF ConnectionInv, Types, Bounds, ResultsMatch, Incoming
    <3>3. Lines'
      BY <1>1, <3>1 DEF ConnectionInv, Lines, InLine, Incoming, IsRequest
    <3>4. Calls'
      BY <1>1, <3>1 DEF ConnectionInv, Calls, OneCall, Unread, Pending, AnswerTo, Incoming, IsAnswer
    <3> QED
      BY <3>2, <3>3, <3>4 DEF ConnectionInv
  <2>2. CASE Next
    <3>1. PICK e \in Endpoint : Transport(e) \/ MainThread(e) \/ Application(e) \/ Crash(e)
      BY <2>2 DEF Next
    <3>2. Types /\ Bounds /\ Lines /\ Calls /\ ResultsMatch
      BY <1>1 DEF ConnectionInv
    <3>3. Types'
      BY <3>1, <3>2, TypesNext
    <3>4. Bounds'
      BY <3>1, <3>2, <3>3, BoundsNext
    <3>5. Lines'
      BY <3>1, <3>2, LinesNext
    <3>6. Calls'
      BY <3>1, <3>2, CallsNext
    <3>7. ResultsMatch'
      BY <3>1, <3>2, ResultsNext
    <3> QED
      BY <3>3, <3>4, <3>5, <3>6, <3>7 DEF ConnectionInv
  <2> QED
    BY <1>1, <2>1, <2>2
<1> QED
  BY <1>1, ConnectionInit, PTL DEF Spec

\* A sequence of positive numbers that are at most n is a sequence over 1..n.
LEMMA HeldValues ==
    ASSUME NEW s \in Seq(Nat), NEW n \in Nat, \A x : Holds(s, x) => x \in 1..n
    PROVE  s \in Seq(1..n)
<1>1. \A k \in 1..Len(s) : s[k] \in 1..n
  BY DEF Holds
<1> QED
  BY <1>1

\* Type correctness of a connection, with the counters of what was posted, published and read
\* in their order.
THEOREM ConnectionTypeOK == Spec => []TypeOK
<1>1. ConnectionInv => TypeOK
  <2> SUFFICES ASSUME ConnectionInv PROVE TypeOK
    OBVIOUS
  <2>1. ASSUME NEW e \in Endpoint
        PROVE  /\ unprocessed[e] \in Seq(1..taken[e]) /\ messages[e] \in Seq(1..taken[e])
               /\ handled[e] \in Seq(1..taken[e]) /\ current[e] <= taken[e]
    <3>1. /\ taken[e] \in Nat /\ current[e] \in Nat
          /\ unprocessed[e] \in Seq(Nat) /\ messages[e] \in Seq(Nat) /\ handled[e] \in Seq(Nat)
      BY DEF ConnectionInv, Types
    <3>2. /\ \A x : Holds(unprocessed[e], x) => x \in 1..taken[e]
          /\ \A x : Holds(messages[e], x) => x \in 1..taken[e]
          /\ \A x : Holds(handled[e], x) => x \in 1..taken[e]
          /\ current[e] # 0 => current[e] \in 1..taken[e]
      BY DEF ConnectionInv, Lines, InLine
    <3>3. unprocessed[e] \in Seq(1..taken[e])
      BY <3>1, <3>2, HeldValues
    <3>4. messages[e] \in Seq(1..taken[e])
      BY <3>1, <3>2, HeldValues
    <3>5. handled[e] \in Seq(1..taken[e])
      BY <3>1, <3>2, HeldValues
    <3> QED
      BY <3>1, <3>2, <3>3, <3>4, <3>5
  <2>2. ASSUME NEW e \in Endpoint
        PROVE  results[e] \in Seq([call : 0..Len(sent[e]), answer : 0..taken[e]])
    <3> DEFINE R == [call : 0..Len(sent[e]), answer : 0..taken[e]]
    <3>1. results[e] \in Seq([call : Nat, answer : Nat]) /\ Len(sent[e]) \in Nat /\ taken[e] \in Nat
      BY DEF ConnectionInv, Types
    <3>2. \A k \in 1..Len(results[e]) :
              /\ results[e][k] \in [call : Nat, answer : Nat]
              /\ results[e][k].call <= Len(sent[e]) /\ results[e][k].answer <= taken[e]
      BY <3>1, ElementOfSeq DEF ConnectionInv, ResultsMatch
    <3>3. \A k \in 1..Len(results[e]) : results[e][k] \in R
      BY <3>1, <3>2
    <3> HIDE DEF R
    <3>4. results[e] \in [1..Len(results[e]) -> R] /\ Len(results[e]) \in Nat
      BY <3>1, <3>3
    <3>5. results[e] \in Seq(R)
      BY <3>4
    <3> QED
      BY <3>5 DEF R
  <2> QED
    BY <2>1, <2>2 DEF TypeOK, ConnectionInv, Types, Bounds
<1> QED
  BY <1>1, ConnectionInvariance, PTL

\* Every request that is read is dispatched exactly once and in the order in which the peer
\* posted it, for any number of posts, calls and failures of either end.
THEOREM ConnectionDispatchedInOrder == Spec => []DispatchedInOrder
<1>1. ConnectionInv => DispatchedInOrder
  <2> SUFFICES ASSUME ConnectionInv, NEW e \in Endpoint
               PROVE  LET line == handled[e] \o messages[e] \o unprocessed[e] IN
                      /\ \A j, k \in 1..Len(line) : j < k => line[j] < line[k]
                      /\ \A i \in 1..taken[e] : IsRequest(e, i) => \E k \in 1..Len(line) : line[k] = i
    BY DEF DispatchedInOrder
  <2> DEFINE h == handled[e]
             m == messages[e]
             u == unprocessed[e]
  <2>1. h \in Seq(Nat) /\ m \in Seq(Nat) /\ u \in Seq(Nat)
    BY DEF ConnectionInv, Types
  <2>2. /\ Ascending(h) /\ Ascending(m) /\ Ascending(u)
        /\ \A x, y : Holds(h, x) /\ Holds(m, y) => x < y
        /\ \A x, y : Holds(h, x) /\ Holds(u, y) => x < y
        /\ \A x, y : Holds(m, x) /\ Holds(u, y) => x < y
        /\ \A x \in 1..taken[e] : IsRequest(e, x) => Holds(h, x) \/ Holds(m, x) \/ Holds(u, x)
    BY DEF ConnectionInv, Lines, InLine
  <2> HIDE DEF h, m, u
  <2>3. h \o m \in Seq(Nat) /\ Ascending(h \o m)
    BY <2>1, <2>2, ConcatAscends, ConcatProperties
  <2>4. \A x : Holds(h \o m, x) <=> Holds(h, x) \/ Holds(m, x)
    BY <2>1, ConcatHolds
  <2>5. Ascending((h \o m) \o u)
    BY <2>1, <2>2, <2>3, <2>4, ConcatAscends
  <2>6. \A x : Holds((h \o m) \o u, x) <=> Holds(h \o m, x) \/ Holds(u, x)
    BY <2>1, <2>3, ConcatHolds
  <2>7. \A i \in 1..taken[e] : IsRequest(e, i) => Holds((h \o m) \o u, i)
    BY <2>2, <2>4, <2>6
  <2> QED
    BY <2>5, <2>7 DEF Ascending, Holds, h, m, u
<1> QED
  BY <1>1, ConnectionInvariance, PTL

\* A call that succeeds has got the answer to itself: no answer of an earlier call, and none
\* meant for a call that failed, is left to be taken for it.
THEOREM ConnectionAnswerIsToThisCall == Spec => []AnswerIsToThisCall
<1>1. ConnectionInv => AnswerIsToThisCall
  BY DEF ConnectionInv, ResultsMatch, AnswerIsToThisCall
<1> QED
  BY <1>1, ConnectionInvariance, PTL
-----------------------------------------------------------------------------
(* Nothing that was read or heard of is forgotten.                         *)

\* An event that was posted and has not run.
Scheduled(e, event) == Holds(queued[e], event) \/ Holds(events[e], event)

\* The messages that nobody has looked at yet, and what will make somebody look.
WorkScheduled(e) ==
    /\ arrived[e] > taken[e] => notify_pipe[e]
    /\ unprocessed[e] # <<>> => Scheduled(e, "handle")

\* The reasons to shut down, and what will do it.
EndScheduled(e) ==
    /\ open[e] /\ io[e] # "running" => notify_pipe[e] \/ Scheduled(e, "shutdown")
    /\ open[e] /\ (\E i \in 1..taken[e] : Incoming(e)[i].type = "malformed") =>
            Scheduled(e, "shutdown")

\* What the IO thread has concluded about the peer stays true.
EofIsFinal(e) ==
    /\ open[e] /\ io[e] # "running" => ~open[Peer(e)]
    /\ open[e] /\ io[e] = "stopped" => arrived[e] = leaves[Peer(e)]

Owed(e) == WorkScheduled(e) /\ EndScheduled(e) /\ EofIsFinal(e)
NothingForgotten == \A e \in Endpoint : Owed(e)

\* Running one event takes no other away.
LEMMA TailHolds ==
    ASSUME NEW S, NEW s \in Seq(S), s # <<>>, NEW x, x # Head(s), Holds(s, x)
    PROVE  Holds(Tail(s), x)
<1>1. /\ Head(s) = s[1] /\ Len(s) \in Nat /\ Len(s) >= 1
      /\ Len(Tail(s)) = Len(s) - 1
      /\ \A i \in 1..Len(Tail(s)) : Tail(s)[i] = s[i + 1]
  BY HeadTailProperties
<1>2. PICK i \in 1..Len(s) : s[i] = x
  BY DEF Holds
<1>3. i # 1
  BY <1>1, <1>2
<1>4. i - 1 \in 1..Len(Tail(s)) /\ Tail(s)[i - 1] = x
  BY <1>1, <1>2, <1>3
<1> QED
  BY <1>4 DEF Holds

\* drain_messages_from_peer posts an event for what it has read, and one if the connection has to
\* end; those that were posted stay.
LEMMA DrainSchedules ==
    ASSUME Types, Bounds, NEW e \in Endpoint, Drain(e)
    PROVE  /\ \A v : Holds(queued[e], v) => Holds(queued'[e], v)
           /\ unprocessed[e] \o Parsed(e) # <<>> => Holds(queued'[e], "handle")
           /\ ShouldShutdown(e) => Holds(queued'[e], "shutdown")
           /\ taken'[e] = arrived[e]
<1> DEFINE E == {"handle", "shutdown"}
           x == IF unprocessed[e] \o Parsed(e) # <<>> THEN <<"handle">> ELSE <<>>
           y == IF ShouldShutdown(e) THEN <<"shutdown">> ELSE <<>>
<1>1. x \in Seq(E) /\ y \in Seq(E)
  <2>1. <<"handle">> \in Seq(E) /\ <<"shutdown">> \in Seq(E) /\ <<>> \in Seq(E)
    OBVIOUS
  <2> HIDE DEF E
  <2> QED
    BY <2>1
<1>2. queued' = [queued EXCEPT ![e] = (@ \o x) \o y] /\ taken' = [taken EXCEPT ![e] = arrived[e]]
  BY DEF Drain
<1>3. queued \in [Endpoint -> Seq(E)] /\ taken \in [Endpoint -> Nat]
  BY DEF Types
<1>4. \A v : Holds(<<v>>, v)
  BY DEF Holds
<1>5. unprocessed[e] \o Parsed(e) # <<>> => Holds(x, "handle")
  BY <1>4
<1>6. ShouldShutdown(e) => Holds(y, "shutdown")
  BY <1>4
<1> HIDE DEF E, x, y
<1>7. queued'[e] = (queued[e] \o x) \o y /\ taken'[e] = arrived[e]
  BY <1>2, <1>3
<1>8. queued[e] \in Seq(E) /\ queued[e] \o x \in Seq(E)
  BY <1>1, <1>3, ConcatProperties
<1>9. ASSUME NEW v
      PROVE  Holds(queued'[e], v) <=> Holds(queued[e], v) \/ Holds(x, v) \/ Holds(y, v)
  <2>1. Holds(queued[e] \o x, v) <=> Holds(queued[e], v) \/ Holds(x, v)
    BY <1>1, <1>8, ConcatHolds
  <2>2. Holds((queued[e] \o x) \o y, v) <=> Holds(queued[e] \o x, v) \/ Holds(y, v)
    <3> DEFINE z == queued[e] \o x
    <3> HIDE DEF z
    <3>1. z \in Seq(E)
      BY <1>8 DEF z
    <3>2. Holds(z \o y, v) <=> Holds(z, v) \/ Holds(y, v)
      BY <1>1, <3>1, ConcatHolds
    <3> QED
      BY <3>2 DEF z
  <2> QED
    BY <1>7, <2>1, <2>2
<1> QED
  BY <1>5, <1>6, <1>7, <1>9

\* The event loop, the hook's pipe and the IO thread belong to their end too; an end that has
\* closed stays closed, and no more messages leave it.
LEMMA LoopIsOwn ==
    ASSUME Types, NEW e \in Endpoint,
           Transport(e) \/ MainThread(e) \/ Application(e) \/ Crash(e)
    PROVE  \A p \in Endpoint :
              /\ p # e => /\ queued'[p] = queued[p] /\ events'[p] = events[p]
                          /\ io'[p] = io[p] /\ notify_pipe'[p] = notify_pipe[p]
              /\ open'[p] => open[p]
              /\ ~open[p] => leaves'[p] = leaves[p]
<1> SUFFICES ASSUME NEW p \in Endpoint
             PROVE  /\ p # e => /\ queued'[p] = queued[p] /\ events'[p] = events[p]
                                /\ io'[p] = io[p] /\ notify_pipe'[p] = notify_pipe[p]
                    /\ open'[p] => open[p]
                    /\ ~open[p] => leaves'[p] = leaves[p]
  OBVIOUS
<1>d. /\ p \in DOMAIN queued /\ p \in DOMAIN events /\ p \in DOMAIN io
      /\ p \in DOMAIN notify_pipe /\ p \in DOMAIN open /\ p \in DOMAIN leaves
  BY DEF Types
<1>1. CASE Publish(e)
  BY <1>d, <1>1 DEF Publish, loop
<1>2. CASE ReachEof(e)
  BY <1>d, <1>2 DEF ReachEof, loop
<1>3. CASE Pump(e)
  BY <1>d, <1>3 DEF Pump, transport
<1>4. CASE RunHook(e)
  BY <1>d, <1>4 DEF RunHook, Drain
<1>5. CASE RunHandleMessages(e)
  BY <1>d, <1>5 DEF RunHandleMessages, transport
<1>6. CASE RunShutdown(e)
  BY <1>d, <1>6 DEF RunShutdown, Shutdown, CloseEnd
<1>7. CASE HandleNext(e)
  BY <1>d, <1>7 DEF HandleNext, transport, loop
<1>8. CASE HandlerReturns(e)
  BY <1>d, <1>8 DEF HandlerReturns, Post, loop
<1>9. CASE TakeAnswer(e)
  BY <1>d, <1>9 DEF TakeAnswer, transport, loop
<1>10. CASE WaitAndDrain(e)
  BY <1>d, <1>10 DEF WaitAndDrain, Drain
<1>11. CASE WaitUntilEof(e)
  BY <1>d, <1>11 DEF WaitUntilEof, Drain, Shutdown, CloseEnd
<1>12. CASE HandlerFails(e)
  BY <1>d, <1>12 DEF HandlerFails, transport, loop
<1>13. CASE DidMisbehave(e)
  BY <1>d, <1>13 DEF DidMisbehave, Shutdown, CloseEnd, loop
<1>14. CASE PostMessage(e)
  BY <1>d, <1>14 DEF PostMessage, Post, loop
<1>15. CASE SendSync(e)
  BY <1>d, <1>15 DEF SendSync, Post, loop
<1>16. CASE SendSyncWhenClosed(e)
  BY <1>d, <1>16 DEF SendSyncWhenClosed, transport, loop
<1>17. CASE Crash(e)
  BY <1>d, <1>17 DEF Crash, CloseEnd, loop
<1> QED
  BY <1>1, <1>2, <1>3, <1>4, <1>5, <1>6, <1>7, <1>8, <1>9,
     <1>10, <1>11, <1>12, <1>13, <1>14, <1>15, <1>16, <1>17
  DEF Transport, MainThread, Application

\* What is owed stays so while an end reads nothing, loses no event and has no new reason to
\* shut down.
LEMMA OwedKept ==
    ASSUME Types, Bounds, NEW p \in Endpoint, Owed(p),
           \A x \in 1..arrived[p] : Incoming(p)'[x] = Incoming(p)[x],
           arrived'[p] = arrived[p], taken'[p] = taken[p],
           unprocessed'[p] # <<>> =>
               unprocessed[p] # <<>> /\ (Scheduled(p, "handle") => Scheduled(p, "handle")'),
           Scheduled(p, "shutdown") => Scheduled(p, "shutdown")' \/ ~open'[p],
           notify_pipe[p] => notify_pipe'[p],
           open'[p] => open[p] /\ io'[p] = io[p],
           open'[Peer(p)] => open[Peer(p)],
           ~open[Peer(p)] => leaves'[Peer(p)] = leaves[Peer(p)]
    PROVE  Owed(p)'
<1>1. taken[p] \in Nat /\ arrived[p] \in Nat /\ taken[p] <= arrived[p]
  BY DEF Types, Bounds
<1>2. \A x \in 1..taken[p] : Incoming(p)'[x] = Incoming(p)[x]
  BY <1>1
<1>3. Peer(p)' = Peer(p)
  BY DEF Peer
<1>4. WorkScheduled(p)'
  BY DEF Owed, WorkScheduled
<1>5. EndScheduled(p)'
  BY <1>2 DEF Owed, EndScheduled
<1>6. EofIsFinal(p)'
  BY <1>3 DEF Owed, EofIsFinal
<1> QED
  BY <1>4, <1>5, <1>6 DEF Owed

\* Every step of an end keeps what is owed to it.
LEMMA OwnOwed ==
    ASSUME Types, Bounds, Types', NEW e \in Endpoint, Owed(e),
           Transport(e) \/ MainThread(e) \/ Application(e) \/ Crash(e)
    PROVE  Owed(e)'
<1>a. \A x \in 1..arrived[e] : Incoming(e)'[x] = Incoming(e)[x]
  BY IncomingKept
<1>b. Peer(e) \in Endpoint /\ Peer(e) # e /\ Peer(e)' = Peer(e)
  BY PeerLemma DEF Peer
<1>c. /\ open'[Peer(e)] = open[Peer(e)]
      /\ open'[e] => open[e]
      /\ ~open[Peer(e)] => leaves'[Peer(e)] = leaves[Peer(e)]
  BY <1>b, OnlyOwn, LoopIsOwn
<1>d. /\ taken[e] \in Nat /\ arrived[e] \in Nat /\ taken[e] <= arrived[e]
      /\ events[e] \in Seq({"hook", "handle", "shutdown"})
      /\ queued[e] \in Seq({"handle", "shutdown"})
      /\ open[e] \in BOOLEAN /\ open'[e] \in BOOLEAN
  BY DEF Types, Bounds
<1>e. \A x \in 1..taken[e] : Incoming(e)'[x] = Incoming(e)[x]
  BY <1>a, <1>d
<1>t. /\ events \in [Endpoint -> Seq({"hook", "handle", "shutdown"})]
      /\ arrived \in [Endpoint -> Nat] /\ taken \in [Endpoint -> Nat]
      /\ open \in [Endpoint -> BOOLEAN]
      /\ notify_pipe \in [Endpoint -> BOOLEAN]
      /\ io \in [Endpoint -> {"running", "eof", "stopped"}]
      /\ queued \in [Endpoint -> Seq({"handle", "shutdown"})]
      /\ unprocessed \in [Endpoint -> Seq(Nat)]
  BY DEF Types
<1>1. CASE Publish(e)
  <2>1. /\ notify_pipe'[e] /\ io'[e] = io[e] /\ open'[e] = open[e] /\ taken'[e] = taken[e]
        /\ queued'[e] = queued[e] /\ events'[e] = events[e] /\ unprocessed'[e] = unprocessed[e]
        /\ leaves'[Peer(e)] = leaves[Peer(e)] /\ io[e] # "stopped"
    BY <1>1, <1>t DEF Publish, loop
  <2>2. WorkScheduled(e)'
    BY <2>1 DEF Owed, WorkScheduled, Scheduled
  <2>3. EndScheduled(e)'
    BY <1>e, <2>1 DEF Owed, EndScheduled, Scheduled
  <2>4. EofIsFinal(e)'
    BY <1>b, <1>c, <2>1 DEF Owed, EofIsFinal
  <2> QED
    BY <2>2, <2>3, <2>4 DEF Owed
<1>2. CASE ReachEof(e)
  <2>1. /\ notify_pipe'[e] /\ open'[e] = open[e] /\ taken'[e] = taken[e]
        /\ arrived'[e] = arrived[e] /\ ~open[Peer(e)]
        /\ queued'[e] = queued[e] /\ events'[e] = events[e] /\ unprocessed'[e] = unprocessed[e]
        /\ leaves'[Peer(e)] = leaves[Peer(e)]
        /\ io'[e] = "stopped" => arrived[e] = leaves[Peer(e)]
    BY <1>2, <1>t DEF ReachEof, loop
  <2>2. WorkScheduled(e)'
    BY <2>1 DEF Owed, WorkScheduled, Scheduled
  <2>3. EndScheduled(e)'
    BY <1>e, <2>1 DEF Owed, EndScheduled, Scheduled
  <2>4. EofIsFinal(e)'
    BY <1>b, <1>c, <2>1 DEF Owed, EofIsFinal
  <2> QED
    BY <2>2, <2>3, <2>4 DEF Owed
<1>3. CASE Pump(e)
  <2> DEFINE x == IF notify_pipe[e] THEN <<"hook">> ELSE <<>>
             S == {"hook", "handle", "shutdown"}
  <2>1. x \in Seq(S) /\ queued[e] \in Seq(S)
    <3>1. <<"hook">> \in Seq(S) /\ <<>> \in Seq(S)
      OBVIOUS
    <3>2. queued[e] \in Seq(S)
      BY <1>d
    <3> HIDE DEF S
    <3> QED
      BY <3>1, <3>2
  <2>2. events'[e] = queued[e] \o x /\ events[e] = <<>>
    BY <1>3, <1>t DEF Pump
  <2> HIDE DEF S, x
  <2>3. \A v : ~Holds(<<>>, v)
    BY DEF Holds
  <2>4. ASSUME NEW v, Scheduled(e, v) PROVE Scheduled(e, v)'
    <3>1. Holds(queued[e], v)
      BY <2>2, <2>3, <2>4 DEF Scheduled
    <3>2. Holds(queued[e] \o x, v)
      BY <2>1, <3>1, ConcatHolds
    <3> QED
      BY <2>2, <3>2 DEF Scheduled
  <2>5. /\ arrived'[e] = arrived[e] /\ taken'[e] = taken[e] /\ unprocessed'[e] = unprocessed[e]
        /\ notify_pipe'[e] = notify_pipe[e] /\ open'[e] = open[e] /\ io'[e] = io[e]
    BY <1>3 DEF Pump, transport
  <2> QED
    BY <1>a, <1>c, <2>4, <2>5, OwedKept
<1>4. CASE RunHook(e)
  <2>1. Drain(e)
    BY <1>4 DEF RunHook
  <2>2. /\ events[e] # <<>> /\ Head(events[e]) = "hook" /\ events'[e] = Tail(events[e])
        /\ unprocessed'[e] = <<>> /\ arrived'[e] = arrived[e]
        /\ open'[e] = open[e] /\ io'[e] = io[e] /\ leaves'[Peer(e)] = leaves[Peer(e)]
    BY <1>4, <1>t DEF RunHook
  <2>3. /\ taken'[e] = arrived[e]
        /\ ShouldShutdown(e) => Holds(queued'[e], "shutdown")
        /\ Holds(queued[e], "shutdown") => Holds(queued'[e], "shutdown")
    BY <2>1, DrainSchedules
  <2>4. Scheduled(e, "shutdown") => Scheduled(e, "shutdown")'
    BY <1>d, <2>2, <2>3, TailHolds DEF Scheduled
  <2>5. WorkScheduled(e)'
    BY <1>d, <2>2, <2>3 DEF WorkScheduled
  <2>6. EndScheduled(e)'
    <3>1. open'[e] /\ io'[e] # "running" => Scheduled(e, "shutdown")'
      BY <2>2, <2>3 DEF ShouldShutdown, Scheduled
    <3>2. ASSUME open'[e], NEW i \in 1..arrived[e], Incoming(e)'[i].type = "malformed"
          PROVE  Scheduled(e, "shutdown")'
      <4>1. Incoming(e)[i].type = "malformed"
        BY <1>a, <3>2
      <4>2. CASE i <= taken[e]
        <5>1. i \in 1..taken[e]
          BY <1>d, <4>2
        <5> QED
          BY <2>2, <2>4, <3>2, <4>1, <5>1 DEF Owed, EndScheduled
      <4>3. CASE ~(i <= taken[e])
        <5>1. i \in (taken[e] + 1)..arrived[e]
          BY <1>d, <4>3
        <5> QED
          BY <2>3, <4>1, <5>1 DEF ShouldShutdown, Scheduled
      <4> QED
        BY <4>2, <4>3
    <3>3. taken'[e] = arrived[e]
      BY <2>3
    <3> QED
      BY <3>1, <3>2, <3>3 DEF EndScheduled
  <2>7. EofIsFinal(e)'
    BY <1>b, <1>c, <2>2 DEF Owed, EofIsFinal
  <2> QED
    BY <2>5, <2>6, <2>7 DEF Owed
<1>5. CASE RunHandleMessages(e)
  <2>1. /\ events[e] # <<>> /\ Head(events[e]) = "handle" /\ events'[e] = Tail(events[e])
        /\ unprocessed'[e] = <<>> /\ arrived'[e] = arrived[e] /\ taken'[e] = taken[e]
        /\ open'[e] = open[e] /\ io'[e] = io[e] /\ notify_pipe'[e] = notify_pipe[e]
        /\ queued'[e] = queued[e]
    BY <1>5, <1>t DEF RunHandleMessages, transport
  <2>2. Scheduled(e, "shutdown") => Scheduled(e, "shutdown")'
    BY <1>d, <2>1, TailHolds DEF Scheduled
  <2> QED
    BY <1>a, <1>c, <2>1, <2>2, OwedKept
<1>6. CASE RunShutdown(e)
  <2>1. Shutdown(e)
    BY <1>6 DEF RunShutdown
  <2>2. /\ events[e] # <<>> /\ Head(events[e]) = "shutdown" /\ events'[e] = Tail(events[e])
        /\ unprocessed'[e] = unprocessed[e] /\ arrived'[e] = arrived[e]
        /\ taken'[e] = taken[e] /\ queued'[e] = queued[e]
    BY <1>6, <1>t DEF RunShutdown
  <2>3. ~open'[e] /\ (notify_pipe[e] => notify_pipe'[e])
    BY <1>t, <2>1, ShutdownEffect DEF Shutdown
  <2>4. Scheduled(e, "handle") => Scheduled(e, "handle")'
    BY <1>d, <2>2, TailHolds DEF Scheduled
  <2> QED
    BY <1>a, <1>c, <2>2, <2>3, <2>4, OwedKept
<1>7. CASE WaitAndDrain(e)
  <2>1. Drain(e) /\ ~ShouldShutdown(e)
    BY <1>7 DEF WaitAndDrain
  <2>2. /\ events'[e] = events[e] /\ arrived'[e] = arrived[e]
        /\ unprocessed'[e] = unprocessed[e] \o Parsed(e)
        /\ open'[e] = open[e] /\ io'[e] = io[e] /\ leaves'[Peer(e)] = leaves[Peer(e)]
    BY <1>7, <1>t DEF WaitAndDrain
  <2>3. /\ taken'[e] = arrived[e]
        /\ unprocessed[e] \o Parsed(e) # <<>> => Holds(queued'[e], "handle")
        /\ Holds(queued[e], "shutdown") => Holds(queued'[e], "shutdown")
    BY <2>1, DrainSchedules
  <2>4. Scheduled(e, "shutdown") => Scheduled(e, "shutdown")'
    BY <2>2, <2>3 DEF Scheduled
  <2>5. WorkScheduled(e)'
    BY <1>d, <2>2, <2>3 DEF WorkScheduled, Scheduled
  <2>6. EndScheduled(e)'
    <3>1. io'[e] = "running"
      BY <2>1, <2>2 DEF ShouldShutdown
    <3>2. ASSUME open'[e], NEW i \in 1..arrived[e], Incoming(e)'[i].type = "malformed"
          PROVE  Scheduled(e, "shutdown")'
      <4>1. Incoming(e)[i].type = "malformed"
        BY <1>a, <3>2
      <4>2. i \in 1..taken[e]
        <5>1. i \notin (taken[e] + 1)..arrived[e]
          BY <2>1, <4>1 DEF ShouldShutdown
        <5> QED
          BY <1>d, <5>1
      <4> QED
        BY <2>2, <2>4, <3>2, <4>1, <4>2 DEF Owed, EndScheduled
    <3>3. taken'[e] = arrived[e]
      BY <2>3
    <3> QED
      BY <3>1, <3>2, <3>3 DEF EndScheduled
  <2>7. EofIsFinal(e)'
    BY <1>b, <1>c, <2>2 DEF Owed, EofIsFinal
  <2> QED
    BY <2>5, <2>6, <2>7 DEF Owed
<1>8. CASE WaitUntilEof(e)
  <2>1. Drain(e) /\ Shutdown(e)
    BY <1>8 DEF WaitUntilEof
  <2>2. /\ arrived'[e] = arrived[e] /\ unprocessed'[e] = unprocessed[e] \o Parsed(e)
    BY <1>8, <1>t DEF WaitUntilEof
  <2>3. /\ taken'[e] = arrived[e]
        /\ unprocessed[e] \o Parsed(e) # <<>> => Holds(queued'[e], "handle")
    BY <2>1, DrainSchedules
  <2>4. ~open'[e]
    BY <2>1, ShutdownEffect
  <2>5. WorkScheduled(e)'
    BY <1>d, <2>2, <2>3 DEF WorkScheduled, Scheduled
  <2>6. EndScheduled(e)' /\ EofIsFinal(e)'
    BY <2>4 DEF EndScheduled, EofIsFinal
  <2> QED
    BY <2>5, <2>6 DEF Owed
<1>9. CASE TakeAnswer(e)
  <2>1. /\ arrived'[e] = arrived[e] /\ taken'[e] = taken[e] /\ queued'[e] = queued[e]
        /\ events'[e] = events[e] /\ notify_pipe'[e] = notify_pipe[e]
        /\ open'[e] = open[e] /\ io'[e] = io[e]
    BY <1>9 DEF TakeAnswer, transport, loop
  <2>2. unprocessed[e] # <<>>
    <3>1. Answers(e) # {}
      BY <1>9 DEF TakeAnswer
    <3>2. unprocessed[e] = <<>> => 1..Len(unprocessed[e]) = {}
      OBVIOUS
    <3> QED
      BY <3>1, <3>2 DEF Answers
  <2>3. \A v : Scheduled(e, v)' = Scheduled(e, v)
    BY <2>1 DEF Scheduled
  <2> QED
    BY <1>a, <1>c, <2>1, <2>2, <2>3, OwedKept
<1>10. CASE DidMisbehave(e) \/ Crash(e)
  <2>1. /\ queued'[e] = queued[e] /\ events'[e] = events[e]
        /\ unprocessed'[e] = unprocessed[e] /\ arrived'[e] = arrived[e] /\ taken'[e] = taken[e]
    BY <1>10 DEF DidMisbehave, Crash, loop
  <2>2. ~open'[e] /\ (notify_pipe[e] => notify_pipe'[e])
    <3>1. CASE DidMisbehave(e)
      BY <1>t, <3>1, ShutdownEffect DEF DidMisbehave, Shutdown
    <3>2. CASE Crash(e)
      BY <3>2, CloseEffect DEF Crash
    <3> QED
      BY <1>10, <3>1, <3>2
  <2>3. \A v : Scheduled(e, v)' = Scheduled(e, v)
    BY <2>1 DEF Scheduled
  <2> QED
    BY <1>a, <1>c, <2>1, <2>2, <2>3, OwedKept
<1>11. CASE \/ HandleNext(e) \/ HandlerReturns(e) \/ HandlerFails(e)
            \/ PostMessage(e) \/ SendSync(e) \/ SendSyncWhenClosed(e)
  <2>1. /\ queued'[e] = queued[e] /\ events'[e] = events[e]
        /\ unprocessed'[e] = unprocessed[e] /\ arrived'[e] = arrived[e] /\ taken'[e] = taken[e]
        /\ notify_pipe'[e] = notify_pipe[e] /\ open'[e] = open[e] /\ io'[e] = io[e]
    BY <1>11 DEF HandleNext, HandlerReturns, HandlerFails, PostMessage, SendSync,
                 SendSyncWhenClosed, transport, loop
  <2>2. \A v : Scheduled(e, v)' = Scheduled(e, v)
    BY <2>1 DEF Scheduled
  <2> QED
    BY <1>a, <1>c, <2>1, <2>2, OwedKept
<1> QED
  BY <1>1, <1>2, <1>3, <1>4, <1>5, <1>6, <1>7, <1>8, <1>9, <1>10, <1>11
  DEF Transport, MainThread, Application

\* At every moment, what has arrived or was read has its event, and so has the end of the
\* connection.
LEMMA OwedAlways == Spec => []NothingForgotten
<1>1. Init => NothingForgotten
  <2> SUFFICES ASSUME Init, NEW e \in Endpoint PROVE Owed(e)
    BY DEF NothingForgotten
  <2>1. /\ arrived[e] = 0 /\ taken[e] = 0 /\ unprocessed[e] = <<>> /\ io[e] = "running"
    BY DEF Init
  <2> QED
    BY <2>1 DEF Owed, WorkScheduled, EndScheduled, EofIsFinal
<1>2. ASSUME ConnectionInv, ConnectionInv', NothingForgotten, [Next]_vars
      PROVE  NothingForgotten'
  <2>1. CASE UNCHANGED vars
    BY <1>2, <2>1 DEF vars, transport, loop, NothingForgotten, Owed, WorkScheduled, EndScheduled, EofIsFinal,
                      Scheduled, Incoming, Peer
  <2>2. CASE Next
    <3>1. PICK e \in Endpoint : Transport(e) \/ MainThread(e) \/ Application(e) \/ Crash(e)
      BY <2>2 DEF Next
    <3>2. Types /\ Bounds /\ Types'
      BY <1>2 DEF ConnectionInv
    <3>3. Owed(e)'
      BY <1>2, <3>1, <3>2, OwnOwed DEF NothingForgotten
    <3>4. ASSUME NEW p \in Endpoint, p # e PROVE Owed(p)'
      <4>1. \A x \in 1..arrived[p] : Incoming(p)'[x] = Incoming(p)[x]
        BY <3>1, <3>2, IncomingKept
      <4>2. /\ arrived'[p] = arrived[p] /\ taken'[p] = taken[p] /\ open'[p] = open[p]
            /\ unprocessed'[p] = unprocessed[p]
        BY <3>1, <3>2, <3>4, OnlyOwn
      <4>3. Peer(p) \in Endpoint
        BY PeerLemma
      <4>4. /\ queued'[p] = queued[p] /\ events'[p] = events[p]
            /\ io'[p] = io[p] /\ notify_pipe'[p] = notify_pipe[p]
            /\ open'[Peer(p)] => open[Peer(p)]
            /\ ~open[Peer(p)] => leaves'[Peer(p)] = leaves[Peer(p)]
        BY <3>1, <3>2, <3>4, <4>3, LoopIsOwn
      <4>5. \A v : Scheduled(p, v)' = Scheduled(p, v)
        BY <4>4 DEF Scheduled
      <4>6. Owed(p)
        BY <1>2 DEF NothingForgotten
      <4> QED
        BY <3>2, <4>1, <4>2, <4>4, <4>5, <4>6, OwedKept
    <3> QED
      BY <3>3, <3>4 DEF NothingForgotten
  <2> QED
    BY <1>2, <2>1, <2>2
<1> QED
  BY <1>1, <1>2, ConnectionInvariance, PTL DEF Spec

\* No request is forgotten, the safety of EveryRequestIsDispatched: while messages that arrived have
\* not been read, the hook's pipe holds a byte, and while messages are unprocessed, also those
\* read on behalf of a call, a handle_messages is scheduled.
RequestsAreScheduled == \A e \in Endpoint :
    /\ arrived[e] > taken[e] => notify_pipe[e]
    /\ unprocessed[e] # <<>> => Scheduled(e, "handle")

\* Calls that drain the transport, notifications and deferred invocations leave no request behind.
THEOREM ConnectionSchedulesRequests == Spec => []RequestsAreScheduled
<1>1. NothingForgotten => RequestsAreScheduled
  BY DEF NothingForgotten, Owed, WorkScheduled, RequestsAreScheduled
<1> QED
  BY <1>1, OwedAlways, PTL

\* No end is forgotten: an open connection whose IO thread has seen the end of file is notified
\* or has a shutdown scheduled, and so it has when it has read a message that does not parse.
ShutdownIsScheduled == \A e \in Endpoint : open[e] =>
    /\ io[e] # "running" => notify_pipe[e] \/ Scheduled(e, "shutdown")
    /\ (\E i \in 1..taken[e] : Incoming(e)[i].type = "malformed") => Scheduled(e, "shutdown")

\* Neither a hangup nor a malformed message is overlooked, whoever reads it and whenever.
THEOREM ConnectionSchedulesShutdown == Spec => []ShutdownIsScheduled
<1>1. NothingForgotten => ShutdownIsScheduled
  BY DEF NothingForgotten, Owed, EndScheduled, ShutdownIsScheduled
<1> QED
  BY <1>1, OwedAlways, PTL

\* A process that is blocked in a call is so on a connection that is open at its own end; and if
\* its IO thread is over, so that wait_until_readable returns, the peer has closed and all that left
\* it has arrived: to wait longer would bring nothing.
CallsWaitForAnOpenEnd == \A e \in Endpoint : running[e] /\ waiting[e] # 0 =>
    /\ open[e]
    /\ io[e] = "stopped" => ~open[Peer(e)] /\ arrived[e] = leaves[Peer(e)]

\* A call never waits on a connection that its own process has shut down.
THEOREM ConnectionCallsWaitForAnOpenEnd == Spec => []CallsWaitForAnOpenEnd
<1>1. ConnectionInv /\ NothingForgotten => CallsWaitForAnOpenEnd
  <2> HAVE ConnectionInv /\ NothingForgotten
  <2>1. \A e \in Endpoint : running[e] /\ waiting[e] # 0 => open[e]
    BY DEF ConnectionInv, Calls, OneCall
  <2>2. \A e \in Endpoint : open[e] /\ io[e] = "stopped" =>
            ~open[Peer(e)] /\ arrived[e] = leaves[Peer(e)]
    BY DEF NothingForgotten, Owed, EofIsFinal
  <2> QED
    BY <2>1, <2>2 DEF CallsWaitForAnOpenEnd
<1> QED
  BY <1>1, ConnectionInvariance, OwedAlways, PTL
=============================================================================
