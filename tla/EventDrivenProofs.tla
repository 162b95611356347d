--------------------------- MODULE EventDrivenProofs ---------------------------
(***************************************************************************)
(* Theorems about the parts that live on events of the bus.  The argument  *)
(* about the bus counts the copies of an event a service holds: every step *)
(* moves copies, and adds one where a failure or a publication accounts    *)
(* for it.  Of the trackers it says what Dispatch has heard of them, and   *)
(* of the zones that pairings and caches follow the tables.  At the end    *)
(* come the types of all four parts.                                       *)
(***************************************************************************)
EXTENDS EventDriven, DispatchProofs, SequenceTheorems, FiniteSetTheorems,
        WellFoundedInduction

-----------------------------------------------------------------------------
(***************************************************************************)
(* How many of a set of messages a sequence holds                          *)
(***************************************************************************)
Places(q, X) == {i \in DOMAIN q : q[i] \in X}

Copies(q, X) == Cardinality(Places(q, X))

Tick(msg, X) == IF msg \in X THEN 1 ELSE 0

LEMMA CopiesType ==
  ASSUME NEW M, NEW q \in Seq(M), NEW X
  PROVE  /\ IsFiniteSet(Places(q, X))
         /\ Copies(q, X) \in Nat
         /\ Copies(q, X) = 0 <=> ~\E i \in DOMAIN q : q[i] \in X
<1>1. /\ DOMAIN q = 1..Len(q) /\ Len(q) \in Nat
  BY LenProperties
<1>2. IsFiniteSet(1..Len(q))
  BY <1>1, FS_Interval
<1>3. IsFiniteSet(Places(q, X))
  BY <1>1, <1>2, FS_Subset DEF Places
<1>4. Copies(q, X) \in Nat
  BY <1>3, FS_CardinalityType DEF Copies
<1>5. Copies(q, X) = 0 <=> Places(q, X) = {}
  BY <1>3, FS_EmptySet DEF Copies
<1>6. Places(q, X) = {} <=> ~\E i \in DOMAIN q : q[i] \in X
  BY DEF Places
<1>7. QED
  BY <1>3, <1>4, <1>5, <1>6

LEMMA CopiesNone == \A X : Copies(<<>>, X) = 0
<1>1. \A X : Places(<<>>, X) = {}
  BY DEF Places
<1>2. QED
  BY <1>1, FS_EmptySet DEF Copies

LEMMA CopiesOne == \A msg, X : Copies(<<msg>>, X) = Tick(msg, X)
<1> TAKE msg, X
<1>1. CASE msg \in X
  <2>1. Places(<<msg>>, X) = {1}
    BY <1>1 DEF Places
  <2>2. QED
    BY <1>1, <2>1, FS_Singleton DEF Copies, Tick
<1>2. CASE msg \notin X
  <2>1. Places(<<msg>>, X) = {}
    BY <1>2 DEF Places
  <2>2. QED
    BY <1>2, <2>1, FS_EmptySet DEF Copies, Tick
<1>3. QED
  BY <1>1, <1>2

LEMMA CopiesConcat ==
  ASSUME NEW M, NEW p \in Seq(M), NEW q \in Seq(M), NEW X
  PROVE  Copies(p \o q, X) = Copies(p, X) + Copies(q, X)
<1> DEFINE moved == {i \in Len(p) + 1..Len(p) + Len(q) : q[i - Len(p)] \in X}
           shift == [i \in Places(q, X) |-> i + Len(p)]
<1>1. /\ Len(p) \in Nat /\ DOMAIN p = 1..Len(p)
      /\ Len(q) \in Nat /\ DOMAIN q = 1..Len(q)
  BY LenProperties
<1>2. /\ p \o q \in Seq(M) /\ Len(p \o q) = Len(p) + Len(q)
      /\ \A i \in 1..Len(p) + Len(q) :
           (p \o q)[i] = IF i <= Len(p) THEN p[i] ELSE q[i - Len(p)]
  BY ConcatProperties
<1>3. DOMAIN (p \o q) = 1..Len(p) + Len(q)
  BY <1>2, LenProperties
<1>4. Places(p \o q, X) = Places(p, X) \cup moved
  BY <1>1, <1>2, <1>3 DEF Places
<1>5. Places(p, X) \cap moved = {}
  BY <1>1 DEF Places
<1>6. shift \in Bijection(Places(q, X), moved)
  <2>1. shift \in [Places(q, X) -> moved]
    BY <1>1 DEF Places
  <2>2. \A i, j \in Places(q, X) : shift[i] = shift[j] => i = j
    BY <1>1 DEF Places
  <2>3. \A j \in moved : \E i \in Places(q, X) : shift[i] = j
    <3> TAKE j \in moved
    <3>1. j - Len(p) \in Places(q, X) /\ shift[j - Len(p)] = j
      BY <1>1 DEF Places
    <3>2. QED
      BY <3>1
  <2> HIDE DEF shift, moved
  <2>4. QED
    BY <2>1, <2>2, <2>3 DEF Bijection, Injection, Surjection, IsInjective
<1> HIDE DEF shift, moved
<1>7. IsFiniteSet(Places(p, X)) /\ IsFiniteSet(Places(q, X))
  BY CopiesType
<1>8. IsFiniteSet(moved) /\ Cardinality(moved) = Copies(q, X)
  <2>1. ExistsBijection(Places(q, X), moved)
    BY <1>6 DEF ExistsBijection
  <2>2. QED
    BY <1>7, <2>1, FS_Bijection DEF Copies
<1>9. Cardinality(Places(p, X) \cup moved)
        = Cardinality(Places(p, X)) + Cardinality(moved) - Cardinality({})
  BY <1>5, <1>7, <1>8, FS_Union
<1>10. QED
  BY <1>4, <1>7, <1>8, <1>9, FS_EmptySet, FS_CardinalityType DEF Copies

LEMMA CopiesAppend ==
  ASSUME NEW M, NEW q \in Seq(M), NEW msg \in M, NEW X
  PROVE  /\ Append(q, msg) \in Seq(M)
         /\ Copies(Append(q, msg), X) = Copies(q, X) + Tick(msg, X)
<1>1. Append(q, msg) \in Seq(M) /\ Append(q, msg) = q \o <<msg>>
  BY AppendProperties, AppendIsConcat
<1>2. <<msg>> \in Seq(M)
  OBVIOUS
<1>3. Copies(q \o <<msg>>, X) = Copies(q, X) + Copies(<<msg>>, X)
  BY <1>2, CopiesConcat
<1>4. QED
  BY <1>1, <1>3, CopiesOne

LEMMA CopiesTail ==
  ASSUME NEW M, NEW q \in Seq(M), q # <<>>, NEW X
  PROVE  /\ Head(q) \in M /\ Tail(q) \in Seq(M)
         /\ Copies(q, X) = Tick(Head(q), X) + Copies(Tail(q), X)
<1>1. Head(q) \in M /\ Tail(q) \in Seq(M)
  BY HeadTailProperties
<1>2. q = <<Head(q)>> \o Tail(q) /\ <<Head(q)>> \in Seq(M)
  BY <1>1
<1>3. Copies(<<Head(q)>> \o Tail(q), X) = Copies(<<Head(q)>>, X) + Copies(Tail(q), X)
  BY <1>1, <1>2, CopiesConcat
<1>4. QED
  BY <1>1, <1>2, <1>3, CopiesOne

\* Without(q, i) drops one message and keeps the others.
LEMMA CopiesWithout ==
  ASSUME NEW M, NEW q \in Seq(M), NEW i \in DOMAIN q, NEW X
  PROVE  /\ q[i] \in M /\ Bus!Without(q, i) \in Seq(M)
         /\ Copies(q, X) = Tick(q[i], X) + Copies(Bus!Without(q, i), X)
<1> DEFINE before == SubSeq(q, 1, i - 1)
           after == SubSeq(q, i + 1, Len(q))
<1>1. /\ Len(q) \in Nat /\ i \in 1..Len(q) /\ q[i] \in M
      /\ \A j \in 1..Len(q) : q[j] \in M
  BY LenProperties, ElementOfSeq
<1>2. before \in Seq(M) /\ after \in Seq(M)
  <2>1. \A j \in 1..i - 1 : q[j] \in M
    BY <1>1, 1..i - 1 \subseteq 1..Len(q)
  <2>2. \A j \in i + 1..Len(q) : q[j] \in M
    BY <1>1, i + 1..Len(q) \subseteq 1..Len(q)
  <2>3. /\ 1 \in Int /\ i - 1 \in Int /\ i + 1 \in Int /\ Len(q) \in Int
    BY <1>1
  <2>4. before \in Seq(M)
    BY <2>1, <2>3, SubSeqProperties
  <2>5. QED
    BY <2>2, <2>3, <2>4, SubSeqProperties
<1>3. q = (before \o <<q[i]>>) \o after
  <2>1. 1 \in 1..Len(q) /\ i \in 1..Len(q)
    BY <1>1
  <2>2. SubSeq(q, 1, i) = before \o <<q[i]>>
    BY <2>1, SubSeqRecursiveSecond
  <2>3. 1 \in 1..Len(q) + 1 /\ i \in 1 - 1..Len(q) /\ Len(q) \in i..Len(q)
    BY <1>1
  <2>4. SubSeq(q, 1, i) \o SubSeq(q, i + 1, Len(q)) = SubSeq(q, 1, Len(q))
    BY <2>3, ConcatAdjacentSubSeq
  <2>5. QED
    BY <2>2, <2>4, SubSeqFull
<1> HIDE DEF before, after
<1>4. <<q[i]>> \in Seq(M) /\ before \o <<q[i]>> \in Seq(M)
  BY <1>1, <1>2, ConcatProperties
<1>5. Copies(q, X) = Copies(before, X) + Tick(q[i], X) + Copies(after, X)
  <2>1. Copies(before \o <<q[i]>>, X) = Copies(before, X) + Copies(<<q[i]>>, X)
    BY <1>2, <1>4, CopiesConcat
  <2>2. Copies((before \o <<q[i]>>) \o after, X)
          = Copies(before \o <<q[i]>>, X) + Copies(after, X)
    BY <1>2, <1>4, CopiesConcat
  <2>3. Copies(<<q[i]>>, X) = Tick(q[i], X)
    BY CopiesOne
  <2>4. Copies(q, X) = Copies(before \o <<q[i]>>, X) + Copies(after, X)
    BY <1>3, <2>2
  <2>5. QED
    BY <2>1, <2>3, <2>4
<1>6. /\ before \o after \in Seq(M)
      /\ Copies(before \o after, X) = Copies(before, X) + Copies(after, X)
  BY <1>2, ConcatProperties, CopiesConcat
<1>7. /\ Copies(before, X) \in Nat /\ Copies(after, X) \in Nat /\ Tick(q[i], X) \in Nat
  BY <1>2, CopiesType DEF Tick
<1>8. Bus!Without(q, i) = before \o after
  BY DEF Bus!Without, before, after
<1>9. QED
  BY <1>1, <1>5, <1>6, <1>7, <1>8

-----------------------------------------------------------------------------
(***************************************************************************)
(* The bus: nothing marked as sent is lost, and nothing is given up early  *)
(***************************************************************************)
\* The messages a service may be given.
For(s) == [event : Bound[s], attempts : 0..(MaxAttempts - 1)]

Of(e) == {msg \in Bus!Message : msg.event = e}

BusTyped ==
  /\ outbox \in [Events -> {"absent", "unsent", "sent"}]
  /\ unmarked \in BOOLEAN /\ (unmarked => fetched # <<>>)
  /\ queue \in [Consumers -> Seq(Bus!Message)]
  /\ busy \in [Consumers -> Seq(Bus!Message)]
  /\ delayed \in [Consumers -> Seq(Bus!Message)]
  /\ \A s \in Consumers :
       /\ queue[s] \in Seq(For(s)) /\ busy[s] \in Seq(For(s)) /\ delayed[s] \in Seq(For(s))
  /\ handled \in [Consumers -> SUBSET Events]
  /\ dead \in [Consumers -> SUBSET Events]
  /\ unhandled \in [Consumers -> SUBSET Events]
  /\ dropped \in [Consumers -> SUBSET Events]
  /\ failures \in [Consumers -> [Events -> Nat]]

\* The copies a service holds, and those it has still to try.
Holds(s, e) ==
  Copies(queue[s], Of(e)) + Copies(busy[s], Of(e)) + Copies(delayed[s], Of(e))

Tries(s, e) == failures[s][e] + Copies(queue[s], Of(e)) + Copies(busy[s], Of(e))

Ended(s, e) == e \in handled[s] \cup dead[s] \cup unhandled[s] \cup dropped[s]

\* What was published, marked or not, is with every service bound to it.
SentIsHeld ==
  \A s \in Consumers : \A e \in Bound[s] :
    outbox[e] = "sent" \/ (unmarked /\ e = Head(fetched)) => Ended(s, e) \/ Holds(s, e) > 0

\* Enough tries for the copies of an event that are at a service.
Covers(n, e, t) ==
  /\ \A msg \in Of(e) :
       /\ Copies(queue[t], {msg}) > 0 => n > msg.attempts
       /\ Copies(busy[t], {msg}) > 0 => n > msg.attempts
       /\ Copies(delayed[t], {msg}) > 0 => n >= msg.attempts
  /\ e \in dead[t] => n >= MaxAttempts

\* A copy with n attempts behind it, wherever it is, was preceded by copies
\* with 0 to n - 1, and each service has failed on one of each or has it still,
\* unless it has handled the event or acknowledged a copy unhandled.
TriesCovered ==
  \A s \in Consumers : \A e \in Bound[s] \ (handled[s] \cup unhandled[s]) : \A t \in Consumers :
    Covers(Tries(s, e), e, t)

BusInv == BusTyped /\ SentIsHeld /\ TriesCovered

LEMMA ForMessage ==
  \A s \in Consumers : \A msg \in For(s) :
    /\ msg \in Bus!Message /\ msg.event \in Bound[s] /\ msg.event \in Events
    /\ msg.attempts \in 0..(MaxAttempts - 1)
    /\ \A e : Tick(msg, Of(e)) = (IF msg.event = e THEN 1 ELSE 0)
    /\ \A other : Tick(msg, {other}) = (IF msg = other THEN 1 ELSE 0)
BY BusAssumption DEF For, Of, Tick, Bus!Message

LEMMA ForSeq == \A s \in Consumers : Seq(For(s)) \subseteq Seq(Bus!Message)
<1> TAKE s \in Consumers
<1>1. For(s) \subseteq Bus!Message
  BY ForMessage
<1>2. QED
  BY <1>1, SeqMonotonic

\* Counting in sequences of the bus.
LEMMA Counts ==
  ASSUME BusTyped, NEW s \in Consumers, NEW X
  PROVE  /\ Copies(queue[s], X) \in Nat
         /\ Copies(busy[s], X) \in Nat
         /\ Copies(delayed[s], X) \in Nat
BY CopiesType DEF BusTyped

LEMMA CountsNext ==
  ASSUME BusTyped', NEW s \in Consumers, NEW X
  PROVE  /\ Copies(queue'[s], X) \in Nat
         /\ Copies(busy'[s], X) \in Nat
         /\ Copies(delayed'[s], X) \in Nat
BY CopiesType DEF BusTyped

LEMMA BusInit == Bus!Init => BusInv
<1> SUFFICES ASSUME Bus!Init PROVE BusInv
  OBVIOUS
<1>1. \A s \in Consumers : queue[s] = <<>> /\ busy[s] = <<>> /\ delayed[s] = <<>>
  BY DEF Bus!Init
<1>2. BusTyped
  <2>1. /\ queue \in [Consumers -> Seq(Bus!Message)] /\ busy = queue /\ delayed = queue
    BY DEF Bus!Init
  <2>2. \A s \in Consumers : <<>> \in Seq(For(s))
    OBVIOUS
  <2>3. /\ handled = [s \in Consumers |-> {}] /\ dead = handled
        /\ unhandled = handled /\ dropped = handled
        /\ failures = [s \in Consumers |-> [e \in Events |-> 0]]
        /\ outbox = [e \in Events |-> "absent"] /\ unmarked = FALSE
    BY DEF Bus!Init
  <2>4. /\ handled \in [Consumers -> SUBSET Events]
        /\ failures \in [Consumers -> [Events -> Nat]]
        /\ outbox \in [Events -> {"absent", "unsent", "sent"}]
    BY <2>3
  <2>5. QED
    BY <1>1, <2>1, <2>2, <2>3, <2>4 DEF BusTyped
<1>3. SentIsHeld
  BY BusAssumption DEF Bus!Init, SentIsHeld
<1>4. TriesCovered
  BY <1>1, CopiesNone DEF Bus!Init, TriesCovered, Covers
<1>5. QED
  BY <1>2, <1>3, <1>4 DEF BusInv

\* A step that moves no message.
LEMMA TriesKept ==
  ASSUME TriesCovered, UNCHANGED <<queue, busy, delayed, handled, dead, unhandled, failures>>
  PROVE  TriesCovered'
<1> SUFFICES ASSUME NEW u \in Consumers, NEW e \in Bound[u],
                    e \notin handled[u] \cup unhandled[u], NEW t \in Consumers
             PROVE  Covers(Tries(u, e), e, t)'
  BY DEF TriesCovered
<1>1. Covers(Tries(u, e), e, t) /\ Tries(u, e)' = Tries(u, e)
  BY DEF TriesCovered, Tries
<1>2. QED
  BY <1>1 DEF Covers

LEMMA BusKept ==
  ASSUME BusInv,
         UNCHANGED <<outbox, fetched, unmarked, queue, busy, delayed, handled, dead, unhandled,
                     dropped, failures>>
  PROVE  BusInv'
<1>1. BusTyped'
  BY DEF BusInv, BusTyped
<1>2. SentIsHeld'
  BY DEF BusInv, SentIsHeld, Ended, Holds
<1>3. TriesCovered'
  BY TriesKept DEF BusInv
<1>4. QED
  BY <1>1, <1>2, <1>3 DEF BusInv

\* A service takes the first message of its queue.
LEMMA DeliverInv ==
  ASSUME BusInv, NEW s \in Consumers, Bus!Deliver(s)
  PROVE  BusInv'
<1> DEFINE msg == Head(queue[s])
<1>1. BusTyped /\ queue[s] # <<>> /\ queue[s] \in Seq(For(s)) /\ busy[s] \in Seq(For(s))
  BY DEF BusInv, BusTyped, Bus!Deliver
<1>2. /\ msg \in For(s) /\ Tail(queue[s]) \in Seq(For(s))
      /\ \A X : Copies(queue[s], X) = Tick(msg, X) + Copies(Tail(queue[s]), X)
  BY <1>1, CopiesTail
<1>3. /\ Append(busy[s], msg) \in Seq(For(s))
      /\ \A X : Copies(Append(busy[s], msg), X) = Copies(busy[s], X) + Tick(msg, X)
  BY <1>1, <1>2, CopiesAppend
<1>4. /\ queue' = [queue EXCEPT ![s] = Tail(queue[s])]
      /\ busy' = [busy EXCEPT ![s] = Append(busy[s], msg)]
      /\ UNCHANGED <<outbox, fetched, unmarked, delayed, handled, dead, unhandled, dropped, failures>>
  BY DEF Bus!Deliver, Bus!relayVars, Bus!history
<1> HIDE DEF msg
<1>5. /\ \A t \in Consumers \ {s} : queue'[t] = queue[t] /\ busy'[t] = busy[t]
      /\ queue'[s] = Tail(queue[s]) /\ busy'[s] = Append(busy[s], msg)
  BY <1>1, <1>4 DEF BusTyped
<1>6. BusTyped'
  <2>1. \A t \in Consumers : queue'[t] \in Seq(For(t)) /\ busy'[t] \in Seq(For(t))
    BY <1>1, <1>2, <1>3, <1>5 DEF BusTyped
  <2>2. /\ queue' \in [Consumers -> Seq(Bus!Message)]
        /\ busy' \in [Consumers -> Seq(Bus!Message)]
    BY <1>1, <1>2, <1>3, <1>4, ForSeq DEF BusTyped
  <2>3. QED
    BY <1>1, <1>4, <2>1, <2>2 DEF BusTyped
<1>7. \A t \in Consumers : \A X :
        /\ Copies(queue[t], X) \in Nat /\ Copies(busy[t], X) \in Nat
        /\ Copies(delayed[t], X) \in Nat
        /\ Copies(queue'[t], X) \in Nat /\ Copies(busy'[t], X) \in Nat
  BY <1>1, <1>6, Counts, CountsNext
<1>8. \A t \in Consumers : \A X :
        \/ /\ Copies(queue'[t], X) = Copies(queue[t], X)
           /\ Copies(busy'[t], X) = Copies(busy[t], X)
        \/ /\ Copies(queue[t], X) = Copies(queue'[t], X) + 1
           /\ Copies(busy'[t], X) = Copies(busy[t], X) + 1
  <2> TAKE t \in Consumers
  <2> TAKE X
  <2>1. CASE t = s
    <3>1. /\ Copies(queue[s], X) = Tick(msg, X) + Copies(queue'[s], X)
          /\ Copies(busy'[s], X) = Copies(busy[s], X) + Tick(msg, X)
      BY <1>2, <1>3, <1>5
    <3>2. Tick(msg, X) \in {0, 1}
      BY DEF Tick
    <3>3. QED
      BY <1>7, <2>1, <3>1, <3>2
  <2>2. CASE t # s
    BY <1>5, <2>2
  <2>3. QED
    BY <2>1, <2>2
<1>9. \A t \in Consumers : \A e \in Events :
        Tries(t, e)' = Tries(t, e) /\ Holds(t, e)' = Holds(t, e)
  <2> TAKE t \in Consumers
  <2> TAKE e \in Events
  <2>1. /\ failures[t][e] \in Nat /\ failures'[t][e] = failures[t][e]
        /\ delayed'[t] = delayed[t]
    BY <1>1, <1>4 DEF BusTyped
  <2>2. Copies(queue'[t], Of(e)) + Copies(busy'[t], Of(e))
          = Copies(queue[t], Of(e)) + Copies(busy[t], Of(e))
    BY <1>7, <1>8
  <2>3. QED
    BY <1>7, <2>1, <2>2 DEF Tries, Holds
<1>10. SentIsHeld'
  BY <1>4, <1>9, BusAssumption DEF BusInv, SentIsHeld, Ended
<1>11. \A t \in Consumers : \A other :
         /\ Copies(queue'[t], {other}) > 0 => Copies(queue[t], {other}) > 0
         /\ Copies(busy'[t], {other}) > 0 =>
              Copies(busy[t], {other}) > 0 \/ Copies(queue[t], {other}) > 0
  BY <1>7, <1>8
<1>12. TriesCovered'
  <2> SUFFICES ASSUME NEW u \in Consumers, NEW e \in Bound[u], e \notin handled[u] \cup unhandled[u],
                      NEW t \in Consumers
               PROVE  Covers(Tries(u, e), e, t)'
    BY <1>4 DEF TriesCovered
  <2>1. Covers(Tries(u, e), e, t) /\ Tries(u, e)' = Tries(u, e)
    BY <1>9, BusAssumption DEF BusInv, TriesCovered
  <2>2. QED
    BY <1>4, <1>11, <2>1 DEF Covers
<1>13. QED
  BY <1>6, <1>10, <1>12 DEF BusInv

\* The producer's own steps move no message.
LEMMA ProducerInv ==
  ASSUME BusInv,
         (\E e \in Events : Bus!Record(e)) \/ Bus!RelayFetch \/ Bus!RelayMark \/ Bus!RelayFails
  PROVE  BusInv'
<1>1. UNCHANGED <<queue, busy, delayed, handled, dead, unhandled, dropped, failures>>
  BY DEF Bus!Record, Bus!RelayFetch, Bus!RelayMark, Bus!RelayFails, Bus!history
<1> DEFINE Kept ==
             /\ outbox' \in [Events -> {"absent", "unsent", "sent"}]
             /\ unmarked' \in BOOLEAN /\ (unmarked' => fetched' # <<>>)
             /\ \A e \in Events :
                  outbox'[e] = "sent" \/ (unmarked' /\ e = Head(fetched')) =>
                    outbox[e] = "sent" \/ (unmarked /\ e = Head(fetched))
<1> USE DEF BusInv, BusTyped
<1>a. ASSUME NEW e \in Events, Bus!Record(e)
      PROVE  Kept
  BY <1>a DEF Bus!Record
<1>b. ASSUME Bus!RelayFetch
      PROVE  Kept
  <2>1. unmarked = FALSE /\ unmarked' = FALSE /\ outbox' = outbox
    BY <1>b DEF Bus!RelayFetch
  <2>2. QED
    BY <2>1
<1>c. ASSUME Bus!RelayMark
      PROVE  Kept
  BY <1>c DEF Bus!RelayMark
<1>d. ASSUME Bus!RelayFails
      PROVE  Kept
  BY <1>d DEF Bus!RelayFails
<1>2. Kept
  BY <1>a, <1>b, <1>c, <1>d
<1>3. BusTyped'
  BY <1>1, <1>2
<1>4. SentIsHeld'
  BY <1>1, <1>2, BusAssumption DEF SentIsHeld, Ended, Holds
<1>5. TriesCovered'
  <2> SUFFICES ASSUME NEW u \in Consumers, NEW e \in Bound[u], e \notin handled[u] \cup unhandled[u],
                      NEW t \in Consumers
               PROVE  Covers(Tries(u, e), e, t)'
    BY <1>1 DEF TriesCovered
  <2>1. Covers(Tries(u, e), e, t)
    BY DEF TriesCovered
  <2>2. Tries(u, e)' = Tries(u, e)
    BY <1>1 DEF Tries
  <2>3. QED
    BY <1>1, <2>1, <2>2 DEF Covers
<1>6. QED
  BY <1>3, <1>4, <1>5

\* A published message is appended to every queue bound to its event.
LEMMA PublishCounts ==
  ASSUME BusTyped, NEW msg, \A t \in Consumers : msg.event \in Bound[t] => msg \in For(t),
         queue' = Bus!Publish(queue, msg)
  PROVE  /\ queue' \in [Consumers -> Seq(Bus!Message)]
         /\ \A t \in Consumers :
              /\ queue'[t] \in Seq(For(t))
              /\ \A X : Copies(queue'[t], X)
                         = Copies(queue[t], X) + (IF msg.event \in Bound[t] THEN Tick(msg, X) ELSE 0)
<1>1. \A t \in Consumers :
        /\ queue[t] \in Seq(For(t))
        /\ queue'[t] = IF msg.event \in Bound[t] THEN Append(queue[t], msg) ELSE queue[t]
  BY DEF BusTyped, Bus!Publish
<1>2. \A t \in Consumers :
        /\ queue'[t] \in Seq(For(t))
        /\ \A X : Copies(queue'[t], X)
                   = Copies(queue[t], X) + (IF msg.event \in Bound[t] THEN Tick(msg, X) ELSE 0)
  <2> TAKE t \in Consumers
  <2>1. CASE msg.event \in Bound[t]
    <3>1. msg \in For(t) /\ queue[t] \in Seq(For(t)) /\ queue'[t] = Append(queue[t], msg)
      BY <1>1, <2>1
    <3>2. \A X : Copies(Append(queue[t], msg), X) = Copies(queue[t], X) + Tick(msg, X)
      BY <3>1, CopiesAppend
    <3>3. Append(queue[t], msg) \in Seq(For(t))
      BY <3>1, CopiesAppend
    <3>4. QED
      BY <2>1, <3>1, <3>2, <3>3
  <2>2. CASE msg.event \notin Bound[t]
    <3>1. \A X : Copies(queue[t], X) \in Nat
      BY Counts
    <3>2. QED
      BY <1>1, <2>2, <3>1
  <2>3. QED
    BY <2>1, <2>2
<1>3. queue' = [t \in Consumers |-> queue'[t]]
  BY DEF Bus!Publish
<1>4. queue' \in [Consumers -> Seq(Bus!Message)]
  BY <1>2, <1>3, ForSeq
<1>5. QED
  BY <1>2, <1>4

LEMMA RelayPublishInv ==
  ASSUME BusInv, Bus!RelayPublish
  PROVE  BusInv'
<1> DEFINE new == Head(fetched)
           msg == [event |-> new, attempts |-> 0]
<1> USE BusAssumption
<1>1. /\ BusTyped /\ fetched # <<>> /\ ~unmarked /\ unmarked' = TRUE
      /\ queue' = Bus!Publish(queue, msg)
      /\ UNCHANGED <<outbox, fetched, busy, delayed, handled, dead, unhandled, dropped, failures>>
  BY DEF BusInv, Bus!RelayPublish, Bus!history
<1>2. \A t \in Consumers : msg.event \in Bound[t] => msg \in For(t)
  BY BusAssumption DEF For
<1>3. msg.event = new /\ msg.attempts = 0
  OBVIOUS
<1> HIDE DEF msg
<1>4. /\ queue' \in [Consumers -> Seq(Bus!Message)]
      /\ \A t \in Consumers :
           /\ queue'[t] \in Seq(For(t))
           /\ \A X : Copies(queue'[t], X)
                      = Copies(queue[t], X) + (IF new \in Bound[t] THEN Tick(msg, X) ELSE 0)
  <2>1. queue' = Bus!Publish(queue, msg)
    BY <1>1
  <2>2. /\ queue' \in [Consumers -> Seq(Bus!Message)]
        /\ \A t \in Consumers :
             /\ queue'[t] \in Seq(For(t))
             /\ \A X : Copies(queue'[t], X)
                        = Copies(queue[t], X) + (IF msg.event \in Bound[t] THEN Tick(msg, X) ELSE 0)
    BY <1>1, <1>2, <2>1, PublishCounts
  <2>3. QED
    BY <1>3, <2>2
<1>5. BusTyped'
  BY <1>1, <1>4 DEF BusTyped
<1>6. \A t \in Consumers : \A X :
        /\ Copies(queue[t], X) \in Nat /\ Copies(busy[t], X) \in Nat
        /\ Copies(delayed[t], X) \in Nat /\ Copies(queue'[t], X) \in Nat
        /\ Copies(queue'[t], X) >= Copies(queue[t], X)
  <2> TAKE t \in Consumers
  <2> TAKE X
  <2>1. /\ Copies(queue[t], X) \in Nat /\ Copies(busy[t], X) \in Nat
        /\ Copies(delayed[t], X) \in Nat /\ Copies(queue'[t], X) \in Nat
    BY <1>1, <1>5, Counts, CountsNext
  <2>2. Tick(msg, X) \in Nat
    BY DEF Tick
  <2>3. CASE new \in Bound[t]
    <3>1. Copies(queue'[t], X) = Copies(queue[t], X) + Tick(msg, X)
      BY <1>4, <2>3
    <3>2. QED
      BY <2>1, <2>2, <3>1
  <2>4. CASE new \notin Bound[t]
    <3>1. Copies(queue'[t], X) = Copies(queue[t], X) + 0
      BY <1>4, <2>4
    <3>2. QED
      BY <2>1, <3>1
  <2>5. QED
    BY <2>1, <2>3, <2>4
<1>7. \A t \in Consumers : \A e \in Bound[t] :
        Copies(queue'[t], Of(e)) = Copies(queue[t], Of(e)) + (IF e = new THEN 1 ELSE 0)
  <2> TAKE t \in Consumers
  <2> TAKE e \in Bound[t]
  <2>1. CASE new \in Bound[t]
    BY <1>2, <1>3, <1>4, <2>1, ForMessage
  <2>2. CASE new \notin Bound[t]
    BY <1>4, <1>6, <2>2
  <2>3. QED
    BY <2>1, <2>2
<1>8. SentIsHeld'
  <2> SUFFICES ASSUME NEW s \in Consumers, NEW e \in Bound[s],
                      outbox[e] = "sent" \/ e = new
               PROVE  Ended(s, e)' \/ Holds(s, e)' > 0
    BY <1>1 DEF SentIsHeld
  <2>1. Holds(s, e)' = Holds(s, e) + (IF e = new THEN 1 ELSE 0) /\ Holds(s, e) \in Nat
    <3>1. Copies(queue'[s], Of(e)) = Copies(queue[s], Of(e)) + (IF e = new THEN 1 ELSE 0)
      BY <1>7
    <3>2. /\ Copies(queue[s], Of(e)) \in Nat /\ Copies(busy[s], Of(e)) \in Nat
          /\ Copies(delayed[s], Of(e)) \in Nat
      BY <1>6
    <3>3. UNCHANGED <<busy, delayed>>
      BY <1>1
    <3>4. QED
      BY <3>1, <3>2, <3>3 DEF Holds
  <2>2. CASE e = new
    BY <2>1, <2>2
  <2>3. CASE outbox[e] = "sent"
    BY <1>1, <2>1, <2>3 DEF BusInv, SentIsHeld, Ended
  <2>4. QED
    BY <2>2, <2>3
<1>9. TriesCovered'
  <2> SUFFICES ASSUME NEW u \in Consumers, NEW e \in Bound[u], e \notin handled[u] \cup unhandled[u],
                      NEW t \in Consumers
               PROVE  Covers(Tries(u, e), e, t)'
    BY <1>1 DEF TriesCovered
  <2>1. Covers(Tries(u, e), e, t)
    BY DEF BusInv, TriesCovered
  <2>2. /\ Tries(u, e) \in Nat
        /\ Tries(u, e)' = Tries(u, e) + (IF e = new THEN 1 ELSE 0)
    <3>1. failures[u][e] \in Nat /\ failures' = failures /\ busy' = busy
      BY <1>1 DEF BusTyped
    <3>2. Copies(queue[u], Of(e)) \in Nat /\ Copies(busy[u], Of(e)) \in Nat
      BY <1>6
    <3>3. Copies(queue'[u], Of(e)) = Copies(queue[u], Of(e)) + (IF e = new THEN 1 ELSE 0)
      BY <1>7
    <3>4. QED
      BY <3>1, <3>2, <3>3 DEF Tries
  <2>3. \A other \in Of(e) :
          Copies(queue'[t], {other}) > 0 =>
            Copies(queue[t], {other}) > 0 \/ (other = msg /\ e = new)
    <3> TAKE other \in Of(e)
    <3>1. CASE other = msg
      BY <1>3, <3>1 DEF Of
    <3>2. CASE other # msg
      <4>1. Tick(msg, {other}) = 0
        BY <3>2 DEF Tick
      <4>2. Copies(queue'[t], {other})
              = Copies(queue[t], {other}) + (IF new \in Bound[t] THEN Tick(msg, {other}) ELSE 0)
        BY <1>4
      <4>3. QED
        BY <1>6, <4>1, <4>2
    <3>3. QED
      BY <3>1, <3>2
  <2>4. \A other \in Of(e) : other.attempts \in Nat
    BY BusAssumption DEF Of, Bus!Message
  <2>5. MaxAttempts \in Nat
    BY BusAssumption
  <2>6. QED
    BY <1>1, <1>3, <2>1, <2>2, <2>3, <2>4, <2>5 DEF Covers
<1>10. QED
  BY <1>5, <1>8, <1>9 DEF BusInv

\* A handler takes its message off, and succeeds.
LEMMA HandleInv ==
  ASSUME BusInv, NEW s \in Consumers, NEW i \in DOMAIN busy[s], Bus!Handle(s, i)
  PROVE  BusInv'
<1> DEFINE msg == busy[s][i]
           new == msg.event
<1> USE BusAssumption
<1>1. /\ BusTyped /\ busy[s] \in Seq(For(s))
      /\ busy' = [busy EXCEPT ![s] = Bus!Without(busy[s], i)]
      /\ handled' = [handled EXCEPT ![s] = handled[s] \cup {new}]
      /\ UNCHANGED <<outbox, fetched, unmarked, queue, delayed, dead, unhandled, dropped, failures>>
  BY DEF BusInv, BusTyped, Bus!Handle, Bus!relayVars
<1>2. /\ msg \in For(s) /\ Bus!Without(busy[s], i) \in Seq(For(s))
      /\ \A X : Copies(busy[s], X) = Tick(msg, X) + Copies(Bus!Without(busy[s], i), X)
  BY <1>1, CopiesWithout
<1>3. /\ \A t \in Consumers \ {s} : busy'[t] = busy[t] /\ handled'[t] = handled[t]
      /\ busy'[s] = Bus!Without(busy[s], i)
      /\ handled'[s] = handled[s] \cup {new} /\ new \in Events
  BY <1>1, <1>2, ForMessage DEF BusTyped
<1> HIDE DEF msg
<1>4. BusTyped'
  <2>1. busy' \in [Consumers -> Seq(Bus!Message)]
    BY <1>1, <1>2, ForSeq DEF BusTyped
  <2>2. \A t \in Consumers : busy'[t] \in Seq(For(t))
    BY <1>1, <1>2, <1>3 DEF BusTyped
  <2>3. handled' \in [Consumers -> SUBSET Events]
    BY <1>1, <1>3 DEF BusTyped
  <2>4. QED
    BY <1>1, <2>1, <2>2, <2>3 DEF BusTyped
<1>5. \A t \in Consumers : \A X :
        /\ Copies(queue[t], X) \in Nat /\ Copies(busy[t], X) \in Nat
        /\ Copies(delayed[t], X) \in Nat /\ Copies(busy'[t], X) \in Nat
  BY <1>1, <1>4, Counts, CountsNext
<1>6. \A t \in Consumers : \A X : Copies(busy'[t], X) <= Copies(busy[t], X)
  <2> TAKE t \in Consumers
  <2> TAKE X
  <2>1. CASE t = s
    <3>1. Tick(msg, X) \in Nat
      BY DEF Tick
    <3>2. QED
      BY <1>2, <1>3, <1>5, <2>1, <3>1
  <2>2. CASE t # s
    BY <1>3, <1>5, <2>2
  <2>3. QED
    BY <2>1, <2>2
<1>7. \A t \in Consumers : \A e \in Bound[t] \ handled'[t] :
        Copies(busy'[t], Of(e)) = Copies(busy[t], Of(e))
  <2> TAKE t \in Consumers
  <2> TAKE e \in Bound[t] \ handled'[t]
  <2>1. CASE t = s
    <3>1. e # new
      BY <1>3, <2>1
    <3>2. Tick(msg, Of(e)) = 0
      BY <1>2, <3>1, ForMessage
    <3>3. Copies(busy[s], Of(e)) = Tick(msg, Of(e)) + Copies(busy'[s], Of(e))
      BY <1>2, <1>3
    <3>4. Copies(busy[s], Of(e)) \in Nat /\ Copies(busy'[s], Of(e)) \in Nat
      BY <1>5
    <3>5. QED
      BY <2>1, <3>2, <3>3, <3>4
  <2>2. CASE t # s
    BY <1>3, <2>2
  <2>3. QED
    BY <2>1, <2>2
<1>8. \A t \in Consumers : handled[t] \subseteq handled'[t]
  BY <1>3
<1>9. SentIsHeld'
  <2> SUFFICES ASSUME NEW t \in Consumers, NEW e \in Bound[t], ~Ended(t, e)',
                      outbox[e] = "sent" \/ (unmarked /\ e = Head(fetched))
               PROVE  Holds(t, e)' > 0
    BY <1>1 DEF SentIsHeld
  <2>1. e \notin handled'[t] /\ ~Ended(t, e)
    BY <1>1, <1>8 DEF Ended
  <2>2. Copies(busy'[t], Of(e)) = Copies(busy[t], Of(e))
    BY <1>7, <2>1
  <2>3. Holds(t, e) > 0
    BY <2>1 DEF BusInv, SentIsHeld
  <2>4. QED
    BY <1>1, <2>2, <2>3 DEF Holds
<1>10. TriesCovered'
  <2> SUFFICES ASSUME NEW u \in Consumers, NEW e \in Bound[u],
                      e \notin handled'[u] \cup unhandled[u], NEW t \in Consumers
               PROVE  Covers(Tries(u, e), e, t)'
    BY <1>1 DEF TriesCovered
  <2>1. Covers(Tries(u, e), e, t)
    BY <1>8 DEF BusInv, TriesCovered
  <2>2. Tries(u, e)' = Tries(u, e)
    BY <1>1, <1>7 DEF Tries
  <2>3. \A other : Copies(busy'[t], {other}) > 0 => Copies(busy[t], {other}) > 0
    <3> TAKE other
    <3>1. /\ Copies(busy'[t], {other}) <= Copies(busy[t], {other})
          /\ Copies(busy'[t], {other}) \in Nat /\ Copies(busy[t], {other}) \in Nat
      BY <1>5, <1>6
    <3>2. QED
      BY <3>1
  <2>4. QED
    BY <1>1, <2>1, <2>2, <2>3 DEF Covers
<1>11. QED
  BY <1>4, <1>9, <1>10 DEF BusInv

\* The copy a failed attempt leaves behind.
LEMMA LateFor ==
  ASSUME NEW s \in Consumers, NEW msg \in For(s), msg.attempts + 1 < MaxAttempts
  PROVE  LET late == [msg EXCEPT !.attempts = msg.attempts + 1]
         IN  late \in For(s) /\ late.event = msg.event /\ late.attempts = msg.attempts + 1
<1>1. msg.attempts \in Nat /\ MaxAttempts \in Nat
  BY BusAssumption DEF For
<1>2. msg.attempts + 1 \in 0..(MaxAttempts - 1)
  BY <1>1
<1>3. QED
  BY <1>2 DEF For

\* A handler takes its message off, and fails.
LEMMA HandlerFailsInv ==
  ASSUME BusInv, NEW s \in Consumers, NEW i \in DOMAIN busy[s], Bus!HandlerFails(s, i)
  PROVE  BusInv'
<1> DEFINE msg == busy[s][i]
           new == msg.event
           late == [msg EXCEPT !.attempts = msg.attempts + 1]
<1> USE BusAssumption
<1>1. /\ BusTyped /\ busy[s] \in Seq(For(s))
      /\ busy' = [busy EXCEPT ![s] = Bus!Without(busy[s], i)]
      /\ failures' = [failures EXCEPT ![s][new] = failures[s][new] + 1]
      /\ UNCHANGED <<outbox, fetched, unmarked, queue, handled, unhandled, dropped>>
  BY DEF BusInv, BusTyped, Bus!HandlerFails, Bus!relayVars
<1>2. /\ msg \in For(s) /\ Bus!Without(busy[s], i) \in Seq(For(s))
      /\ \A X : Copies(busy[s], X) = Tick(msg, X) + Copies(Bus!Without(busy[s], i), X)
  BY <1>1, CopiesWithout
<1>3. /\ new \in Events /\ new \in Bound[s] /\ msg \in Bus!Message
      /\ msg.attempts \in 0..(MaxAttempts - 1)
      /\ \A e : Tick(msg, Of(e)) = (IF new = e THEN 1 ELSE 0)
  BY <1>2, ForMessage
<1>4. /\ \A t \in Consumers \ {s} : busy'[t] = busy[t]
      /\ busy'[s] = Bus!Without(busy[s], i)
      /\ \A t \in Consumers : \A e \in Events :
           failures'[t][e] = failures[t][e] + (IF t = s /\ e = new THEN 1 ELSE 0)
      /\ failures' \in [Consumers -> [Events -> Nat]]
  <2>1. /\ busy \in [Consumers -> Seq(Bus!Message)]
        /\ failures \in [Consumers -> [Events -> Nat]]
    BY <1>1 DEF BusTyped
  <2>2. /\ \A t \in Consumers \ {s} : busy'[t] = busy[t]
        /\ busy'[s] = Bus!Without(busy[s], i)
    BY <1>1, <2>1
  <2>3. failures[s][new] \in Nat /\ new \in Events
    BY <1>3, <2>1
  <2>4. failures' = [failures EXCEPT ![s] = [failures[s] EXCEPT ![new] = failures[s][new] + 1]]
    BY <1>1
  <2> HIDE DEF msg, new
  <2>5. \A t \in Consumers : \A e \in Events :
          failures'[t][e] = failures[t][e] + (IF t = s /\ e = new THEN 1 ELSE 0)
    BY <2>1, <2>3, <2>4
  <2>6. failures' \in [Consumers -> [Events -> Nat]]
    BY <2>1, <2>3, <2>4
  <2>7. QED
    BY <2>2, <2>5, <2>6
<1>5. \/ /\ msg.attempts + 1 >= MaxAttempts /\ delayed' = delayed
         /\ dead' = [dead EXCEPT ![s] = dead[s] \cup {new}]
      \/ /\ msg.attempts + 1 < MaxAttempts /\ dead' = dead
         /\ delayed' = [delayed EXCEPT ![s] = Append(delayed[s], late)]
  BY DEF Bus!HandlerFails
<1>6. msg.attempts + 1 < MaxAttempts =>
        late \in For(s) /\ late.event = new /\ late.attempts = msg.attempts + 1
  BY <1>2, LateFor
<1>d. /\ dead' \in [Consumers -> SUBSET Events]
      /\ \A t \in Consumers :
           /\ dead[t] \subseteq dead'[t]
           /\ \A e \in dead'[t] \ dead[t] : e = new /\ msg.attempts + 1 >= MaxAttempts
      /\ msg.attempts + 1 >= MaxAttempts => new \in dead'[s]
  <2>1. dead \in [Consumers -> SUBSET Events]
    BY <1>1 DEF BusTyped
  <2>2. msg.attempts \in Nat
    BY <1>3
  <2> HIDE DEF msg, new
  <2>3. CASE dead' = dead /\ msg.attempts + 1 < MaxAttempts
    BY <2>1, <2>2, <2>3
  <2>4. CASE dead' = [dead EXCEPT ![s] = dead[s] \cup {new}] /\ msg.attempts + 1 >= MaxAttempts
    BY <1>3, <2>1, <2>4
  <2>5. QED
    BY <1>5, <2>3, <2>4
<1> HIDE DEF msg, late
<1>7. BusTyped'
  <2>1. busy' \in [Consumers -> Seq(Bus!Message)]
    BY <1>1, <1>2, ForSeq DEF BusTyped
  <2>2. \A t \in Consumers : busy'[t] \in Seq(For(t))
    BY <1>1, <1>2, <1>4 DEF BusTyped
  <2>3. dead' \in [Consumers -> SUBSET Events]
    BY <1>d
  <2>4. /\ delayed' \in [Consumers -> Seq(Bus!Message)]
        /\ \A t \in Consumers : delayed'[t] \in Seq(For(t))
    <3>1. CASE delayed' = delayed
      BY <1>1, <3>1 DEF BusTyped
    <3>2. CASE late \in For(s) /\ delayed' = [delayed EXCEPT ![s] = Append(delayed[s], late)]
      <4>1. Append(delayed[s], late) \in Seq(For(s))
        BY <1>1, <3>2, CopiesAppend DEF BusTyped
      <4>2. Append(delayed[s], late) \in Seq(Bus!Message)
        BY <4>1, ForSeq
      <4>3. QED
        BY <1>1, <3>2, <4>1, <4>2 DEF BusTyped
    <3>3. QED
      BY <1>5, <1>6, <3>1, <3>2
  <2>5. QED
    BY <1>1, <1>4, <2>1, <2>2, <2>3, <2>4 DEF BusTyped
<1>8. \A t \in Consumers : \A X :
        /\ Copies(queue[t], X) \in Nat /\ Copies(busy[t], X) \in Nat
        /\ Copies(delayed[t], X) \in Nat
        /\ Copies(busy'[t], X) \in Nat /\ Copies(delayed'[t], X) \in Nat
  BY <1>1, <1>7, Counts, CountsNext
<1>9. \A t \in Consumers : \A X :
        Copies(busy[t], X) = Copies(busy'[t], X) + (IF t = s THEN Tick(msg, X) ELSE 0)
  <2> TAKE t \in Consumers
  <2> TAKE X
  <2>1. Tick(msg, X) \in Nat
    BY DEF Tick
  <2>2. CASE t = s
    <3>1. Copies(busy[s], X) = Tick(msg, X) + Copies(busy'[s], X)
      BY <1>2, <1>4
    <3>2. QED
      BY <1>8, <2>1, <2>2, <3>1
  <2>3. CASE t # s
    <3>1. busy'[t] = busy[t]
      BY <1>4, <2>3
    <3>2. Copies(busy[t], X) \in Nat
      BY <1>8
    <3>3. QED
      BY <2>3, <3>1, <3>2
  <2>4. QED
    BY <2>2, <2>3
<1>10. \A t \in Consumers : \A e \in Events :
         Copies(busy[t], Of(e)) = Copies(busy'[t], Of(e)) + (IF t = s /\ e = new THEN 1 ELSE 0)
  <2> TAKE t \in Consumers
  <2> TAKE e \in Events
  <2>1. Copies(busy[t], Of(e)) = Copies(busy'[t], Of(e)) + (IF t = s THEN Tick(msg, Of(e)) ELSE 0)
    BY <1>9
  <2>2. QED
    BY <1>3, <2>1
<1>11. \A t \in Consumers : \A e \in Events : Tries(t, e)' = Tries(t, e)
  <2> TAKE t \in Consumers
  <2> TAKE e \in Events
  <2>1. failures[t][e] \in Nat /\ queue' = queue
    BY <1>1 DEF BusTyped
  <2>2. Copies(queue[t], Of(e)) \in Nat /\ Copies(busy[t], Of(e)) \in Nat
        /\ Copies(busy'[t], Of(e)) \in Nat
    BY <1>8
  <2>3. failures'[t][e] = failures[t][e] + (IF t = s /\ e = new THEN 1 ELSE 0)
    BY <1>4
  <2>4. Copies(busy[t], Of(e)) = Copies(busy'[t], Of(e)) + (IF t = s /\ e = new THEN 1 ELSE 0)
    BY <1>10
  <2>5. QED
    BY <2>1, <2>2, <2>3, <2>4 DEF Tries
<1>12. \A t \in Consumers : \A X :
         \/ Copies(delayed'[t], X) = Copies(delayed[t], X)
         \/ /\ msg.attempts + 1 < MaxAttempts /\ t = s
            /\ Copies(delayed'[t], X) = Copies(delayed[t], X) + Tick(late, X)
  <2> TAKE t \in Consumers
  <2> TAKE X
  <2>1. CASE delayed' = delayed
    BY <2>1
  <2>2. CASE /\ msg.attempts + 1 < MaxAttempts
             /\ delayed' = [delayed EXCEPT ![s] = Append(delayed[s], late)]
    <3>1. CASE t = s
      <4>1. delayed'[s] = Append(delayed[s], late) /\ delayed[s] \in Seq(For(s))
        BY <1>1, <2>2 DEF BusTyped
      <4>2. Copies(Append(delayed[s], late), X) = Copies(delayed[s], X) + Tick(late, X)
        BY <1>6, <2>2, <4>1, CopiesAppend
      <4>3. QED
        BY <2>2, <3>1, <4>1, <4>2
    <3>2. CASE t # s
      BY <1>1, <2>2, <3>2 DEF BusTyped
    <3>3. QED
      BY <3>1, <3>2
  <2>3. QED
    BY <1>5, <2>1, <2>2
<1>13. SentIsHeld'
  <2> SUFFICES ASSUME NEW t \in Consumers, NEW e \in Bound[t], ~Ended(t, e)',
                      outbox[e] = "sent" \/ (unmarked /\ e = Head(fetched))
               PROVE  Holds(t, e)' > 0
    BY <1>1 DEF SentIsHeld
  <2>1. ~Ended(t, e)
    BY <1>1, <1>d DEF Ended
  <2>2. Holds(t, e) > 0 /\ e \in Events
    BY <2>1 DEF BusInv, SentIsHeld
  <2>3. CASE t = s /\ e = new
    <3>1. ~(msg.attempts + 1 >= MaxAttempts)
      <4>1. e \notin dead'[s]
        BY <2>3 DEF Ended
      <4>2. QED
        BY <1>d, <2>3, <4>1
    <3>2. /\ delayed'[s] = Append(delayed[s], late) /\ delayed[s] \in Seq(For(s))
          /\ late \in For(s)
      BY <1>1, <1>5, <1>6, <3>1 DEF BusTyped
    <3>3. Copies(delayed'[s], Of(new)) = Copies(delayed[s], Of(new)) + Tick(late, Of(new))
      BY <3>2, CopiesAppend
    <3>4. Tick(late, Of(new)) = 1
      BY <1>3, <1>5, <1>6, <3>1, <3>2, ForMessage
    <3>5. QED
      BY <1>1, <1>8, <2>3, <3>3, <3>4, SMTT(30) DEF Holds
  <2>4. CASE ~(t = s /\ e = new)
    <3>1. Copies(busy'[t], Of(e)) = Copies(busy[t], Of(e))
      <4>1. Copies(busy[t], Of(e))
              = Copies(busy'[t], Of(e)) + (IF t = s /\ e = new THEN 1 ELSE 0)
        BY <1>10, <2>2
      <4>2. Copies(busy'[t], Of(e)) \in Nat
        BY <1>8
      <4>3. QED
        BY <2>4, <4>1, <4>2
    <3>2. Copies(delayed'[t], Of(e)) >= Copies(delayed[t], Of(e))
      <4>1. Tick(late, Of(e)) \in Nat
        BY DEF Tick
      <4>2. QED
        BY <1>8, <1>12, <4>1
    <3>3. /\ Copies(queue[t], Of(e)) \in Nat /\ Copies(busy[t], Of(e)) \in Nat
          /\ Copies(delayed[t], Of(e)) \in Nat /\ Copies(delayed'[t], Of(e)) \in Nat
      BY <1>8
    <3>4. QED
      BY <1>1, <2>2, <3>1, <3>2, <3>3 DEF Holds
  <2>5. QED
    BY <2>3, <2>4
<1>14. TriesCovered'
  <2> SUFFICES ASSUME NEW u \in Consumers, NEW e \in Bound[u], e \notin handled[u] \cup unhandled[u],
                      NEW t \in Consumers
               PROVE  Covers(Tries(u, e), e, t)'
    BY <1>1 DEF TriesCovered
  <2>1. /\ Covers(Tries(u, e), e, t) /\ Covers(Tries(u, e), e, s) /\ e \in Events
        /\ Tries(u, e)' = Tries(u, e)
    BY <1>11 DEF BusInv, TriesCovered
  <2>2. Tries(u, e) \in Nat
    <3>1. failures[u][e] \in Nat
      BY <1>1, <2>1 DEF BusTyped
    <3>2. QED
      BY <1>8, <3>1 DEF Tries
  <2>3. e = new => Tries(u, e) > msg.attempts
    <3> SUFFICES ASSUME e = new PROVE Tries(u, e) > msg.attempts
      OBVIOUS
    <3>1. Tick(msg, {msg}) = 1 /\ msg \in Of(e)
      BY <1>3 DEF Tick, Of
    <3>2. Copies(busy[s], {msg}) > 0
      BY <1>8, <1>9, <3>1
    <3>3. QED
      BY <2>1, <3>1, <3>2 DEF Covers
  <2>4. \A other : Copies(busy'[t], {other}) > 0 => Copies(busy[t], {other}) > 0
    <3> TAKE other
    <3>1. Tick(msg, {other}) \in Nat
      BY DEF Tick
    <3>2. QED
      BY <1>8, <1>9, <3>1
  <2>5. \A other \in Of(e) : Copies(delayed'[t], {other}) > 0 =>
          \/ Copies(delayed[t], {other}) > 0
          \/ e = new /\ other.attempts = msg.attempts + 1
    <3> TAKE other \in Of(e)
    <3>1. CASE other = late
      BY <1>6, <1>8, <1>12, <3>1 DEF Of
    <3>2. CASE other # late
      <4>1. Tick(late, {other}) = 0
        BY <3>2 DEF Tick
      <4>2. QED
        BY <1>8, <1>12, <4>1
    <3>3. QED
      BY <3>1, <3>2
  <2>6. e \in dead'[t] => e \in dead[t] \/ (e = new /\ msg.attempts + 1 >= MaxAttempts)
    BY <1>d
  <2>7. \A other \in Of(e) : other.attempts \in Nat
    BY DEF Of, Bus!Message
  <2>8. msg.attempts \in Nat /\ MaxAttempts \in Nat
    BY <1>3
  <2> DEFINE n == Tries(u, e)
  <2>9. n \in Nat /\ Tries(u, e)' = n
    BY <2>1, <2>2
  <2>10. \A other \in Of(e) :
           /\ Copies(queue'[t], {other}) > 0 => n > other.attempts
           /\ Copies(busy'[t], {other}) > 0 => n > other.attempts
    BY <1>1, <2>1, <2>4 DEF Covers
  <2>11. \A other \in Of(e) : Copies(delayed'[t], {other}) > 0 => n >= other.attempts
    <3> TAKE other \in Of(e)
    <3>1. Copies(delayed[t], {other}) > 0 => n >= other.attempts
      BY <2>1 DEF Covers
    <3>2. e = new /\ other.attempts = msg.attempts + 1 => n >= other.attempts
      BY <2>3, <2>8, <2>9
    <3>3. QED
      BY <2>5, <3>1, <3>2
  <2>12. e \in dead'[t] => n >= MaxAttempts
    <3>1. e \in dead[t] => n >= MaxAttempts
      BY <2>1 DEF Covers
    <3>2. e = new /\ msg.attempts + 1 >= MaxAttempts => n >= MaxAttempts
      BY <2>3, <2>8, <2>9
    <3>3. QED
      BY <2>6, <3>1, <3>2
  <2>13. QED
    BY <2>9, <2>10, <2>11, <2>12 DEF Covers
<1>15. QED
  BY <1>7, <1>13, <1>14 DEF BusInv

\* The timer of a service republishes a message to all of them.
LEMMA RequeueInv ==
  ASSUME BusInv, NEW s \in Consumers, NEW i \in DOMAIN delayed[s], Bus!Requeue(s, i)
  PROVE  BusInv'
<1> DEFINE msg == delayed[s][i]
           new == msg.event
<1> USE BusAssumption
<1>1. /\ BusTyped /\ delayed[s] \in Seq(For(s))
      /\ queue' = Bus!Publish(queue, msg)
      /\ delayed' = [delayed EXCEPT ![s] = Bus!Without(delayed[s], i)]
      /\ UNCHANGED <<outbox, fetched, unmarked, busy, handled, dead, unhandled, dropped, failures>>
  BY DEF BusInv, BusTyped, Bus!Requeue, Bus!relayVars, Bus!history
<1>2. /\ msg \in For(s) /\ Bus!Without(delayed[s], i) \in Seq(For(s))
      /\ \A X : Copies(delayed[s], X) = Tick(msg, X) + Copies(Bus!Without(delayed[s], i), X)
  BY <1>1, CopiesWithout
<1>3. /\ new \in Bound[s] /\ msg.attempts \in 0..(MaxAttempts - 1) /\ msg \in Bus!Message
      /\ \A e : Tick(msg, Of(e)) = (IF new = e THEN 1 ELSE 0)
  BY <1>2, ForMessage
<1>4. /\ \A t \in Consumers \ {s} : delayed'[t] = delayed[t]
      /\ delayed'[s] = Bus!Without(delayed[s], i)
  BY <1>1 DEF BusTyped
<1>5. \A t \in Consumers : msg.event \in Bound[t] => msg \in For(t)
  BY <1>2 DEF For
<1> HIDE DEF msg
<1>6. /\ queue' \in [Consumers -> Seq(Bus!Message)]
      /\ \A t \in Consumers :
           /\ queue'[t] \in Seq(For(t))
           /\ \A X : Copies(queue'[t], X)
                      = Copies(queue[t], X) + (IF msg.event \in Bound[t] THEN Tick(msg, X) ELSE 0)
  <2>1. queue' = Bus!Publish(queue, msg)
    BY <1>1
  <2>2. QED
    BY <1>1, <1>5, <2>1, PublishCounts
<1>7. BusTyped'
  <2>1. delayed' \in [Consumers -> Seq(Bus!Message)]
    BY <1>1, <1>2, ForSeq DEF BusTyped
  <2>2. \A t \in Consumers : delayed'[t] \in Seq(For(t))
    BY <1>1, <1>2, <1>4 DEF BusTyped
  <2>3. QED
    BY <1>1, <1>6, <2>1, <2>2 DEF BusTyped
<1>8. \A t \in Consumers : \A X :
        /\ Copies(queue[t], X) \in Nat /\ Copies(busy[t], X) \in Nat
        /\ Copies(delayed[t], X) \in Nat
        /\ Copies(queue'[t], X) \in Nat /\ Copies(delayed'[t], X) \in Nat
  BY <1>1, <1>7, Counts, CountsNext
<1>9. \A t \in Consumers : \A X :
        Copies(delayed[t], X) = Copies(delayed'[t], X) + (IF t = s THEN Tick(msg, X) ELSE 0)
  <2> TAKE t \in Consumers
  <2> TAKE X
  <2>1. Tick(msg, X) \in Nat
    BY DEF Tick
  <2>2. CASE t = s
    <3>1. Copies(delayed[s], X) = Tick(msg, X) + Copies(delayed'[s], X)
      BY <1>2, <1>4
    <3>2. QED
      BY <1>8, <2>1, <2>2, <3>1
  <2>3. CASE t # s
    BY <1>4, <1>8, <2>3
  <2>4. QED
    BY <2>2, <2>3
<1>10. \A t \in Consumers : \A e \in Bound[t] :
         /\ Copies(queue'[t], Of(e)) = Copies(queue[t], Of(e)) + (IF e = new THEN 1 ELSE 0)
         /\ Copies(delayed[t], Of(e))
              = Copies(delayed'[t], Of(e)) + (IF t = s /\ e = new THEN 1 ELSE 0)
  <2> TAKE t \in Consumers
  <2> TAKE e \in Bound[t]
  <2>1. Tick(msg, Of(e)) = (IF e = new THEN 1 ELSE 0)
    BY <1>3
  <2>2. Copies(queue'[t], Of(e))
          = Copies(queue[t], Of(e)) + (IF new \in Bound[t] THEN Tick(msg, Of(e)) ELSE 0)
    BY <1>6
  <2>3. Copies(delayed[t], Of(e))
          = Copies(delayed'[t], Of(e)) + (IF t = s THEN Tick(msg, Of(e)) ELSE 0)
    BY <1>9
  <2>4. QED
    BY <1>8, <2>1, <2>2, <2>3
<1>11. SentIsHeld'
  <2> SUFFICES ASSUME NEW t \in Consumers, NEW e \in Bound[t], ~Ended(t, e),
                      outbox[e] = "sent" \/ (unmarked /\ e = Head(fetched))
               PROVE  Holds(t, e)' > 0
    BY <1>1 DEF SentIsHeld, Ended
  <2>1. Holds(t, e) > 0
    BY DEF BusInv, SentIsHeld
  <2>2. Copies(queue'[t], Of(e)) + Copies(delayed'[t], Of(e))
          >= Copies(queue[t], Of(e)) + Copies(delayed[t], Of(e))
    <3>1. /\ Copies(queue'[t], Of(e)) = Copies(queue[t], Of(e)) + (IF e = new THEN 1 ELSE 0)
          /\ Copies(delayed[t], Of(e))
               = Copies(delayed'[t], Of(e)) + (IF t = s /\ e = new THEN 1 ELSE 0)
      BY <1>10
    <3>2. /\ Copies(queue[t], Of(e)) \in Nat /\ Copies(queue'[t], Of(e)) \in Nat
          /\ Copies(delayed[t], Of(e)) \in Nat /\ Copies(delayed'[t], Of(e)) \in Nat
      BY <1>8
    <3>3. QED
      BY <3>1, <3>2
  <2>3. /\ Copies(queue[t], Of(e)) \in Nat /\ Copies(busy[t], Of(e)) \in Nat
        /\ Copies(delayed[t], Of(e)) \in Nat
        /\ Copies(queue'[t], Of(e)) \in Nat /\ Copies(delayed'[t], Of(e)) \in Nat
    BY <1>8
  <2>4. QED
    BY <1>1, <2>1, <2>2, <2>3 DEF Holds
<1>12. TriesCovered'
  <2> SUFFICES ASSUME NEW u \in Consumers, NEW e \in Bound[u], e \notin handled[u] \cup unhandled[u],
                      NEW t \in Consumers
               PROVE  Covers(Tries(u, e), e, t)'
    BY <1>1 DEF TriesCovered
  <2> DEFINE n == Tries(u, e)
  <2>1. Covers(Tries(u, e), e, t) /\ Covers(Tries(u, e), e, s)
    BY DEF BusInv, TriesCovered
  <2>2. n \in Nat /\ Tries(u, e)' = n + (IF e = new THEN 1 ELSE 0)
    <3>1. failures[u][e] \in Nat
      BY <1>1 DEF BusTyped
    <3>2. Copies(queue[u], Of(e)) \in Nat /\ Copies(busy[u], Of(e)) \in Nat
      BY <1>8
    <3>3. Copies(queue'[u], Of(e)) = Copies(queue[u], Of(e)) + (IF e = new THEN 1 ELSE 0)
      BY <1>10
    <3>4. busy' = busy /\ failures' = failures
      BY <1>1
    <3>5. QED
      BY <3>1, <3>2, <3>3, <3>4 DEF Tries
  <2>3. e = new => n >= msg.attempts
    <3> SUFFICES ASSUME e = new PROVE Tries(u, e) >= msg.attempts
      OBVIOUS
    <3>1. Tick(msg, {msg}) = 1 /\ msg \in Of(e)
      BY <1>3 DEF Tick, Of
    <3>2. Copies(delayed[s], {msg}) > 0
      BY <1>8, <1>9, <3>1
    <3>3. QED
      BY <2>1, <3>1, <3>2 DEF Covers
  <2>4. \A other \in Of(e) : Copies(queue'[t], {other}) > 0 =>
          Copies(queue[t], {other}) > 0 \/ (e = new /\ other.attempts = msg.attempts)
    <3> TAKE other \in Of(e)
    <3>1. CASE other = msg
      BY <3>1 DEF Of
    <3>2. CASE other # msg
      <4>1. Tick(msg, {other}) = 0
        BY <3>2 DEF Tick
      <4>2. Copies(queue'[t], {other}) =
              Copies(queue[t], {other}) + (IF new \in Bound[t] THEN Tick(msg, {other}) ELSE 0)
        BY <1>6
      <4>3. QED
        BY <1>8, <4>1, <4>2
    <3>3. QED
      BY <3>1, <3>2
  <2>5. \A other : Copies(delayed'[t], {other}) > 0 => Copies(delayed[t], {other}) > 0
    <3> TAKE other
    <3>1. Tick(msg, {other}) \in Nat
      BY DEF Tick
    <3>2. QED
      BY <1>8, <1>9, <3>1
  <2>6. \A other \in Of(e) : other.attempts \in Nat
    BY DEF Of, Bus!Message
  <2>7. msg.attempts \in Nat /\ MaxAttempts \in Nat
    BY <1>3
  <2>8. \A other \in Of(e) :
          /\ Copies(queue[t], {other}) > 0 => n > other.attempts
          /\ Copies(busy[t], {other}) > 0 => n > other.attempts
          /\ Copies(delayed[t], {other}) > 0 => n >= other.attempts
    BY <2>1 DEF Covers
  <2>9. e \in dead[t] => n >= MaxAttempts
    BY <2>1 DEF Covers
  <2> HIDE DEF n
  <2>10. \A other \in Of(e) :
           /\ Copies(queue'[t], {other}) > 0 => Tries(u, e)' > other.attempts
           /\ Copies(busy'[t], {other}) > 0 => Tries(u, e)' > other.attempts
           /\ Copies(delayed'[t], {other}) > 0 => Tries(u, e)' >= other.attempts
    <3> TAKE other \in Of(e)
    <3>1. Copies(queue'[t], {other}) > 0 => Tries(u, e)' > other.attempts
      BY <2>2, <2>3, <2>4, <2>6, <2>7, <2>8
    <3>2. /\ other.attempts \in Nat /\ n \in Nat /\ Tries(u, e)' \in Nat /\ Tries(u, e)' >= n
          /\ busy' = busy
      BY <1>1, <2>2, <2>6
    <3>3. /\ Copies(busy[t], {other}) > 0 => n > other.attempts
          /\ Copies(delayed'[t], {other}) > 0 => n >= other.attempts
      BY <2>5, <2>8
    <3>4. QED
      BY <3>1, <3>2, <3>3
  <2>11. e \in dead'[t] => Tries(u, e)' >= MaxAttempts
    BY <1>1, <2>2, <2>7, <2>9
  <2>12. QED
    BY <2>10, <2>11 DEF Covers
<1>13. QED
  BY <1>7, <1>11, <1>12 DEF BusInv

\* A service restarts: its messages are in the queue again, its timers gone.
LEMMA BusRestartInv ==
  ASSUME BusInv, NEW s \in Consumers, Bus!Restart(s)
  PROVE  BusInv'
<1> USE BusAssumption
<1>1. /\ BusTyped /\ queue[s] \in Seq(For(s)) /\ busy[s] \in Seq(For(s))
      /\ delayed[s] \in Seq(For(s))
      /\ queue' = [queue EXCEPT ![s] = busy[s] \o queue[s]]
      /\ busy' = [busy EXCEPT ![s] = <<>>]
      /\ delayed' = [delayed EXCEPT ![s] = <<>>]
      /\ dropped' = [dropped EXCEPT ![s] =
                       dropped[s] \cup {delayed[s][i].event : i \in DOMAIN delayed[s]}]
      /\ UNCHANGED <<outbox, fetched, unmarked, handled, dead, unhandled, failures>>
  BY DEF BusInv, BusTyped, Bus!Restart, Bus!relayVars
<1>2. /\ busy[s] \o queue[s] \in Seq(For(s))
      /\ \A X : Copies(busy[s] \o queue[s], X) = Copies(busy[s], X) + Copies(queue[s], X)
  BY <1>1, CopiesConcat, ConcatProperties
<1>3. <<>> \in Seq(For(s)) /\ \A X : Copies(<<>>, X) = 0
  BY CopiesNone
<1>4. /\ \A t \in Consumers \ {s} :
           /\ queue'[t] = queue[t] /\ busy'[t] = busy[t] /\ delayed'[t] = delayed[t]
      /\ queue'[s] = busy[s] \o queue[s] /\ busy'[s] = <<>> /\ delayed'[s] = <<>>
  BY <1>1 DEF BusTyped
<1>5. \A i \in DOMAIN delayed[s] :
        delayed[s][i] \in For(s) /\ delayed[s][i].event \in Events
  <2> TAKE i \in DOMAIN delayed[s]
  <2>1. delayed[s][i] \in For(s)
    BY <1>1
  <2>2. QED
    BY <2>1, ForMessage
<1>6. /\ dropped' \in [Consumers -> SUBSET Events]
      /\ \A t \in Consumers : dropped[t] \subseteq dropped'[t]
      /\ \A i \in DOMAIN delayed[s] : delayed[s][i].event \in dropped'[s]
  <2>1. {delayed[s][i].event : i \in DOMAIN delayed[s]} \subseteq Events
    BY <1>5
  <2>2. QED
    BY <1>1, <2>1 DEF BusTyped
<1>7. BusTyped'
  <2>1. /\ queue' \in [Consumers -> Seq(Bus!Message)]
        /\ busy' \in [Consumers -> Seq(Bus!Message)]
        /\ delayed' \in [Consumers -> Seq(Bus!Message)]
    BY <1>1, <1>2, <1>3, ForSeq DEF BusTyped
  <2>2. \A t \in Consumers : /\ queue'[t] \in Seq(For(t)) /\ busy'[t] \in Seq(For(t))
                              /\ delayed'[t] \in Seq(For(t))
    BY <1>1, <1>2, <1>3, <1>4 DEF BusTyped
  <2>3. QED
    BY <1>1, <1>6, <2>1, <2>2 DEF BusTyped
<1>8. \A t \in Consumers : \A X :
        /\ Copies(queue[t], X) \in Nat /\ Copies(busy[t], X) \in Nat
        /\ Copies(delayed[t], X) \in Nat
        /\ Copies(queue'[t], X) \in Nat /\ Copies(busy'[t], X) \in Nat
        /\ Copies(delayed'[t], X) \in Nat
  BY <1>1, <1>7, Counts, CountsNext
<1>9. \A t \in Consumers : \A X :
        /\ Copies(queue'[t], X) + Copies(busy'[t], X) = Copies(queue[t], X) + Copies(busy[t], X)
        /\ Copies(busy'[t], X) <= Copies(busy[t], X)
        /\ Copies(delayed'[t], X) <= Copies(delayed[t], X)
        /\ t # s => Copies(delayed'[t], X) = Copies(delayed[t], X)
  <2> TAKE t \in Consumers
  <2> TAKE X
  <2>1. CASE t = s
    <3>1. /\ Copies(queue'[s], X) = Copies(busy[s], X) + Copies(queue[s], X)
          /\ Copies(busy'[s], X) = 0 /\ Copies(delayed'[s], X) = 0
      BY <1>2, <1>3, <1>4
    <3>2. QED
      BY <1>8, <2>1, <3>1
  <2>2. CASE t # s
    BY <1>4, <1>8, <2>2
  <2>3. QED
    BY <2>1, <2>2
<1>10. \A e : Copies(delayed[s], Of(e)) > 0 => e \in dropped'[s]
  <2> SUFFICES ASSUME NEW e, Copies(delayed[s], Of(e)) > 0
               PROVE  e \in dropped'[s]
    OBVIOUS
  <2>1. Copies(delayed[s], Of(e)) = 0 <=> ~\E i \in DOMAIN delayed[s] : delayed[s][i] \in Of(e)
    BY <1>1, CopiesType
  <2>2. PICK i \in DOMAIN delayed[s] : delayed[s][i] \in Of(e)
    BY <1>8, <2>1
  <2>3. QED
    BY <1>6, <2>2 DEF Of
<1>11. SentIsHeld'
  <2> SUFFICES ASSUME NEW t \in Consumers, NEW e \in Bound[t], ~Ended(t, e)',
                      outbox[e] = "sent" \/ (unmarked /\ e = Head(fetched))
               PROVE  Holds(t, e)' > 0
    BY <1>1 DEF SentIsHeld
  <2>1. ~Ended(t, e) /\ e \notin dropped'[t]
    BY <1>1, <1>6 DEF Ended
  <2>2. Holds(t, e) > 0
    BY <2>1 DEF BusInv, SentIsHeld
  <2>3. Copies(delayed'[t], Of(e)) = Copies(delayed[t], Of(e))
    BY <1>8, <1>9, <1>10, <2>1
  <2>4. Copies(queue'[t], Of(e)) + Copies(busy'[t], Of(e))
          = Copies(queue[t], Of(e)) + Copies(busy[t], Of(e))
    BY <1>9
  <2>5. QED
    BY <1>8, <2>2, <2>3, <2>4 DEF Holds
<1>12. TriesCovered'
  <2> SUFFICES ASSUME NEW u \in Consumers, NEW e \in Bound[u], e \notin handled[u] \cup unhandled[u],
                      NEW t \in Consumers
               PROVE  Covers(Tries(u, e), e, t)'
    BY <1>1 DEF TriesCovered
  <2>1. Covers(Tries(u, e), e, t)
    BY DEF BusInv, TriesCovered
  <2>2. Tries(u, e)' = Tries(u, e)
    <3>1. failures[u][e] \in Nat
      <4>1. failures \in [Consumers -> [Events -> Nat]]
        BY <1>1 DEF BusTyped
      <4>2. e \in Events
        BY BusAssumption
      <4>3. QED
        BY <4>1, <4>2
    <3>2. Copies(queue'[u], Of(e)) + Copies(busy'[u], Of(e))
            = Copies(queue[u], Of(e)) + Copies(busy[u], Of(e))
      BY <1>9
    <3>3. /\ Copies(queue[u], Of(e)) \in Nat /\ Copies(busy[u], Of(e)) \in Nat
          /\ Copies(queue'[u], Of(e)) \in Nat /\ Copies(busy'[u], Of(e)) \in Nat
      BY <1>8
    <3>4. failures' = failures
      BY <1>1
    <3>5. QED
      BY <3>1, <3>2, <3>3, <3>4 DEF Tries
  <2>3. \A other :
          /\ Copies(queue'[t], {other}) > 0 =>
               Copies(queue[t], {other}) > 0 \/ Copies(busy[t], {other}) > 0
          /\ Copies(busy'[t], {other}) > 0 => Copies(busy[t], {other}) > 0
          /\ Copies(delayed'[t], {other}) > 0 => Copies(delayed[t], {other}) > 0
    BY <1>8, <1>9
  <2>4. QED
    BY <1>1, <2>1, <2>2, <2>3 DEF Covers
<1>13. QED
  BY <1>7, <1>11, <1>12 DEF BusInv

\* A service acknowledges the first message of its queue unhandled.
LEMMA AckUnhandledInv ==
  ASSUME BusInv, NEW s \in Consumers, Bus!AckUnhandled(s)
  PROVE  BusInv'
<1> DEFINE msg == Head(queue[s])
           new == msg.event
<1> USE BusAssumption
<1>1. /\ BusTyped /\ queue[s] # <<>> /\ queue[s] \in Seq(For(s))
      /\ queue' = [queue EXCEPT ![s] = Tail(queue[s])]
      /\ unhandled' = [unhandled EXCEPT ![s] = unhandled[s] \cup {new}]
      /\ UNCHANGED <<outbox, fetched, unmarked, busy, delayed, handled, dead, dropped, failures>>
  BY DEF BusInv, BusTyped, Bus!AckUnhandled, Bus!relayVars
<1>2. /\ msg \in For(s) /\ Tail(queue[s]) \in Seq(For(s))
      /\ \A X : Copies(queue[s], X) = Tick(msg, X) + Copies(Tail(queue[s]), X)
  BY <1>1, CopiesTail
<1>3. /\ \A t \in Consumers \ {s} : queue'[t] = queue[t] /\ unhandled'[t] = unhandled[t]
      /\ queue'[s] = Tail(queue[s])
      /\ unhandled'[s] = unhandled[s] \cup {new} /\ new \in Events
  BY <1>1, <1>2, ForMessage DEF BusTyped
<1> HIDE DEF msg
<1>4. BusTyped'
  <2>1. queue' \in [Consumers -> Seq(Bus!Message)]
    BY <1>1, <1>2, ForSeq DEF BusTyped
  <2>2. \A t \in Consumers : queue'[t] \in Seq(For(t))
    BY <1>1, <1>2, <1>3 DEF BusTyped
  <2>3. unhandled' \in [Consumers -> SUBSET Events]
    BY <1>1, <1>3 DEF BusTyped
  <2>4. QED
    BY <1>1, <2>1, <2>2, <2>3 DEF BusTyped
<1>5. \A t \in Consumers : \A X :
        /\ Copies(queue[t], X) \in Nat /\ Copies(busy[t], X) \in Nat
        /\ Copies(delayed[t], X) \in Nat /\ Copies(queue'[t], X) \in Nat
  BY <1>1, <1>4, Counts, CountsNext
<1>6. \A t \in Consumers : \A X : Copies(queue'[t], X) <= Copies(queue[t], X)
  <2> TAKE t \in Consumers
  <2> TAKE X
  <2>1. CASE t = s
    <3>1. Tick(msg, X) \in Nat
      BY DEF Tick
    <3>2. QED
      BY <1>2, <1>3, <1>5, <2>1, <3>1
  <2>2. CASE t # s
    BY <1>3, <1>5, <2>2
  <2>3. QED
    BY <2>1, <2>2
<1>7. \A t \in Consumers : \A e \in Bound[t] \ unhandled'[t] :
        Copies(queue'[t], Of(e)) = Copies(queue[t], Of(e))
  <2> TAKE t \in Consumers
  <2> TAKE e \in Bound[t] \ unhandled'[t]
  <2>1. CASE t = s
    <3>1. e # new
      BY <1>3, <2>1
    <3>2. Tick(msg, Of(e)) = 0
      BY <1>2, <3>1, ForMessage
    <3>3. Copies(queue[s], Of(e)) = Tick(msg, Of(e)) + Copies(queue'[s], Of(e))
      BY <1>2, <1>3
    <3>4. Copies(queue[s], Of(e)) \in Nat /\ Copies(queue'[s], Of(e)) \in Nat
      BY <1>5
    <3>5. QED
      BY <2>1, <3>2, <3>3, <3>4
  <2>2. CASE t # s
    BY <1>3, <2>2
  <2>3. QED
    BY <2>1, <2>2
<1>8. \A t \in Consumers : unhandled[t] \subseteq unhandled'[t]
  BY <1>3
<1>9. SentIsHeld'
  <2> SUFFICES ASSUME NEW t \in Consumers, NEW e \in Bound[t], ~Ended(t, e)',
                      outbox[e] = "sent" \/ (unmarked /\ e = Head(fetched))
               PROVE  Holds(t, e)' > 0
    BY <1>1 DEF SentIsHeld
  <2>1. e \notin unhandled'[t] /\ ~Ended(t, e)
    BY <1>1, <1>8 DEF Ended
  <2>2. Copies(queue'[t], Of(e)) = Copies(queue[t], Of(e))
    BY <1>7, <2>1
  <2>3. Holds(t, e) > 0
    BY <2>1 DEF BusInv, SentIsHeld
  <2>4. QED
    BY <1>1, <2>2, <2>3 DEF Holds
<1>10. TriesCovered'
  <2> SUFFICES ASSUME NEW u \in Consumers, NEW e \in Bound[u],
                      e \notin handled[u] \cup unhandled'[u], NEW t \in Consumers
               PROVE  Covers(Tries(u, e), e, t)'
    BY <1>1 DEF TriesCovered
  <2>1. Covers(Tries(u, e), e, t)
    BY <1>8 DEF BusInv, TriesCovered
  <2>2. Tries(u, e)' = Tries(u, e)
    BY <1>1, <1>7 DEF Tries
  <2>3. \A other : Copies(queue'[t], {other}) > 0 => Copies(queue[t], {other}) > 0
    <3> TAKE other
    <3>1. /\ Copies(queue'[t], {other}) <= Copies(queue[t], {other})
          /\ Copies(queue'[t], {other}) \in Nat /\ Copies(queue[t], {other}) \in Nat
      BY <1>5, <1>6
    <3>2. QED
      BY <3>1
  <2>4. QED
    BY <1>1, <2>1, <2>2, <2>3 DEF Covers
<1>11. QED
  BY <1>4, <1>9, <1>10 DEF BusInv

\* A subscribe() call moves no message.
LEMMA SubscribeInv ==
  ASSUME BusInv, NEW s \in Consumers, Bus!Subscribe(s)
  PROVE  BusInv'
<1>1. UNCHANGED <<outbox, fetched, unmarked, queue, busy, delayed, handled, dead, unhandled,
                  dropped, failures>>
  BY DEF Bus!Subscribe, Bus!relayVars, Bus!history
<1>2. QED
  BY <1>1, BusKept

\* A published message is lost: every service bound to it has lost a copy.
LEMMA RelayPublishLostInv ==
  ASSUME BusInv, Bus!RelayPublishLost
  PROVE  BusInv'
<1> USE BusAssumption
<1>1. PICK new : new = Head(fetched)
  OBVIOUS
<1>2. /\ BusTyped /\ fetched # <<>> /\ unmarked' = TRUE
      /\ dropped' = [t \in Consumers |-> dropped[t] \cup ({new} \cap Bound[t])]
      /\ UNCHANGED <<outbox, fetched, queue, busy, delayed, handled, dead, unhandled, failures>>
  BY <1>1 DEF BusInv, Bus!RelayPublishLost
<1>3. /\ dropped' \in [Consumers -> SUBSET Events]
      /\ \A t \in Consumers : dropped[t] \subseteq dropped'[t] /\ (new \in Bound[t] => new \in dropped'[t])
  BY <1>2 DEF BusTyped
<1>4. BusTyped'
  BY <1>2, <1>3 DEF BusTyped
<1>5. SentIsHeld'
  <2> SUFFICES ASSUME NEW t \in Consumers, NEW e \in Bound[t], outbox[e] = "sent" \/ e = new
               PROVE  Ended(t, e)' \/ Holds(t, e)' > 0
    BY <1>1, <1>2 DEF SentIsHeld
  <2>1. CASE e = new
    BY <1>3, <2>1 DEF Ended
  <2>2. CASE outbox[e] = "sent"
    <3>1. Ended(t, e) \/ Holds(t, e) > 0
      BY <2>2 DEF BusInv, SentIsHeld
    <3>2. Ended(t, e) => Ended(t, e)'
      BY <1>2, <1>3 DEF Ended
    <3>3. Holds(t, e)' = Holds(t, e)
      BY <1>2 DEF Holds
    <3>4. QED
      BY <3>1, <3>2, <3>3
  <2>3. QED
    BY <2>1, <2>2
<1>6. TriesCovered'
  BY <1>2, TriesKept DEF BusInv
<1>7. QED
  BY <1>4, <1>5, <1>6 DEF BusInv

\* A timer's message is lost: the service has lost a copy.
LEMMA RequeueLostInv ==
  ASSUME BusInv, NEW s \in Consumers, NEW i \in DOMAIN delayed[s], Bus!RequeueLost(s, i)
  PROVE  BusInv'
<1> DEFINE msg == delayed[s][i]
           new == msg.event
<1> USE BusAssumption
<1>1. /\ BusTyped /\ delayed[s] \in Seq(For(s))
      /\ dropped' = [dropped EXCEPT ![s] = dropped[s] \cup {new}]
      /\ delayed' = [delayed EXCEPT ![s] = Bus!Without(delayed[s], i)]
      /\ UNCHANGED <<outbox, fetched, unmarked, queue, busy, handled, dead, unhandled, failures>>
  BY DEF BusInv, BusTyped, Bus!RequeueLost, Bus!relayVars
<1>2. /\ msg \in For(s) /\ Bus!Without(delayed[s], i) \in Seq(For(s))
      /\ \A X : Copies(delayed[s], X) = Tick(msg, X) + Copies(Bus!Without(delayed[s], i), X)
  BY <1>1, CopiesWithout
<1>3. /\ \A t \in Consumers \ {s} : delayed'[t] = delayed[t] /\ dropped'[t] = dropped[t]
      /\ delayed'[s] = Bus!Without(delayed[s], i)
      /\ dropped'[s] = dropped[s] \cup {new} /\ new \in Events
  BY <1>1, <1>2, ForMessage DEF BusTyped
<1> HIDE DEF msg
<1>4. BusTyped'
  <2>1. delayed' \in [Consumers -> Seq(Bus!Message)]
    BY <1>1, <1>2, ForSeq DEF BusTyped
  <2>2. \A t \in Consumers : delayed'[t] \in Seq(For(t))
    BY <1>1, <1>2, <1>3 DEF BusTyped
  <2>3. dropped' \in [Consumers -> SUBSET Events]
    BY <1>1, <1>3 DEF BusTyped
  <2>4. QED
    BY <1>1, <2>1, <2>2, <2>3 DEF BusTyped
<1>5. \A t \in Consumers : \A X :
        /\ Copies(delayed[t], X) \in Nat /\ Copies(delayed'[t], X) \in Nat
        /\ Copies(queue[t], X) \in Nat /\ Copies(busy[t], X) \in Nat
  BY <1>1, <1>4, Counts, CountsNext
<1>6. \A t \in Consumers : \A X : Copies(delayed'[t], X) <= Copies(delayed[t], X)
  <2> TAKE t \in Consumers
  <2> TAKE X
  <2>1. CASE t = s
    <3>1. Tick(msg, X) \in Nat
      BY DEF Tick
    <3>2. QED
      BY <1>2, <1>3, <1>5, <2>1, <3>1
  <2>2. CASE t # s
    BY <1>3, <1>5, <2>2
  <2>3. QED
    BY <2>1, <2>2
<1>7. \A t \in Consumers : \A e \in Bound[t] \ dropped'[t] :
        Copies(delayed'[t], Of(e)) = Copies(delayed[t], Of(e))
  <2> TAKE t \in Consumers
  <2> TAKE e \in Bound[t] \ dropped'[t]
  <2>1. CASE t = s
    <3>1. e # new
      BY <1>3, <2>1
    <3>2. Tick(msg, Of(e)) = 0
      BY <1>2, <3>1, ForMessage
    <3>3. Copies(delayed[s], Of(e)) = Tick(msg, Of(e)) + Copies(delayed'[s], Of(e))
      BY <1>2, <1>3
    <3>4. Copies(delayed[s], Of(e)) \in Nat /\ Copies(delayed'[s], Of(e)) \in Nat
      BY <1>5
    <3>5. QED
      BY <2>1, <3>2, <3>3, <3>4
  <2>2. CASE t # s
    BY <1>3, <2>2
  <2>3. QED
    BY <2>1, <2>2
<1>8. SentIsHeld'
  <2> SUFFICES ASSUME NEW t \in Consumers, NEW e \in Bound[t], ~Ended(t, e)',
                      outbox[e] = "sent" \/ (unmarked /\ e = Head(fetched))
               PROVE  Holds(t, e)' > 0
    BY <1>1 DEF SentIsHeld
  <2>1. e \notin dropped'[t] /\ ~Ended(t, e)
    BY <1>1, <1>3 DEF Ended
  <2>2. Copies(delayed'[t], Of(e)) = Copies(delayed[t], Of(e))
    BY <1>7, <2>1
  <2>3. Holds(t, e) > 0
    BY <2>1 DEF BusInv, SentIsHeld
  <2>4. QED
    BY <1>1, <2>2, <2>3 DEF Holds
<1>9. TriesCovered'
  <2> SUFFICES ASSUME NEW u \in Consumers, NEW e \in Bound[u],
                      e \notin handled[u] \cup unhandled[u], NEW t \in Consumers
               PROVE  Covers(Tries(u, e), e, t)'
    BY <1>1 DEF TriesCovered
  <2>1. Covers(Tries(u, e), e, t)
    BY DEF BusInv, TriesCovered
  <2>2. Tries(u, e)' = Tries(u, e)
    BY <1>1 DEF Tries
  <2>3. \A other : Copies(delayed'[t], {other}) > 0 => Copies(delayed[t], {other}) > 0
    <3> TAKE other
    <3>1. /\ Copies(delayed'[t], {other}) <= Copies(delayed[t], {other})
          /\ Copies(delayed'[t], {other}) \in Nat /\ Copies(delayed[t], {other}) \in Nat
      BY <1>5, <1>6
    <3>2. QED
      BY <3>1
  <2>4. QED
    BY <1>1, <2>1, <2>2, <2>3 DEF Covers
<1>10. QED
  BY <1>4, <1>8, <1>9 DEF BusInv

\* Every step of the composite is a step of the bus, or leaves it alone.
LEMMA BusSide ==
  ASSUME [Next]_vars
  PROVE  Bus!Next \/ UNCHANGED bus
BY DEF Next, vars, bus

LEMMA BusStep ==
  ASSUME BusInv, [Next]_vars
  PROVE  BusInv'
<1>1. CASE UNCHANGED bus
  BY <1>1, BusKept DEF bus
<1>2. CASE Bus!Next
  <2>1. ASSUME NEW s \in Consumers, NEW i \in DOMAIN busy[s],
               Bus!Handle(s, i) \/ Bus!HandlerFails(s, i)
        PROVE  BusInv'
    BY <2>1, HandleInv, HandlerFailsInv
  <2>2. ASSUME NEW s \in Consumers, NEW i \in DOMAIN delayed[s],
               Bus!Requeue(s, i) \/ Bus!RequeueLost(s, i)
        PROVE  BusInv'
    BY <2>2, RequeueInv, RequeueLostInv
  <2>3. ASSUME NEW s \in Consumers, Bus!Subscribe(s) \/ Bus!Consume(s) \/ Bus!Restart(s)
        PROVE  BusInv'
    BY <2>3, SubscribeInv, DeliverInv, AckUnhandledInv, BusRestartInv DEF Bus!Consume
  <2>4. CASE \/ \E e \in Events : Bus!Record(e)
             \/ Bus!Relay \/ Bus!RelayPublishLost \/ Bus!RelayFails
    BY <2>4, ProducerInv, RelayPublishInv, RelayPublishLostInv DEF Bus!Relay
  <2>5. QED
    BY <1>2, <2>1, <2>2, <2>3, <2>4 DEF Bus!Next, Bus!Finish, Bus!Timer, Bus!TimerLost
<1>3. QED
  BY <1>1, <1>2, BusSide

LEMMA BusInvariant == Spec => []BusInv
<1>1. Init => BusInv
  BY BusInit DEF Init
<1>2. BusInv /\ [Next]_vars => BusInv'
  BY BusStep
<1>3. QED
  BY <1>1, <1>2, PTL DEF Spec

\* A service holds a copy of an event exactly when one is in flight to it.
LEMMA HoldsInFlight ==
  ASSUME BusTyped, NEW s \in Consumers, NEW e \in Bound[s]
  PROVE  Bus!InFlight(s, e) <=> Holds(s, e) > 0
<1>1. /\ queue[s] \in Seq(For(s)) /\ busy[s] \in Seq(For(s)) /\ delayed[s] \in Seq(For(s))
  BY DEF BusTyped
<1>2. queue[s] \o busy[s] \in Seq(For(s)) /\ Bus!Held(s) \in Seq(For(s))
  BY <1>1, ConcatProperties DEF Bus!Held
<1>3. Copies(Bus!Held(s), Of(e)) = Holds(s, e)
  <2>1. Copies(queue[s] \o busy[s], Of(e)) = Copies(queue[s], Of(e)) + Copies(busy[s], Of(e))
    BY <1>1, CopiesConcat
  <2>2. Copies((queue[s] \o busy[s]) \o delayed[s], Of(e))
          = Copies(queue[s] \o busy[s], Of(e)) + Copies(delayed[s], Of(e))
    BY <1>1, <1>2, CopiesConcat
  <2>3. Bus!Held(s) = (queue[s] \o busy[s]) \o delayed[s]
    BY DEF Bus!Held
  <2>4. QED
    BY <2>1, <2>2, <2>3 DEF Holds
<1>4. /\ Copies(Bus!Held(s), Of(e)) \in Nat
      /\ Copies(Bus!Held(s), Of(e)) = 0 <=> ~\E i \in DOMAIN Bus!Held(s) : Bus!Held(s)[i] \in Of(e)
  BY <1>2, CopiesType
<1>5. \A i \in DOMAIN Bus!Held(s) : Bus!Held(s)[i] \in Of(e) <=> Bus!Held(s)[i].event = e
  <2> TAKE i \in DOMAIN Bus!Held(s)
  <2>1. Bus!Held(s)[i] \in For(s)
    BY <1>2
  <2>2. QED
    BY <2>1, ForMessage DEF Of
<1>6. QED
  BY <1>3, <1>4, <1>5 DEF Bus!InFlight

\* What was lost was lost to a fault or between the subscribe() calls of a
\* service that makes several.
LossExplained ==
  /\ busFaults \in Nat
  /\ subscribed \in [Consumers -> SUBSET SUBSET Events]
  /\ \A s \in Consumers :
       /\ subscribed[s] \subseteq Subscriptions[s]
       /\ dropped[s] # {} => busFaults > 0
       /\ unhandled[s] # {} => Subscriptions[s] # {Bound[s]}

LEMMA LossExplainedNext ==
  ASSUME BusInv, LossExplained, [Next]_vars
  PROVE  LossExplained'
<1> USE BusAssumption
<1>1. CASE UNCHANGED <<busFaults, subscribed, dropped, unhandled>>
  BY <1>1 DEF LossExplained
<1>2. ASSUME NEW s \in Consumers, Bus!Subscribe(s)
      PROVE  LossExplained'
  <2>1. PICK call \in Subscriptions[s] :
          subscribed' = [subscribed EXCEPT ![s] = subscribed[s] \cup {call}]
    BY <1>2 DEF Bus!Subscribe
  <2>2. UNCHANGED <<busFaults, dropped, unhandled>>
    BY <1>2 DEF Bus!Subscribe, Bus!history
  <2>3. Subscriptions[s] \subseteq SUBSET Events
    OBVIOUS
  <2>4. QED
    BY <2>1, <2>2, <2>3 DEF LossExplained
<1>3. ASSUME NEW s \in Consumers, Bus!AckUnhandled(s)
      PROVE  LossExplained'
  <2>1. PICK e : e = Head(queue[s]).event
    OBVIOUS
  <2>2. /\ queue[s] \in Seq(For(s)) /\ queue[s] # <<>>
        /\ unhandled \in [Consumers -> SUBSET Events]
        /\ unhandled' = [unhandled EXCEPT ![s] = unhandled[s] \cup {e}]
        /\ subscribed[s] # {} /\ e \notin UNION subscribed[s]
        /\ UNCHANGED <<busFaults, subscribed, dropped>>
    BY <1>3, <2>1 DEF BusInv, BusTyped, Bus!AckUnhandled, Bus!Registered
  <2>3. e \in Bound[s]
    BY <2>1, <2>2, CopiesTail, ForMessage
  <2>4. Subscriptions[s] # {Bound[s]}
    BY <2>2, <2>3 DEF LossExplained
  <2>5. QED
    BY <2>2, <2>4 DEF LossExplained
<1>4. CASE /\ busFaults' = busFaults + 1 /\ UNCHANGED unhandled
           /\ \/ UNCHANGED subscribed
              \/ \E s \in Consumers : subscribed' = [subscribed EXCEPT ![s] = {}]
  BY <1>4 DEF LossExplained
<1>5. CASE Bus!Next
  <2>1. ASSUME NEW s \in Consumers, Bus!Restart(s) \/ Bus!TimerLost(s)
        PROVE  LossExplained'
    BY <1>4, <2>1 DEF Bus!Restart, Bus!TimerLost, Bus!RequeueLost
  <2>2. CASE Bus!RelayPublishLost \/ Bus!RelayFails
    BY <1>4, <2>2 DEF Bus!RelayPublishLost, Bus!RelayFails, Bus!history
  <2>3. ASSUME NEW s \in Consumers, Bus!Deliver(s) \/ Bus!Finish(s) \/ Bus!Timer(s)
        PROVE  LossExplained'
    BY <1>1, <2>3 DEF Bus!Deliver, Bus!Finish, Bus!Handle, Bus!HandlerFails, Bus!Timer,
                      Bus!Requeue, Bus!history
  <2>4. CASE (\E e \in Events : Bus!Record(e)) \/ Bus!Relay
    BY <1>1, <2>4 DEF Bus!Record, Bus!Relay, Bus!RelayFetch, Bus!RelayPublish, Bus!RelayMark,
                      Bus!history
  <2>5. QED
    BY <1>2, <1>3, <1>5, <2>1, <2>2, <2>3, <2>4 DEF Bus!Next, Bus!Consume
<1>6. QED
  BY <1>1, <1>5, BusSide DEF bus

\* Whatever the producer marked as sent is, for every service bound to it,
\* handled, in the dead-letter queue or on its way, or it was lost to a fault, or
\* between two subscribe() calls of a service that makes several; with any number
\* of restarts, failures and lost messages (outbox-relay.service.ts tick,
\* event-bus.service.ts subscribe).
THEOREM NothingLostOnTheBus == Spec => []NothingLost
<1>1. BusInv /\ LossExplained => NothingLost
  <2> SUFFICES ASSUME BusInv, LossExplained,
                      NEW s \in Consumers, NEW e \in Bound[s], outbox[e] = "sent"
               PROVE  \/ e \in handled[s] \cup dead[s]
                      \/ Bus!InFlight(s, e)
                      \/ e \in dropped[s] /\ busFaults > 0
                      \/ e \in unhandled[s] /\ Subscriptions[s] # {Bound[s]}
    BY DEF NothingLost, Bus!NothingLost
  <2>1. Ended(s, e) \/ Holds(s, e) > 0
    BY DEF BusInv, SentIsHeld
  <2>2. Holds(s, e) > 0 => Bus!InFlight(s, e)
    BY HoldsInFlight DEF BusInv
  <2>3. QED
    BY <2>1, <2>2 DEF Ended, LossExplained
<1>2. Init => LossExplained
  BY DEF Init, Bus!Init, LossExplained
<1>3. BusInv /\ LossExplained /\ [Next]_vars => LossExplained'
  BY LossExplainedNext
<1>4. QED
  BY <1>1, <1>2, <1>3, BusInvariant, PTL DEF Spec

\* A service gives an event up only after its own handler has failed on it
\* MaxAttempts times, unless it acknowledged a copy unhandled, although the attempts header is shared with the copies
\* that other services republish (event-bus.service.ts "DLQ after N failed
\* attempts").
THEOREM GivenUpAfterOwnRetries == Spec => []GivenUpAfterRetries
<1>1. BusInv => GivenUpAfterRetries
  <2> SUFFICES ASSUME BusInv, NEW s \in Consumers, NEW e \in Bound[s],
                      e \notin handled[s] \cup unhandled[s], e \in dead[s], ~Bus!InFlight(s, e)
               PROVE  failures[s][e] >= MaxAttempts
    BY DEF GivenUpAfterRetries, Bus!GivenUpAfterRetries
  <2>1. BusTyped /\ Covers(Tries(s, e), e, s)
    BY DEF BusInv, TriesCovered
  <2>2. Tries(s, e) >= MaxAttempts
    BY <2>1 DEF Covers
  <2>3. ~(Holds(s, e) > 0)
    BY <2>1, HoldsInFlight
  <2>4. /\ Copies(queue[s], Of(e)) \in Nat /\ Copies(busy[s], Of(e)) \in Nat
        /\ Copies(delayed[s], Of(e)) \in Nat
    BY <2>1, Counts
  <2>5. failures[s][e] \in Nat /\ MaxAttempts \in Nat
    BY <2>1, BusAssumption DEF BusTyped
  <2>6. QED
    BY <2>2, <2>3, <2>4, <2>5 DEF Tries, Holds
<1>2. QED
  BY <1>1, BusInvariant, PTL


-----------------------------------------------------------------------------
(***************************************************************************)
(* The tracker: while nothing disturbs it, one ping or one scan is at work *)
(* at a time, and what it found when it began still holds.                 *)
(***************************************************************************)
\* A row of tracker_health there is.
Tracked == health # Tracker!NoRow

Healthy == Tracked /\ health.status = "ok"

\* A ping at work, by its next step: it is not older than the row it touches, and
\* Dispatch is told of the one row it makes ok.
PingKnows(p) ==
  /\ scan = Tracker!Idle
  /\ ingests[p].step \in {"live", "touch"} =>
       /\ ingests[p].ts >= clock
       /\ Tracked => ingests[p].ts >= health.lastPing
  /\ ingests[p].step = "publish" => Healthy

\* The scan, by its next step.
ScanKnows ==
  /\ scan.step = "dead" /\ Healthy => scan.at <= health.lastPing + Dead
  /\ scan.step = "save" =>
       Healthy /\ scan.lastPing = health.lastPing /\ health.lastPing + Stale < scan.at
  /\ scan.step = "publish" => Tracked /\ health.status = "stale"

Publishing(p) == ingests[p].step = "publish"

\* What Dispatch has heard follows the row, but for the event that is next; and a
\* tracker that is not ok has been silent for so long that a sample is due.
HeardFollows ==
  /\ Healthy => scanned <= health.lastPing + Stale
  /\ Healthy /\ (\A p \in Workers : ~Publishing(p)) => heard = "vehicle.location.updated"
  /\ Tracked /\ ~Healthy => health.lastPing + Stale < clock
  /\ Tracked /\ ~Healthy /\ scan.step # "publish" => heard = "tracker.stale"
  /\ sampled # 0 => Tracked /\ sampled <= health.lastPing + 1

Undisturbed ==
  /\ \A p, q \in Workers : ingests[p] # Tracker!Idle /\ ingests[q] # Tracker!Idle => p = q
  /\ \A p \in Workers : ingests[p] # Tracker!Idle => PingKnows(p)
  /\ ScanKnows
  /\ HeardFollows

\* The clock stands while a scan is at work.
ScanTimes ==
  /\ scanned <= clock
  /\ scan # Tracker!Idle => scan.at = clock

TrackerInv ==
  /\ Tracker!TypeOK
  /\ ScanTimes
  /\ ~trackerDisturbed => Undisturbed

LEMMA TrackerInit == Tracker!Init => TrackerInv
<1> SUFFICES ASSUME Tracker!Init
             PROVE  TrackerInv
  OBVIOUS
<1> USE TrackerAssumption
<1>1. Tracker!TypeOK
  <2>1. live \in [ts : Tracker!Stamps, until : 0..(TrackerTime + Dead)]
    BY DEF Tracker!Init, Tracker!NoFix, Tracker!Stamps
  <2>2. ingests \in [Workers -> Tracker!Ingest \cup {Tracker!Idle}]
    BY DEF Tracker!Init
  <2>3. clock \in Tracker!Times /\ scanned \in Tracker!Times
    BY DEF Tracker!Init, Tracker!Times
  <2>4. sampled \in 0..(TrackerTime + Skew + 1) /\ pings \in 0..MaxPings /\ trackerFaults \in 0..MaxFaults
    BY BusAssumption DEF Tracker!Init
  <2>5. QED
    BY <2>1, <2>2, <2>3, <2>4 DEF Tracker!Init, Tracker!TypeOK
<1>2. \A p \in Workers : ingests[p] = Tracker!Idle
  BY DEF Tracker!Init
<1>3. ScanKnows
  BY DEF Tracker!Init, ScanKnows, Tracker!Idle
<1>4. HeardFollows
  BY DEF Tracker!Init, HeardFollows, Tracked, Healthy
<1>5. QED
  BY <1>1, <1>2, <1>3, <1>4 DEF TrackerInv, ScanTimes, Undisturbed, Tracker!Init


LEMMA IngestTypes ==
  ASSUME Tracker!TypeOK, NEW p \in Workers
  PROVE  /\ ingests[p] # Tracker!Idle =>
              ingests[p].step \in {"live", "touch", "publish"} /\ ingests[p].ts \in Tracker!Stamps
         /\ ingests[p].step \in {"live", "touch", "publish"} => ingests[p] # Tracker!Idle
         /\ ingests[p] # Tracker!Idle => ingests[p] \in Tracker!Ingest
BY DEF Tracker!TypeOK, Tracker!Ingest, Tracker!Idle

LEMMA ScanTypes ==
  ASSUME Tracker!TypeOK
  PROVE  /\ scan # Tracker!Idle =>
              scan.step \in {"dead", "find", "save", "publish"} /\ scan.at \in Tracker!Times
         /\ scan.step \in {"dead", "find", "save", "publish"} => scan # Tracker!Idle
         /\ scan.step \in {"save", "publish"} => scan.lastPing \in Tracker!Stamps
BY DEF Tracker!TypeOK, Tracker!Scan, Tracker!Idle

LEMMA RowTypes ==
  ASSUME Tracker!TypeOK
  PROVE  /\ Tracked => health.status \in {"ok", "stale", "dead"} /\ health.lastPing \in Tracker!Stamps
         /\ Tracked => health = [status |-> health.status, lastPing |-> health.lastPing]
BY DEF Tracker!TypeOK, Tracker!Row, Tracker!NoRow, Tracked

LEMMA TrackerNumbers ==
  ASSUME Tracker!TypeOK
  PROVE  /\ clock \in Nat /\ scanned \in Nat /\ sampled \in Nat
         /\ \A t \in Tracker!Stamps : t \in Nat
         /\ \A t \in Tracker!Times : t \in Nat /\ t \in Tracker!Stamps
BY TrackerAssumption DEF Tracker!TypeOK, Tracker!Stamps, Tracker!Times

\* A ping goes on with nothing else at work.
LEMMA PingGoesOn ==
  ASSUME TrackerInv, NEW p \in Workers, NEW ping,
         ingests' = [ingests EXCEPT ![p] = ping],
         scan = Tracker!Idle, scan' = Tracker!Idle,
         \A q \in Workers \ {p} : ingests[q] = Tracker!Idle,
         ping # Tracker!Idle => PingKnows(p)',
         HeardFollows'
  PROVE  Undisturbed'
<1>1. ingests'[p] = ping /\ \A q \in Workers \ {p} : ingests'[q] = Tracker!Idle
  BY DEF TrackerInv, Tracker!TypeOK
<1>2. ScanKnows'
  BY DEF ScanKnows, Tracker!Idle
<1>3. \A q \in Workers : ingests'[q] # Tracker!Idle => q = p
  BY <1>1
<1>4. QED
  BY <1>1, <1>2, <1>3 DEF Undisturbed

\* What is at work alone while nothing disturbs.
LEMMA PingAlone ==
  ASSUME TrackerInv, ~trackerDisturbed, NEW p \in Workers, ingests[p] # Tracker!Idle
  PROVE  /\ scan = Tracker!Idle
         /\ \A q \in Workers \ {p} : ingests[q] = Tracker!Idle
         /\ PingKnows(p) /\ HeardFollows
BY DEF TrackerInv, Undisturbed, PingKnows

LEMMA ScanAlone ==
  ASSUME TrackerInv, ~trackerDisturbed, scan # Tracker!Idle
  PROVE  /\ \A q \in Workers : ingests[q] = Tracker!Idle
         /\ \A q \in Workers : ~Publishing(q)
         /\ ScanKnows /\ HeardFollows
BY DEF TrackerInv, Undisturbed, PingKnows, Publishing, Tracker!Idle

\* The scan goes on with no ping at work.
LEMMA ScanGoesOn ==
  ASSUME \A q \in Workers : ingests[q] = Tracker!Idle, UNCHANGED ingests,
         ScanKnows', HeardFollows'
  PROVE  Undisturbed'
BY DEF Undisturbed

LEMMA OnMessageStep ==
  ASSUME TrackerInv, NEW p \in Workers,
         NEW ts \in {clock, clock + Skew, clock + Skew + 1} \cup
                    {t \in Tracker!Times : t + 1 = clock},
         Tracker!OnMessage(p, ts)
  PROVE  TrackerInv'
<1> USE TrackerAssumption
<1>1. PICK ping : ping = [step |-> "live", ts |-> Tracker!Normalized(ts)]
  OBVIOUS
<1>2. Tracker!Normalized(ts) \in Tracker!Stamps
  BY DEF TrackerInv, Tracker!TypeOK, Tracker!Normalized, Tracker!Stamps, Tracker!Times
<1>3. ping \in Tracker!Ingest
  BY <1>1, <1>2 DEF Tracker!Ingest
<1>4. ingests' = [ingests EXCEPT ![p] = ping]
  BY <1>1 DEF Tracker!OnMessage, Tracker!Step
<1>5. ingests' \in [Workers -> Tracker!Ingest \cup {Tracker!Idle}]
  BY <1>3, <1>4 DEF TrackerInv, Tracker!TypeOK
<1>6. Tracker!TypeOK'
  BY <1>5 DEF TrackerInv, Tracker!TypeOK, Tracker!OnMessage, Tracker!Disturbed,
              Tracker!Times, Tracker!Stamps, Tracker!Row, Tracker!NoRow, Tracker!Scan, Tracker!Idle
<1>7. ASSUME ~trackerDisturbed'
      PROVE  Undisturbed'
  <2>1. /\ ~trackerDisturbed /\ ts >= clock /\ Tracker!Busy = {} /\ scan = Tracker!Idle
        /\ Tracked => Tracker!Normalized(ts) >= health.lastPing
    <3>1. /\ ~trackerDisturbed /\ ~(ts < clock) /\ Tracker!Busy = {} /\ scan = Tracker!Idle
          /\ ~(Tracked /\ Tracker!Normalized(ts) < health.lastPing)
      BY <1>7 DEF Tracker!OnMessage, Tracker!Disturbed, Tracked
    <3>2. Tracked => health.lastPing \in Nat
      BY RowTypes, TrackerNumbers DEF TrackerInv
    <3>3. Tracker!Normalized(ts) \in Nat /\ ts \in Nat /\ clock \in Nat
      BY <1>2, TrackerNumbers DEF TrackerInv, Tracker!Times
    <3>4. QED
      BY <3>1, <3>2, <3>3
  <2>2. \A q \in Workers : ingests[q] = Tracker!Idle
    BY <2>1 DEF Tracker!Busy
  <2>3. Tracker!Normalized(ts) >= clock
    BY <2>1, TrackerNumbers DEF Tracker!Normalized, TrackerInv
  <2>4. ingests'[p] = ping
    BY <1>4 DEF TrackerInv, Tracker!TypeOK
  <2>5. PingKnows(p)'
    BY <1>1, <2>1, <2>3, <2>4 DEF PingKnows, Tracker!OnMessage, Tracked
  <2>6. UNCHANGED <<scan, health, heard, scanned, clock, sampled>>
    BY DEF Tracker!OnMessage
  <2>7. HeardFollows'
    <3>1. HeardFollows
      BY <2>1 DEF TrackerInv, Undisturbed
    <3>2. \A q \in Workers : ~Publishing(q)
      BY <2>2 DEF Publishing, Tracker!Idle
    <3>3. QED
      BY <2>6, <3>1, <3>2 DEF HeardFollows, Healthy, Tracked
  <2>8. QED
    BY <1>4, <2>1, <2>2, <2>5, <2>6, <2>7, PingGoesOn
<1>8. ScanTimes'
  BY DEF ScanTimes, TrackerInv, Tracker!OnMessage
<1>9. QED
  BY <1>6, <1>7, <1>8 DEF TrackerInv


LEMMA UpsertLiveStep ==
  ASSUME TrackerInv, NEW p \in Workers, Tracker!UpsertLive(p)
  PROVE  TrackerInv'
<1> USE TrackerAssumption
<1>1. ingests[p] # Tracker!Idle /\ ingests[p] \in Tracker!Ingest /\ ingests[p].ts \in Tracker!Stamps
  BY IngestTypes DEF TrackerInv, Tracker!UpsertLive
<1>2. PICK ping : ping = [ingests[p] EXCEPT !.step = "touch"]
  OBVIOUS
<1>3. ping \in Tracker!Ingest /\ ping.step = "touch" /\ ping.ts = ingests[p].ts
  BY <1>1, <1>2 DEF Tracker!Ingest
<1>4. ingests' = [ingests EXCEPT ![p] = ping]
  BY <1>2 DEF Tracker!UpsertLive, Tracker!Step
<1>5. ingests' \in [Workers -> Tracker!Ingest \cup {Tracker!Idle}]
  BY <1>3, <1>4 DEF TrackerInv, Tracker!TypeOK
<1>6. live' \in [ts : Tracker!Stamps, until : 0..(TrackerTime + Dead)]
  BY <1>1 DEF TrackerInv, Tracker!TypeOK, Tracker!UpsertLive, Tracker!Times
<1>7. Tracker!TypeOK'
  BY <1>5, <1>6 DEF TrackerInv, Tracker!TypeOK, Tracker!UpsertLive,
              Tracker!Times, Tracker!Stamps, Tracker!Row, Tracker!NoRow, Tracker!Scan, Tracker!Idle
<1>8. ASSUME ~trackerDisturbed'
      PROVE  Undisturbed'
  <2>1. /\ scan = Tracker!Idle
        /\ \A q \in Workers \ {p} : ingests[q] = Tracker!Idle
        /\ PingKnows(p) /\ HeardFollows
    BY <1>1, <1>8, PingAlone DEF Tracker!UpsertLive
  <2>2. UNCHANGED <<scan, health, heard, scanned, clock, sampled>>
    BY DEF Tracker!UpsertLive
  <2>3. ingests'[p] = ping
    BY <1>4 DEF TrackerInv, Tracker!TypeOK
  <2>4. PingKnows(p)'
    BY <1>3, <2>1, <2>2, <2>3 DEF PingKnows, Tracker!UpsertLive, Tracked
  <2>5. \A q \in Workers : Publishing(q)' <=> Publishing(q)
    BY <1>3, <1>4, <2>3 DEF Publishing, Tracker!UpsertLive, TrackerInv, Tracker!TypeOK
  <2>6. HeardFollows'
    BY <2>1, <2>2, <2>5 DEF HeardFollows, Healthy, Tracked
  <2>7. QED
    BY <1>4, <2>1, <2>2, <2>4, <2>6, PingGoesOn
<1>9. ScanTimes'
  BY DEF ScanTimes, TrackerInv, Tracker!UpsertLive
<1>10. QED
  BY <1>7, <1>8, <1>9 DEF TrackerInv

\* A row that was not ok has its sample due: the silence is longer than the interval.
LEMMA TouchHealthStep ==
  ASSUME TrackerInv, NEW p \in Workers, Tracker!TouchHealth(p)
  PROVE  TrackerInv'
<1> USE TrackerAssumption
<1>1. ingests[p] # Tracker!Idle /\ ingests[p] \in Tracker!Ingest /\ ingests[p].ts \in Tracker!Stamps
  BY IngestTypes DEF TrackerInv, Tracker!TouchHealth
<1>2. PICK ts : ts = ingests[p].ts
  OBVIOUS
<1>3. PICK ping : ping = IF Tracker!ShouldPublish(ts) THEN [ingests[p] EXCEPT !.step = "publish"]
                                                      ELSE Tracker!Idle
  OBVIOUS
<1>4. ts \in Nat /\ ts \in Tracker!Stamps /\ clock \in Nat /\ sampled \in Nat /\ scanned \in Nat
  BY <1>1, <1>2, TrackerNumbers DEF TrackerInv
<1>5. /\ Tracker!ShouldPublish(ts) => ping \in Tracker!Ingest /\ ping.step = "publish"
      /\ ~Tracker!ShouldPublish(ts) => ping = Tracker!Idle
  BY <1>1, <1>3 DEF Tracker!Ingest
<1>6. /\ ingests' = [ingests EXCEPT ![p] = ping]
      /\ health' = [status |-> "ok", lastPing |-> ts]
      /\ sampled' = IF Tracker!ShouldPublish(ts) THEN ts + 1 ELSE sampled
  BY <1>2, <1>3 DEF Tracker!TouchHealth, Tracker!Step
<1>7. ingests' \in [Workers -> Tracker!Ingest \cup {Tracker!Idle}] /\ ingests'[p] = ping
  BY <1>5, <1>6 DEF TrackerInv, Tracker!TypeOK
<1>8. health' \in Tracker!Row /\ health' # Tracker!NoRow
  BY <1>4, <1>6 DEF Tracker!Row, Tracker!NoRow
<1>9. sampled' \in 0..(TrackerTime + Skew + 1)
  BY <1>4, <1>6 DEF TrackerInv, Tracker!TypeOK, Tracker!Stamps
<1>10. UNCHANGED <<clock, mapped, live, scan, heard, scanned, trackerDisturbed, pings, trackerFaults>>
  BY DEF Tracker!TouchHealth
<1>11. Tracker!TypeOK'
  BY <1>7, <1>8, <1>9, <1>10 DEF TrackerInv, Tracker!TypeOK,
              Tracker!Times, Tracker!Stamps, Tracker!Row, Tracker!NoRow, Tracker!Scan, Tracker!Idle
<1>12. ASSUME ~trackerDisturbed'
       PROVE  Undisturbed'
  <2>1. /\ scan = Tracker!Idle
        /\ \A q \in Workers \ {p} : ingests[q] = Tracker!Idle
        /\ PingKnows(p) /\ HeardFollows
    BY <1>1, <1>10, <1>12, PingAlone
  <2>2. ingests[p].step = "touch"
    BY DEF Tracker!TouchHealth
  <2>3. ts >= clock /\ (Tracked => ts >= health.lastPing)
    BY <1>2, <2>1, <2>2 DEF PingKnows
  <2>4. Tracked' /\ Healthy' /\ health'.lastPing = ts
    BY <1>6, <1>8 DEF Healthy, Tracked
  <2>5. ping # Tracker!Idle => PingKnows(p)'
    BY <1>5, <1>7, <1>10, <2>1, <2>4 DEF PingKnows
  <2>6. Tracked => health.lastPing \in Nat
    BY RowTypes, TrackerNumbers DEF TrackerInv
  <2>7. Tracker!ShouldPublish(ts) <=> ping # Tracker!Idle
    BY <1>5 DEF Tracker!Ingest, Tracker!Idle
  <2>8. ~Tracker!ShouldPublish(ts) => Healthy
    <3>1. CASE ~Tracked
      BY <2>1, <3>1 DEF HeardFollows, Tracker!ShouldPublish
    <3>2. CASE Tracked /\ ~Healthy
      <4>1. health.lastPing + Stale < clock /\ (sampled # 0 => sampled <= health.lastPing + 1)
        BY <2>1, <3>2 DEF HeardFollows
      <4>2. sampled # 0 => ts + 1 >= sampled + Interval
        BY <1>4, <2>3, <2>6, <3>2, <4>1
      <4>3. QED
        BY <4>2 DEF Tracker!ShouldPublish
    <3>3. QED
      BY <3>1, <3>2
  <2>9. (\A q \in Workers : ~Publishing(q)') => heard' = "vehicle.location.updated"
    <3>1. CASE Tracker!ShouldPublish(ts)
      BY <1>5, <1>7, <3>1 DEF Publishing
    <3>2. CASE ~Tracker!ShouldPublish(ts)
      <4>1. \A q \in Workers : ~Publishing(q)
        BY <2>1, <2>2 DEF Publishing, Tracker!Idle
      <4>2. QED
        BY <1>10, <2>1, <2>8, <3>2, <4>1 DEF HeardFollows
    <3>3. QED
      BY <3>1, <3>2
  <2>10. scanned <= ts + Stale
    BY <1>4, <2>3 DEF TrackerInv, ScanTimes
  <2>11. sampled' <= ts + 1
    BY <1>4, <1>6, <2>1, <2>3, <2>6 DEF HeardFollows
  <2>12. HeardFollows'
    BY <1>10, <2>4, <2>9, <2>10, <2>11 DEF HeardFollows
  <2>13. QED
    BY <1>6, <1>10, <2>1, <2>5, <2>12, PingGoesOn
<1>13. ScanTimes'
  BY <1>10 DEF ScanTimes, TrackerInv
<1>14. QED
  BY <1>11, <1>12, <1>13 DEF TrackerInv

LEMMA PublishLocationStep ==
  ASSUME TrackerInv, NEW p \in Workers, Tracker!PublishLocation(p)
  PROVE  TrackerInv'
<1>1. ingests[p] # Tracker!Idle
  BY IngestTypes DEF TrackerInv, Tracker!PublishLocation
<1>2. ingests' = [ingests EXCEPT ![p] = Tracker!Idle]
  BY DEF Tracker!PublishLocation, Tracker!Step
<1>3. ingests' \in [Workers -> Tracker!Ingest \cup {Tracker!Idle}]
  BY <1>2 DEF TrackerInv, Tracker!TypeOK
<1>4. UNCHANGED <<clock, mapped, live, health, sampled, scan, scanned, trackerDisturbed, pings,
                  trackerFaults>>
      /\ heard' = "vehicle.location.updated"
  BY DEF Tracker!PublishLocation
<1>5. Tracker!TypeOK'
  BY <1>3, <1>4 DEF TrackerInv, Tracker!TypeOK,
              Tracker!Times, Tracker!Stamps, Tracker!Row, Tracker!NoRow, Tracker!Scan, Tracker!Idle
<1>6. ASSUME ~trackerDisturbed'
      PROVE  Undisturbed'
  <2>1. /\ scan = Tracker!Idle
        /\ \A q \in Workers \ {p} : ingests[q] = Tracker!Idle
        /\ PingKnows(p) /\ HeardFollows
    BY <1>1, <1>4, <1>6, PingAlone
  <2>2. Healthy
    BY <2>1 DEF PingKnows, Tracker!PublishLocation
  <2>3. HeardFollows'
    BY <1>4, <2>1, <2>2 DEF HeardFollows, Healthy, Tracked
  <2>4. QED
    BY <1>2, <1>4, <2>1, <2>3, PingGoesOn
<1>7. ScanTimes'
  BY <1>4 DEF ScanTimes, TrackerInv
<1>8. QED
  BY <1>5, <1>6, <1>7 DEF TrackerInv

LEMMA IngestFailsStep ==
  ASSUME TrackerInv, NEW p \in Workers, Tracker!IngestFails(p)
  PROVE  TrackerInv'
<1>1. ingests' = [ingests EXCEPT ![p] = Tracker!Idle]
  BY DEF Tracker!IngestFails, Tracker!Step
<1>2. ingests' \in [Workers -> Tracker!Ingest \cup {Tracker!Idle}]
  BY <1>1 DEF TrackerInv, Tracker!TypeOK
<1>3. UNCHANGED <<clock, mapped, live, health, sampled, scan, heard, scanned, pings>>
      /\ trackerDisturbed' = TRUE
  BY DEF Tracker!IngestFails, Tracker!Disturbed, TrackerInv, Tracker!TypeOK
<1>4. trackerFaults' \in 0..MaxFaults
  BY BusAssumption DEF TrackerInv, Tracker!TypeOK, Tracker!IngestFails, Tracker!Fault
<1>5. Tracker!TypeOK'
  BY <1>2, <1>3, <1>4 DEF TrackerInv, Tracker!TypeOK,
              Tracker!Times, Tracker!Stamps, Tracker!Row, Tracker!NoRow, Tracker!Scan, Tracker!Idle
<1>6. ScanTimes'
  BY <1>3 DEF ScanTimes, TrackerInv
<1>7. QED
  BY <1>3, <1>5, <1>6 DEF TrackerInv


LEMMA BeginScanStep ==
  ASSUME TrackerInv, Tracker!BeginScan
  PROVE  TrackerInv'
<1>1. /\ scan = Tracker!Idle /\ scan' = [step |-> "dead", at |-> clock]
      /\ UNCHANGED <<clock, mapped, live, health, sampled, ingests, heard, scanned, pings,
                     trackerFaults>>
  BY DEF Tracker!BeginScan
<1>2. scan' \in Tracker!Scan
  BY <1>1 DEF TrackerInv, Tracker!TypeOK, Tracker!Scan
<1>3. Tracker!TypeOK'
  BY <1>1, <1>2 DEF TrackerInv, Tracker!TypeOK, Tracker!BeginScan, Tracker!Disturbed,
              Tracker!Times, Tracker!Stamps, Tracker!Row, Tracker!NoRow, Tracker!Ingest, Tracker!Idle
<1>4. ASSUME ~trackerDisturbed'
      PROVE  Undisturbed'
  <2>1. /\ ~trackerDisturbed /\ Tracker!Busy = {}
        /\ ~(Healthy /\ health.lastPing + Dead < clock)
    BY <1>4 DEF Tracker!BeginScan, Tracker!Disturbed, Healthy, Tracked
  <2>2. \A q \in Workers : ingests[q] = Tracker!Idle
    BY <2>1 DEF Tracker!Busy
  <2>3. Healthy => clock <= health.lastPing + Dead
    <3>1. Healthy => health.lastPing \in Nat
      BY RowTypes, TrackerNumbers DEF TrackerInv, Healthy
    <3>2. QED
      BY <2>1, <3>1, TrackerNumbers, TrackerAssumption DEF TrackerInv
  <2>4. ScanKnows'
    BY <1>1, <2>3 DEF ScanKnows, Healthy, Tracked
  <2>5. HeardFollows
    BY <2>1 DEF TrackerInv, Undisturbed
  <2>6. HeardFollows'
    BY <1>1, <2>5 DEF HeardFollows, Healthy, Tracked, Publishing, Tracker!Idle
  <2>7. QED
    BY <1>1, <2>2, <2>4, <2>6, ScanGoesOn
<1>5. ScanTimes'
  BY <1>1 DEF ScanTimes, TrackerInv
<1>6. QED
  BY <1>3, <1>4, <1>5 DEF TrackerInv

\* No row that was ok becomes dead unannounced: the scan began before that.
LEMMA MarkDeadStep ==
  ASSUME TrackerInv, Tracker!MarkDead
  PROVE  TrackerInv'
<1>1. /\ scan.step = "dead" /\ scan # Tracker!Idle /\ scan.at \in Tracker!Times
      /\ UNCHANGED <<clock, mapped, live, sampled, ingests, heard, scanned, trackerDisturbed,
                     pings, trackerFaults>>
  BY ScanTypes DEF Tracker!MarkDead, TrackerInv
<1>2. scan' \in Tracker!Scan /\ scan'.step = "find" /\ scan'.at = scan.at
  <2>1. scan \in [step : {"dead", "find"}, at : Tracker!Times]
    BY <1>1 DEF TrackerInv, Tracker!TypeOK, Tracker!Scan
  <2>2. QED
    BY <2>1 DEF Tracker!MarkDead, Tracker!Scan
<1>3. /\ health' \in Tracker!Row \cup {Tracker!NoRow}
      /\ Tracked' <=> Tracked
      /\ Tracked => /\ health'.lastPing = health.lastPing
                    /\ \/ health' = health
                       \/ health'.status = "dead" /\ health.lastPing + Dead < scan.at
  <2>1. CASE health' = health
    BY <2>1 DEF TrackerInv, Tracker!TypeOK, Tracked
  <2>2. CASE /\ Tracked /\ health.lastPing + Dead < scan.at
             /\ health' = [health EXCEPT !.status = "dead"]
    <3>1. health \in Tracker!Row
      BY <2>2 DEF TrackerInv, Tracker!TypeOK, Tracked
    <3>2. QED
      BY <2>2, <3>1 DEF Tracker!Row, Tracked, Tracker!NoRow
  <2>3. QED
    BY <2>1, <2>2 DEF Tracker!MarkDead, Tracked
<1>4. Tracker!TypeOK'
  BY <1>1, <1>2, <1>3 DEF TrackerInv, Tracker!TypeOK,
              Tracker!Times, Tracker!Stamps, Tracker!Row, Tracker!NoRow, Tracker!Ingest, Tracker!Idle
<1>5. ASSUME ~trackerDisturbed'
      PROVE  Undisturbed'
  <2>1. /\ \A q \in Workers : ingests[q] = Tracker!Idle
        /\ \A q \in Workers : ~Publishing(q)
        /\ ScanKnows /\ HeardFollows
    BY <1>1, <1>5, ScanAlone
  <2>2. scan.at = clock /\ (Healthy => scan.at <= health.lastPing + Dead)
    BY <1>1, <2>1 DEF ScanKnows, TrackerInv, ScanTimes
  <2>3. Tracked => health.lastPing \in Nat /\ clock \in Nat
    BY RowTypes, TrackerNumbers DEF TrackerInv
  <2>4. Healthy => health' = health
    BY <1>3, <2>2, <2>3, TrackerAssumption DEF Healthy
  <2>5. Healthy' <=> Healthy
    BY <1>3, <2>4 DEF Healthy
  <2>6. ScanKnows'
    BY <1>1, <1>2, <2>2 DEF ScanKnows
  <2>7. HeardFollows'
    BY <1>1, <1>2, <1>3, <2>1, <2>5 DEF HeardFollows, Publishing, Healthy
  <2>8. QED
    BY <1>1, <2>1, <2>6, <2>7, ScanGoesOn
<1>6. ScanTimes'
  BY <1>1, <1>2 DEF ScanTimes, TrackerInv
<1>7. QED
  BY <1>4, <1>5, <1>6 DEF TrackerInv

LEMMA FindStaleStep ==
  ASSUME TrackerInv, Tracker!FindStale
  PROVE  TrackerInv'
<1>1. /\ scan.step = "find" /\ scan # Tracker!Idle /\ scan.at \in Tracker!Times
      /\ UNCHANGED <<clock, mapped, live, health, sampled, ingests, heard, trackerDisturbed,
                     pings, trackerFaults>>
  BY ScanTypes DEF Tracker!FindStale, TrackerInv
<1>2. \/ /\ Healthy /\ health.lastPing + Stale < scan.at /\ scanned' = scanned
         /\ scan' = [step |-> "save", at |-> scan.at, lastPing |-> health.lastPing]
      \/ /\ ~(Healthy /\ health.lastPing + Stale < scan.at)
         /\ scan' = Tracker!Idle /\ scanned' = scan.at
  BY DEF Tracker!FindStale, Healthy, Tracked
<1>3. scan' \in Tracker!Scan \cup {Tracker!Idle} /\ scanned' \in Tracker!Times
  <2>1. Healthy => health.lastPing \in Tracker!Stamps
    BY RowTypes DEF TrackerInv, Healthy
  <2>2. QED
    BY <1>1, <1>2, <2>1 DEF TrackerInv, Tracker!TypeOK, Tracker!Scan
<1>4. Tracker!TypeOK'
  BY <1>1, <1>3 DEF TrackerInv, Tracker!TypeOK,
              Tracker!Times, Tracker!Stamps, Tracker!Row, Tracker!NoRow, Tracker!Ingest, Tracker!Idle
<1>5. scan.at = clock /\ clock \in Nat
  BY <1>1, TrackerNumbers DEF TrackerInv, ScanTimes
<1>6. ASSUME ~trackerDisturbed'
      PROVE  Undisturbed'
  <2>1. /\ \A q \in Workers : ingests[q] = Tracker!Idle
        /\ \A q \in Workers : ~Publishing(q)
        /\ ScanKnows /\ HeardFollows
    BY <1>1, <1>6, ScanAlone
  <2>2. UNCHANGED <<health, heard, clock, sampled, ingests>>
    BY <1>1
  <2>3. scan' = Tracker!Idle \/ scan'.step = "save"
    BY <1>2
  <2>4. Tracked => health.lastPing \in Nat
    BY RowTypes, TrackerNumbers DEF TrackerInv
  <2>5. Healthy => scanned' <= health.lastPing + Stale
    BY <1>2, <1>5, <2>1, <2>4, TrackerAssumption DEF HeardFollows, Healthy
  <2>6. ScanKnows'
    BY <1>2, <2>2 DEF ScanKnows, Healthy, Tracked, Tracker!Idle
  <2>7. HeardFollows'
    BY <1>1, <2>1, <2>2, <2>5 DEF HeardFollows, Healthy, Tracked, Publishing
  <2>8. QED
    BY <2>1, <2>2, <2>6, <2>7, ScanGoesOn
<1>7. ScanTimes'
  BY <1>1, <1>2, <1>5 DEF TrackerInv, ScanTimes, Tracker!Idle
<1>8. QED
  BY <1>4, <1>6, <1>7 DEF TrackerInv


LEMMA SaveStaleStep ==
  ASSUME TrackerInv, Tracker!SaveStale
  PROVE  TrackerInv'
<1>1. /\ scan.step = "save" /\ scan # Tracker!Idle /\ scan.lastPing \in Tracker!Stamps
      /\ UNCHANGED <<clock, mapped, live, sampled, ingests, heard, scanned, trackerDisturbed,
                     pings, trackerFaults>>
      /\ health' = [status |-> "stale", lastPing |-> scan.lastPing]
  BY ScanTypes DEF Tracker!SaveStale, TrackerInv
<1>2. scan' \in Tracker!Scan /\ scan'.step = "publish" /\ scan'.at = scan.at
  <2>1. scan \in [step : {"save", "publish"}, at : Tracker!Times, lastPing : Tracker!Stamps]
    BY <1>1 DEF TrackerInv, Tracker!TypeOK, Tracker!Scan
  <2>2. QED
    BY <2>1 DEF Tracker!SaveStale, Tracker!Scan
<1>3. health' \in Tracker!Row /\ Tracked' /\ ~Healthy' /\ health'.lastPing = scan.lastPing
  BY <1>1 DEF Tracker!Row, Tracker!NoRow, Tracked, Healthy
<1>4. Tracker!TypeOK'
  BY <1>1, <1>2, <1>3 DEF TrackerInv, Tracker!TypeOK,
              Tracker!Times, Tracker!Stamps, Tracker!Row, Tracker!NoRow, Tracker!Ingest, Tracker!Idle
<1>5. ASSUME ~trackerDisturbed'
      PROVE  Undisturbed'
  <2>1. /\ \A q \in Workers : ingests[q] = Tracker!Idle
        /\ ScanKnows /\ HeardFollows
    BY <1>1, <1>5, ScanAlone
  <2>2. Tracked /\ scan.lastPing = health.lastPing /\ health.lastPing + Stale < clock
    BY <1>1, <2>1 DEF ScanKnows, TrackerInv, ScanTimes, Healthy
  <2>3. ScanKnows'
    BY <1>1, <1>2, <1>3 DEF ScanKnows
  <2>4. HeardFollows'
    BY <1>1, <1>2, <1>3, <2>1, <2>2 DEF HeardFollows
  <2>5. QED
    BY <1>1, <2>1, <2>3, <2>4, ScanGoesOn
<1>6. ScanTimes'
  BY <1>1, <1>2 DEF TrackerInv, ScanTimes
<1>7. QED
  BY <1>4, <1>5, <1>6 DEF TrackerInv

LEMMA PublishStaleStep ==
  ASSUME TrackerInv, Tracker!PublishStale
  PROVE  TrackerInv'
<1>1. /\ scan.step = "publish" /\ scan # Tracker!Idle /\ scan.at \in Tracker!Times
      /\ UNCHANGED <<clock, mapped, live, health, sampled, ingests, trackerDisturbed,
                     pings, trackerFaults>>
      /\ heard' = "tracker.stale" /\ scan' = Tracker!Idle /\ scanned' = scan.at
  BY ScanTypes DEF Tracker!PublishStale, TrackerInv
<1>2. Tracker!TypeOK'
  BY <1>1 DEF TrackerInv, Tracker!TypeOK,
              Tracker!Times, Tracker!Stamps, Tracker!Row, Tracker!NoRow, Tracker!Ingest, Tracker!Idle
<1>3. ASSUME ~trackerDisturbed'
      PROVE  Undisturbed'
  <2>1. /\ \A q \in Workers : ingests[q] = Tracker!Idle
        /\ ScanKnows /\ HeardFollows
    BY <1>1, <1>3, ScanAlone
  <2>2. Tracked /\ ~Healthy
    BY <1>1, <2>1 DEF ScanKnows, Healthy
  <2>3. ScanKnows'
    BY <1>1 DEF ScanKnows, Tracker!Idle
  <2>4. HeardFollows'
    BY <1>1, <2>1, <2>2 DEF HeardFollows, Healthy, Tracked
  <2>5. QED
    BY <1>1, <2>1, <2>3, <2>4, ScanGoesOn
<1>4. ScanTimes'
  BY <1>1, TrackerNumbers DEF TrackerInv, ScanTimes
<1>5. QED
  BY <1>2, <1>3, <1>4 DEF TrackerInv

LEMMA ScanFailsStep ==
  ASSUME TrackerInv, Tracker!ScanFails
  PROVE  TrackerInv'
<1>1. /\ scan # Tracker!Idle /\ scan' = Tracker!Idle
      /\ UNCHANGED <<clock, mapped, live, health, sampled, ingests, heard, scanned, pings>>
  BY DEF Tracker!ScanFails
<1>2. trackerFaults' \in 0..MaxFaults /\ trackerDisturbed' \in BOOLEAN
  BY BusAssumption DEF TrackerInv, Tracker!TypeOK, Tracker!ScanFails, Tracker!Fault, Tracker!Disturbed
<1>3. Tracker!TypeOK'
  BY <1>1, <1>2 DEF TrackerInv, Tracker!TypeOK,
              Tracker!Times, Tracker!Stamps, Tracker!Row, Tracker!NoRow, Tracker!Ingest, Tracker!Idle
<1>4. ASSUME ~trackerDisturbed'
      PROVE  Undisturbed'
  <2>1. ~trackerDisturbed /\ scan.step # "publish"
    BY <1>4 DEF Tracker!ScanFails, Tracker!Disturbed
  <2>2. /\ \A q \in Workers : ingests[q] = Tracker!Idle
        /\ HeardFollows
    BY <1>1, <2>1, ScanAlone
  <2>3. ScanKnows'
    BY <1>1 DEF ScanKnows, Tracker!Idle
  <2>4. HeardFollows'
    BY <1>1, <2>1, <2>2 DEF HeardFollows, Healthy, Tracked, Publishing
  <2>5. QED
    BY <1>1, <2>2, <2>3, <2>4, ScanGoesOn
<1>5. ScanTimes'
  BY <1>1 DEF TrackerInv, ScanTimes
<1>6. QED
  BY <1>3, <1>4, <1>5 DEF TrackerInv

\* The throttle is empty after a restart, so that the next sample is due.
LEMMA TrackerRestartStep ==
  ASSUME TrackerInv, Tracker!Restart
  PROVE  TrackerInv'
<1>1. /\ sampled' = 0 /\ ingests' = [p \in Workers |-> Tracker!Idle] /\ scan' = Tracker!Idle
      /\ UNCHANGED <<clock, live, health, heard, scanned, pings>>
  BY DEF Tracker!Restart
<1>2. trackerFaults' \in 0..MaxFaults /\ trackerDisturbed' \in BOOLEAN /\ mapped' \in BOOLEAN
  <2>1. mapped' = FALSE /\ trackerFaults < MaxFaults /\ trackerFaults' = trackerFaults + 1
    BY DEF Tracker!Restart, Tracker!Fault
  <2>2. trackerFaults' \in 0..MaxFaults
    BY <2>1, BusAssumption DEF TrackerInv, Tracker!TypeOK
  <2>3. trackerDisturbed' \in BOOLEAN
    BY DEF TrackerInv, Tracker!TypeOK, Tracker!Restart, Tracker!Disturbed
  <2>4. QED
    BY <2>1, <2>2, <2>3
<1>3. Tracker!TypeOK'
  BY <1>1, <1>2, TrackerAssumption DEF TrackerInv, Tracker!TypeOK,
              Tracker!Times, Tracker!Stamps, Tracker!Row, Tracker!NoRow, Tracker!Ingest, Tracker!Idle
<1>4. ASSUME ~trackerDisturbed'
      PROVE  Undisturbed'
  <2>1. ~trackerDisturbed /\ scan.step # "publish" /\ Tracker!Busy = {}
    BY <1>4 DEF Tracker!Restart, Tracker!Disturbed
  <2>2. \A q \in Workers : ~Publishing(q)
    BY <2>1 DEF Publishing, Tracker!Busy, Tracker!Idle
  <2>3. HeardFollows
    BY <2>1 DEF TrackerInv, Undisturbed
  <2>4. ScanKnows'
    BY <1>1 DEF ScanKnows, Tracker!Idle
  <2>5. HeardFollows'
    BY <1>1, <2>1, <2>2, <2>3 DEF HeardFollows, Healthy, Tracked
  <2>6. \A q \in Workers : ingests'[q] = Tracker!Idle
    BY <1>1
  <2>7. QED
    BY <2>4, <2>5, <2>6 DEF Undisturbed
<1>5. ScanTimes'
  BY <1>1 DEF TrackerInv, ScanTimes
<1>6. QED
  BY <1>3, <1>4, <1>5 DEF TrackerInv

\* Nothing is at work when the clock advances.
LEMMA TrackerTickStep ==
  ASSUME TrackerInv, Tracker!Tick
  PROVE  TrackerInv'
<1>1. /\ scan = Tracker!Idle /\ Tracker!Busy = {} /\ clock < TrackerTime /\ clock' = clock + 1
      /\ UNCHANGED <<mapped, live, health, sampled, ingests, scan, heard, scanned,
                     trackerDisturbed, pings, trackerFaults>>
  BY DEF Tracker!Tick
<1>2. clock' \in Tracker!Times /\ clock' \in Nat /\ clock < clock'
  BY <1>1, TrackerAssumption DEF TrackerInv, Tracker!TypeOK, Tracker!Times
<1>3. Tracker!TypeOK'
  BY <1>1, <1>2 DEF TrackerInv, Tracker!TypeOK,
              Tracker!Times, Tracker!Stamps, Tracker!Row, Tracker!NoRow, Tracker!Ingest, Tracker!Idle
<1>4. ASSUME ~trackerDisturbed'
      PROVE  Undisturbed'
  <2>1. Undisturbed
    BY <1>1, <1>4 DEF TrackerInv
  <2>2. \A q \in Workers : ingests[q] = Tracker!Idle
    BY <1>1 DEF Tracker!Busy
  <2>3. Tracked => health.lastPing \in Nat
    BY RowTypes, TrackerNumbers DEF TrackerInv
  <2>4. ScanKnows'
    BY <1>1 DEF ScanKnows, Tracker!Idle
  <2>5. Tracked /\ ~Healthy => health.lastPing + Stale < clock'
    BY <1>2, <2>1, <2>3, TrackerNumbers, TrackerAssumption DEF Undisturbed, HeardFollows, TrackerInv
  <2>6. HeardFollows'
    BY <1>1, <2>1, <2>5 DEF Undisturbed, HeardFollows, Healthy, Tracked, Publishing
  <2>7. QED
    BY <1>1, <2>2, <2>4, <2>6, ScanGoesOn
<1>5. ScanTimes'
  BY <1>1, <1>2, TrackerNumbers DEF TrackerInv, ScanTimes
<1>6. QED
  BY <1>3, <1>4, <1>5 DEF TrackerInv

LEMMA DeviceMapped ==
  ASSUME TrackerInv, Tracker!OnVehicleUpdated \/ UNCHANGED tracker
  PROVE  TrackerInv'
<1>1. /\ UNCHANGED <<clock, live, health, sampled, ingests, scan, heard, scanned,
                     trackerDisturbed, pings, trackerFaults>>
      /\ mapped' \in BOOLEAN
  BY DEF Tracker!OnVehicleUpdated, tracker, TrackerInv, Tracker!TypeOK
<1>2. Tracker!TypeOK'
  BY <1>1 DEF TrackerInv, Tracker!TypeOK,
              Tracker!Times, Tracker!Stamps, Tracker!Row, Tracker!NoRow, Tracker!Ingest, Tracker!Idle
<1>3. \A p \in Workers : PingKnows(p) => PingKnows(p)'
  BY <1>1 DEF PingKnows, Healthy, Tracked
<1>4. ScanKnows => ScanKnows'
  BY <1>1 DEF ScanKnows, Healthy, Tracked
<1>5. HeardFollows => HeardFollows'
  BY <1>1 DEF HeardFollows, Healthy, Tracked, Publishing
<1>6. QED
  BY <1>1, <1>2, <1>3, <1>4, <1>5 DEF TrackerInv, ScanTimes, Undisturbed

LEMMA TrackerSide == [Next]_vars => UNCHANGED tracker \/ Tracker!Next
BY DEF Next, vars, tracker

LEMMA TrackerStep ==
  ASSUME TrackerInv, [Next]_vars
  PROVE  TrackerInv'
<1>1. ASSUME NEW p \in Workers,
             \/ \E ts \in {clock, clock + Skew, clock + Skew + 1} \cup
                          {t \in Tracker!Times : t + 1 = clock} : Tracker!OnMessage(p, ts)
             \/ Tracker!UpsertLive(p) \/ Tracker!TouchHealth(p) \/ Tracker!PublishLocation(p)
             \/ Tracker!IngestFails(p)
      PROVE  TrackerInv'
  BY <1>1, OnMessageStep, UpsertLiveStep, TouchHealthStep, PublishLocationStep, IngestFailsStep
<1>2. CASE Tracker!BeginScan \/ Tracker!MarkDead \/ Tracker!FindStale
  BY <1>2, BeginScanStep, MarkDeadStep, FindStaleStep
<1>3. CASE Tracker!SaveStale \/ Tracker!PublishStale \/ Tracker!ScanFails
  BY <1>3, SaveStaleStep, PublishStaleStep, ScanFailsStep
<1>4. CASE Tracker!Tick \/ Tracker!OnVehicleUpdated \/ Tracker!Restart \/ UNCHANGED tracker
  BY <1>4, TrackerTickStep, DeviceMapped, TrackerRestartStep
<1>5. QED
  BY <1>1, <1>2, <1>3, <1>4, TrackerSide DEF Tracker!Next

LEMMA TrackerInvariant == Spec => []TrackerInv
<1>1. Init => TrackerInv
  BY TrackerInit DEF Init
<1>2. TrackerInv /\ [Next]_vars => TrackerInv'
  BY TrackerStep
<1>3. QED
  BY <1>1, <1>2, PTL DEF Spec

\* Dispatch takes a tracker for stale exactly when its row says so, between pings
\* and scans and unless something disturbed them: every silence is announced, and
\* the first ping after it is a sample that is due (tracker-health.service.ts scan,
\* tracking.service.ts ingest, sampling-throttle.ts shouldPublish).
THEOREM DispatchHearsTheTracker == Spec => []DispatchAgrees
<1>1. TrackerInv => DispatchAgrees
  <2> SUFFICES ASSUME TrackerInv, Tracker!Busy = {}, scan = Tracker!Idle, ~trackerDisturbed,
                      health # Tracker!NoRow
               PROVE  /\ heard = IF health.status = "ok" THEN "vehicle.location.updated"
                                                         ELSE "tracker.stale"
                      /\ health.status = "ok" => scanned <= health.lastPing + Stale
    BY DEF DispatchAgrees, Tracker!DispatchAgrees
  <2>1. HeardFollows
    BY DEF TrackerInv, Undisturbed
  <2>2. \A p \in Workers : ~Publishing(p)
    BY DEF Publishing, Tracker!Busy, Tracker!Idle
  <2>3. scan.step # "publish"
    BY DEF Tracker!Idle
  <2>4. QED
    BY <2>1, <2>2, <2>3 DEF HeardFollows, Healthy, Tracked
<1>2. QED
  BY <1>1, TrackerInvariant, PTL


-----------------------------------------------------------------------------
(***************************************************************************)
(* The zones: while calls do not overlap, what the one call at work has    *)
(* read still holds when it writes.                                        *)
(***************************************************************************)
\* The open pairings of a vehicle, and the zone of each vehicle, in a table ps.
Open(ps, v) == {i \in DOMAIN ps : ps[i].vehicle = v /\ ps[i].open}

PairedIn(ps) ==
  [v \in Vehicles |->
     IF Open(ps, v) = {} THEN Zoning!NoZone
     ELSE ps[CHOOSE i \in Open(ps, v) : \A j \in Open(ps, v) : j <= i].zone]

OneOpen(ps) == \A v \in Vehicles : \A i, j \in Open(ps, v) : i = j

\* A table after the commit of a pairing that closes the rows `closing`.
Committed(ps, v, z, closing) ==
  Append([i \in DOMAIN ps |-> [ps[i] EXCEPT !.open = ps[i].open /\ i \notin closing]],
         [vehicle |-> v, zone |-> z, open |-> TRUE])

ZoneRow == [status : {"active", "inactive"}, version : Nat \ {0}]

ZoneCallTyped(c) ==
  \/ c = Zoning!Idle
  \/ c.phase = "saving" /\ c.zone \in ZoneIds /\ c.entity \in ZoneRow
  \/ c.phase \in {"pairing", "inserting", "setting"} /\ c.vehicle \in Vehicles /\ c.zone \in ZoneIds
  \/ c.phase \in {"reloading", "zonesRead", "pairingsRead"}

ZoneTyped ==
  /\ zones \in [ZoneIds -> ZoneRow \cup {Zoning!Absent}]
  /\ zoneVersions \in [ZoneIds -> Seq(Nat)]
  /\ pairings \in Seq(Zoning!Pairing)
  /\ announced \in [Vehicles -> ZoneIds \cup {Zoning!NoZone}]
  /\ zoneCalls = [w \in Workers |-> zoneCalls[w]]
  /\ \A w \in Workers : ZoneCallTyped(zoneCalls[w])
  /\ zonesOverlapped \in BOOLEAN /\ cut \in BOOLEAN

\* What the cache holds, while a call without failures before it is at step c.
CacheKnows(c) ==
  /\ c.phase \notin {"reloading", "zonesRead"} => activeZones = Zoning!Active
  /\ c.phase # "setting" => vehicleToZone = PairedIn(pairings)
  /\ c.phase = "setting" => PairedIn(pairings) = [vehicleToZone EXCEPT ![c.vehicle] = c.zone]
  /\ c.phase = "zonesRead" => c.active = Zoning!Active
  /\ c.phase = "pairingsRead" => c.paired = PairedIn(pairings)

ZoneKnows(c) ==
  /\ c.phase = "saving" =>
       /\ zones[c.zone] # Zoning!Absent
       /\ c.entity.version = IF c.boundary THEN zones[c.zone].version + 1
                                           ELSE zones[c.zone].version
  /\ c.phase = "inserting" => c.closing = Open(pairings, c.vehicle)
  /\ ~cut => CacheKnows(c)

VersionsRight == \A z \in ZoneIds : zoneVersions[z] = [i \in 1..zones[z].version |-> i]

PairingsRight == OneOpen(pairings) /\ PairedIn(pairings) = announced

\* One call at a time, and what it knows; Idle stands for no call.
OneCall ==
  /\ \A w, o \in Workers : zoneCalls[w] # Zoning!Idle /\ zoneCalls[o] # Zoning!Idle => w = o
  /\ \A w \in Workers : zoneCalls[w] # Zoning!Idle => ZoneKnows(zoneCalls[w])
  /\ (\A w \in Workers : zoneCalls[w] = Zoning!Idle) => ZoneKnows(Zoning!Idle)

ZoneInv ==
  /\ ZoneTyped
  /\ ~zonesOverlapped => VersionsRight /\ PairingsRight /\ OneCall

LEMMA PairedSame ==
  Zoning!Paired = PairedIn(pairings) /\ \A v : Zoning!OpenOf(v) = Open(pairings, v)
BY DEF Zoning!Paired, Zoning!OpenOf, PairedIn, Open

LEMMA PairedOne ==
  ASSUME NEW ps \in Seq(Zoning!Pairing), NEW v \in Vehicles, NEW k \in Open(ps, v),
         \A j \in Open(ps, v) : j = k
  PROVE  PairedIn(ps)[v] = ps[k].zone
<1>1. k \in Nat
  BY LenProperties DEF Open
<1>2. \A j \in Open(ps, v) : j <= k
  BY <1>1
<1>3. PICK c : c = CHOOSE i \in Open(ps, v) : \A j \in Open(ps, v) : j <= i
  OBVIOUS
<1>4. c \in Open(ps, v)
  BY <1>2, <1>3
<1>5. QED
  BY <1>3, <1>4 DEF PairedIn

LEMMA CommittedPairs ==
  ASSUME NEW ps \in Seq(Zoning!Pairing), NEW v \in Vehicles, NEW z \in ZoneIds, NEW closing,
         NEW qs, qs = Committed(ps, v, z, closing)
  PROVE  /\ qs \in Seq(Zoning!Pairing)
         /\ OneOpen(ps) /\ closing = Open(ps, v) =>
              OneOpen(qs) /\ PairedIn(qs) = [PairedIn(ps) EXCEPT ![v] = z]
<1>1. PICK rs : rs = [i \in DOMAIN ps |-> [ps[i] EXCEPT !.open = ps[i].open /\ i \notin closing]]
  OBVIOUS
<1>2. PICK new : new = [vehicle |-> v, zone |-> z, open |-> TRUE]
  OBVIOUS
<1>3. PICK n : n = Len(ps)
  OBVIOUS
<1>4. n \in Nat /\ DOMAIN ps = 1..n /\ \A i \in 1..n : ps[i] \in Zoning!Pairing
  BY <1>3, LenProperties, ElementOfSeq
<1>5. \A i \in 1..n : /\ rs[i] \in Zoning!Pairing
                      /\ rs[i].vehicle = ps[i].vehicle /\ rs[i].zone = ps[i].zone
                      /\ rs[i].open <=> ps[i].open /\ i \notin closing
  BY <1>1, <1>4 DEF Zoning!Pairing
<1>6. rs \in Seq(Zoning!Pairing) /\ Len(rs) = n
  <2>1. rs \in [1..n -> Zoning!Pairing]
    BY <1>1, <1>4, <1>5
  <2>2. QED
    BY <1>4, <2>1, SeqDef, LenProperties
<1>7. new \in Zoning!Pairing
  BY <1>2 DEF Zoning!Pairing
<1>8. qs = Append(rs, new)
  BY <1>1, <1>2 DEF Committed
<1>9. /\ qs \in Seq(Zoning!Pairing) /\ Len(qs) = n + 1 /\ DOMAIN qs = 1..(n + 1)
      /\ \A i \in 1..n : qs[i] = rs[i]
      /\ qs[n + 1] = new
  BY <1>4, <1>6, <1>7, <1>8, AppendProperties, LenProperties
<1>10. ASSUME OneOpen(ps), closing = Open(ps, v)
       PROVE  OneOpen(qs) /\ PairedIn(qs) = [PairedIn(ps) EXCEPT ![v] = z]
  <2>1. Open(qs, v) = {n + 1}
    <3>1. \A i \in 1..n : i \notin Open(qs, v)
      BY <1>4, <1>5, <1>9, <1>10 DEF Open
    <3>2. n + 1 \in Open(qs, v)
      BY <1>2, <1>4, <1>9 DEF Open
    <3>3. QED
      BY <1>4, <1>9, <3>1, <3>2 DEF Open
  <2>2. ASSUME NEW u \in Vehicles, u # v
        PROVE  /\ Open(qs, u) = Open(ps, u)
               /\ \A i \in Open(ps, u) : qs[i].zone = ps[i].zone
    <3>1. \A i \in 1..n : i \in Open(qs, u) <=> i \in Open(ps, u)
      BY <1>4, <1>5, <1>9, <1>10, <2>2 DEF Open
    <3>2. n + 1 \notin Open(qs, u) /\ n + 1 \notin Open(ps, u)
      BY <1>2, <1>4, <1>9, <2>2 DEF Open
    <3>3. \A i \in Open(qs, u) \cup Open(ps, u) : i \in 1..(n + 1)
      BY <1>4, <1>9 DEF Open
    <3>4. \A i \in 1..(n + 1) : i \in 1..n \/ i = n + 1
      BY <1>4
    <3>5. Open(qs, u) = Open(ps, u)
      <4>1. \A i : i \in Open(qs, u) <=> i \in Open(ps, u)
        BY <3>1, <3>2, <3>3, <3>4
      <4>2. QED
        BY <4>1
    <3>6. QED
      BY <1>4, <1>5, <1>9, <3>5 DEF Open
  <2>3. OneOpen(qs)
    BY <1>10, <2>1, <2>2 DEF OneOpen
  <2>4. PairedIn(qs)[v] = z
    BY <1>2, <1>9, <2>1, PairedOne
  <2>5. ASSUME NEW u \in Vehicles, u # v
        PROVE  PairedIn(qs)[u] = PairedIn(ps)[u]
    <3>1. CASE Open(ps, u) = {}
      BY <2>2, <2>5, <3>1 DEF PairedIn
    <3>2. CASE Open(ps, u) # {}
      <4>1. PICK k \in Open(ps, u) : \A j \in Open(ps, u) : j = k
        BY <1>10, <2>5, <3>2 DEF OneOpen
      <4>2. PairedIn(ps)[u] = ps[k].zone
        BY <2>5, <4>1, PairedOne
      <4>3. PairedIn(qs)[u] = qs[k].zone
        BY <1>9, <2>2, <2>5, <4>1, PairedOne
      <4>4. QED
        BY <2>2, <2>5, <4>1, <4>2, <4>3
    <3>3. QED
      BY <3>1, <3>2
  <2>6. PICK f, g : f = PairedIn(ps) /\ g = PairedIn(qs)
    OBVIOUS
  <2>7. f = [u \in Vehicles |-> f[u]] /\ g = [u \in Vehicles |-> g[u]]
    BY <2>6 DEF PairedIn
  <2>8. g[v] = z /\ \A u \in Vehicles : u # v => g[u] = f[u]
    BY <2>4, <2>5, <2>6
  <2>9. g = [f EXCEPT ![v] = z]
    BY <2>7, <2>8
  <2>10. QED
    BY <2>3, <2>6, <2>9
<1>11. QED
  BY <1>9, <1>10


LEMMA VersionsGrow ==
  ASSUME NEW n \in Nat
  PROVE  Append([i \in 1..n |-> i], n + 1) = [i \in 1..(n + 1) |-> i]
<1>1. PICK s : s = [i \in 1..n |-> i]
  OBVIOUS
<1>2. s \in Seq(Nat) /\ Len(s) = n
  BY <1>1
<1>3. PICK t : t = Append(s, n + 1)
  OBVIOUS
<1>4. /\ t \in Seq(Nat) /\ Len(t) = n + 1
      /\ \A i \in 1..n : t[i] = s[i]
      /\ t[n + 1] = n + 1
  BY <1>2, <1>3, AppendProperties
<1>5. \A i \in 1..(n + 1) : t[i] = i
  BY <1>1, <1>4
<1>6. t = [i \in 1..(n + 1) |-> t[i]]
  BY <1>4, LenProperties
<1>7. QED
  BY <1>1, <1>3, <1>5, <1>6

LEMMA ZoneInit == Zoning!Init => ZoneInv
<1> SUFFICES ASSUME Zoning!Init
             PROVE  ZoneInv
  OBVIOUS
<1>1. PairedIn(pairings) = [v \in Vehicles |-> Zoning!NoZone] /\ OneOpen(pairings)
  BY DEF Zoning!Init, PairedIn, OneOpen, Open
<1>2. ZoneTyped
  <2>1. zones \in [ZoneIds -> ZoneRow \cup {Zoning!Absent}]
    BY DEF Zoning!Init
  <2>2. <<>> \in Seq(Nat) /\ <<>> \in Seq(Zoning!Pairing)
    OBVIOUS
  <2>3. zoneVersions \in [ZoneIds -> Seq(Nat)] /\ pairings \in Seq(Zoning!Pairing)
    BY <2>2 DEF Zoning!Init
  <2>4. announced \in [Vehicles -> ZoneIds \cup {Zoning!NoZone}]
    BY DEF Zoning!Init
  <2>5. /\ zoneCalls = [w \in Workers |-> zoneCalls[w]]
        /\ \A w \in Workers : ZoneCallTyped(zoneCalls[w])
    BY DEF Zoning!Init, ZoneCallTyped
  <2>6. QED
    BY <2>1, <2>3, <2>4, <2>5 DEF Zoning!Init, ZoneTyped
<1>3. VersionsRight
  BY DEF Zoning!Init, VersionsRight, Zoning!Absent
<1>4. ZoneKnows(Zoning!Idle)
  BY <1>1 DEF Zoning!Init, ZoneKnows, CacheKnows, Zoning!Idle, Zoning!Active, Zoning!Absent
<1>5. PairingsRight
  BY <1>1 DEF PairingsRight, Zoning!Init
<1>6. OneCall
  BY <1>4 DEF OneCall, Zoning!Init
<1>7. QED
  BY <1>2, <1>3, <1>5, <1>6 DEF ZoneInv

\* The call of w goes on or begins.
Goes(w, call) == zoneCalls' = [zoneCalls EXCEPT ![w] = call]

Others(w) == \A o \in Workers \ {w} : zoneCalls[o] = Zoning!Idle

LEMMA WentOn ==
  ASSUME ZoneTyped, NEW w \in Workers, NEW call, Goes(w, call)
  PROVE  /\ zoneCalls'[w] = call
         /\ \A o \in Workers \ {w} : zoneCalls'[o] = zoneCalls[o]
         /\ zoneCalls' = [o \in Workers |-> zoneCalls'[o]]
BY DEF ZoneTyped, Goes

LEMMA ZoneTypedGoes ==
  ASSUME ZoneTyped, NEW w \in Workers, NEW call, Goes(w, call), ZoneCallTyped(call),
         zones' \in [ZoneIds -> ZoneRow \cup {Zoning!Absent}],
         zoneVersions' \in [ZoneIds -> Seq(Nat)],
         pairings' \in Seq(Zoning!Pairing),
         announced' \in [Vehicles -> ZoneIds \cup {Zoning!NoZone}],
         zonesOverlapped' \in BOOLEAN, cut' \in BOOLEAN
  PROVE  ZoneTyped'
<1>1. \A o \in Workers : ZoneCallTyped(zoneCalls'[o])
  BY WentOn DEF ZoneTyped
<1>2. QED
  BY <1>1, WentOn DEF ZoneTyped, ZoneCallTyped, Zoning!Absent, Zoning!Pairing

LEMMA OneCallGoes ==
  ASSUME ZoneTyped, NEW w \in Workers, NEW call, Goes(w, call), Others(w),
         ZoneKnows(call)'
  PROVE  OneCall'
<1>1. /\ zoneCalls'[w] = call
      /\ \A o \in Workers \ {w} : zoneCalls'[o] = Zoning!Idle
  BY WentOn DEF Others
<1>2. \A o \in Workers : zoneCalls'[o] # Zoning!Idle => o = w
  BY <1>1
<1>3. zoneCalls'[w] # Zoning!Idle => ZoneKnows(zoneCalls[w])'
  BY <1>1
<1>4. (\A o \in Workers : zoneCalls'[o] = Zoning!Idle) => ZoneKnows(Zoning!Idle)'
  BY <1>1
<1>5. QED
  BY <1>2, <1>3, <1>4 DEF OneCall

\* A call at work is alone and knows what it needs.
LEMMA CallAlone ==
  ASSUME ZoneInv, ~zonesOverlapped, NEW w \in Workers, zoneCalls[w] # Zoning!Idle
  PROVE  Others(w) /\ ZoneKnows(zoneCalls[w]) /\ VersionsRight /\ PairingsRight
BY DEF ZoneInv, OneCall, Others

\* So is one that begins.
LEMMA CallBegins ==
  ASSUME ZoneInv, NEW w \in Workers, NEW call, Zoning!Begin(w, call)
  PROVE  /\ Goes(w, call) /\ zoneCalls[w] = Zoning!Idle
         /\ UNCHANGED cut /\ zonesOverlapped' \in BOOLEAN
         /\ ~zonesOverlapped' =>
              /\ ~zonesOverlapped /\ Others(w) /\ ZoneKnows(Zoning!Idle)
              /\ VersionsRight /\ PairingsRight
<1>1. /\ Goes(w, call) /\ zoneCalls[w] = Zoning!Idle /\ UNCHANGED cut
      /\ zonesOverlapped' = (zonesOverlapped \/ \E o \in Workers : zoneCalls[o] # Zoning!Idle)
  BY DEF Zoning!Begin, Zoning!Enter, Goes
<1>2. ASSUME ~zonesOverlapped'
      PROVE  ~zonesOverlapped /\ \A o \in Workers : zoneCalls[o] = Zoning!Idle
  BY <1>1, <1>2
<1>3. QED
  BY <1>1, <1>2 DEF ZoneInv, OneCall, Others, ZoneTyped

LEMMA CreateStep ==
  ASSUME ZoneInv, NEW w \in Workers, NEW z \in ZoneIds, Zoning!Create(w, z)
  PROVE  ZoneInv'
<1>1. PICK call : call = [phase |-> "reloading"]
  OBVIOUS
<1>2. Zoning!Begin(w, call)
  BY <1>1 DEF Zoning!Create
<1>3. PICK row : row = [status |-> "active", version |-> 1]
  OBVIOUS
<1>4. /\ zones' = [zones EXCEPT ![z] = row] /\ zoneVersions' = [zoneVersions EXCEPT ![z] = <<1>>]
      /\ UNCHANGED <<pairings, announced, activeZones, vehicleToZone>>
  BY <1>3 DEF Zoning!Create, Zoning!cache
<1>5. row \in ZoneRow
  BY <1>3 DEF ZoneRow
<1>6. /\ zones' \in [ZoneIds -> ZoneRow \cup {Zoning!Absent}]
      /\ zoneVersions' \in [ZoneIds -> Seq(Nat)]
  <2>1. <<1>> \in Seq(Nat)
    OBVIOUS
  <2>2. QED
    BY <1>4, <1>5, <2>1 DEF ZoneInv, ZoneTyped
<1>7. ZoneCallTyped(call)
  BY <1>1 DEF ZoneCallTyped
<1>8. Goes(w, call) /\ UNCHANGED cut /\ zonesOverlapped' \in BOOLEAN
  BY <1>2, CallBegins
<1>9. ZoneTyped'
  BY <1>4, <1>6, <1>7, <1>8, ZoneTypedGoes DEF ZoneInv, ZoneTyped
<1>10. ASSUME ~zonesOverlapped'
       PROVE  VersionsRight' /\ PairingsRight' /\ OneCall'
  <2>1. Others(w) /\ ZoneKnows(Zoning!Idle) /\ VersionsRight /\ PairingsRight
    BY <1>2, <1>10, CallBegins
  <2>2. <<1>> = [i \in 1..1 |-> i]
    OBVIOUS
  <2>3. VersionsRight'
    BY <1>3, <1>4, <2>1, <2>2 DEF VersionsRight, ZoneInv, ZoneTyped
  <2>4. PairingsRight'
    BY <1>4, <2>1 DEF PairingsRight
  <2>5. ZoneKnows(call)'
    BY <1>1, <1>4, <1>8, <2>1 DEF ZoneKnows, CacheKnows, Zoning!Idle
  <2>6. OneCall'
    BY <1>8, <2>1, <2>5, OneCallGoes DEF ZoneInv
  <2>7. QED
    BY <2>3, <2>4, <2>6
<1>11. QED
  BY <1>9, <1>10 DEF ZoneInv

LEMMA LoadZoneStep ==
  ASSUME ZoneInv, NEW w \in Workers, NEW z \in ZoneIds,
         NEW change \in {"active", "inactive", "boundary"}, Zoning!LoadZone(w, z, change)
  PROVE  ZoneInv'
<1>1. PICK entity : entity = IF change = "boundary"
                               THEN [zones[z] EXCEPT !.version = zones[z].version + 1]
                               ELSE [zones[z] EXCEPT !.status = change]
  OBVIOUS
<1>2. PICK call : call = [phase |-> "saving", zone |-> z, entity |-> entity,
                          boundary |-> change = "boundary"]
  OBVIOUS
<1>3. Zoning!Begin(w, call) /\ zones[z] # Zoning!Absent
  BY <1>1, <1>2 DEF Zoning!LoadZone
<1>4. UNCHANGED <<zones, zoneVersions, pairings, announced, activeZones, vehicleToZone>>
  BY DEF Zoning!LoadZone, Zoning!tables, Zoning!cache
<1>5. zones[z] \in ZoneRow
  BY <1>3 DEF ZoneInv, ZoneTyped
<1>6. /\ entity \in ZoneRow
      /\ entity.version = IF change = "boundary" THEN zones[z].version + 1 ELSE zones[z].version
  BY <1>1, <1>5 DEF ZoneRow
<1>7. ZoneCallTyped(call)
  BY <1>2, <1>6 DEF ZoneCallTyped
<1>8. Goes(w, call) /\ UNCHANGED cut /\ zonesOverlapped' \in BOOLEAN
  BY <1>3, CallBegins
<1>9. ZoneTyped'
  BY <1>4, <1>7, <1>8, ZoneTypedGoes DEF ZoneInv, ZoneTyped
<1>10. ASSUME ~zonesOverlapped'
       PROVE  VersionsRight' /\ PairingsRight' /\ OneCall'
  <2>1. Others(w) /\ ZoneKnows(Zoning!Idle) /\ VersionsRight /\ PairingsRight
    BY <1>3, <1>10, CallBegins
  <2>2. VersionsRight' /\ PairingsRight'
    BY <1>4, <2>1 DEF VersionsRight, PairingsRight
  <2>3. ZoneKnows(call)'
    BY <1>2, <1>3, <1>4, <1>6, <1>8, <2>1
       DEF ZoneKnows, CacheKnows, Zoning!Idle, Zoning!Active
  <2>4. OneCall'
    BY <1>8, <2>1, <2>3, OneCallGoes DEF ZoneInv
  <2>5. QED
    BY <2>2, <2>4
<1>11. QED
  BY <1>9, <1>10 DEF ZoneInv

LEMMA PairVehicleStep ==
  ASSUME ZoneInv, NEW w \in Workers, NEW v \in Vehicles, NEW z \in ZoneIds,
         Zoning!PairVehicle(w, v, z)
  PROVE  ZoneInv'
<1>1. PICK call : call = [phase |-> "pairing", vehicle |-> v, zone |-> z]
  OBVIOUS
<1>2. Zoning!Begin(w, call)
  BY <1>1 DEF Zoning!PairVehicle
<1>3. UNCHANGED <<zones, zoneVersions, pairings, announced, activeZones, vehicleToZone>>
  BY DEF Zoning!PairVehicle, Zoning!tables, Zoning!cache
<1>4. ZoneCallTyped(call)
  BY <1>1 DEF ZoneCallTyped
<1>5. Goes(w, call) /\ UNCHANGED cut /\ zonesOverlapped' \in BOOLEAN
  BY <1>2, CallBegins
<1>6. ZoneTyped'
  BY <1>3, <1>4, <1>5, ZoneTypedGoes DEF ZoneInv, ZoneTyped
<1>7. ASSUME ~zonesOverlapped'
      PROVE  VersionsRight' /\ PairingsRight' /\ OneCall'
  <2>1. Others(w) /\ ZoneKnows(Zoning!Idle) /\ VersionsRight /\ PairingsRight
    BY <1>2, <1>7, CallBegins
  <2>2. VersionsRight' /\ PairingsRight'
    BY <1>3, <2>1 DEF VersionsRight, PairingsRight
  <2>3. ZoneKnows(call)'
    BY <1>1, <1>3, <1>5, <2>1 DEF ZoneKnows, CacheKnows, Zoning!Idle, Zoning!Active
  <2>4. OneCall'
    BY <1>5, <2>1, <2>3, OneCallGoes DEF ZoneInv
  <2>5. QED
    BY <2>2, <2>4
<1>8. QED
  BY <1>6, <1>7 DEF ZoneInv


LEMMA SaveZoneStep ==
  ASSUME ZoneInv, NEW w \in Workers, Zoning!SaveZone(w)
  PROVE  ZoneInv'
<1>1. PICK c : c = zoneCalls[w]
  OBVIOUS
<1>2. PICK call : call = [phase |-> "reloading"]
  OBVIOUS
<1>3. /\ c.phase = "saving" /\ c # Zoning!Idle /\ Goes(w, call)
      /\ zones' = [zones EXCEPT ![c.zone] = c.entity]
      /\ zoneVersions' = IF c.boundary
           THEN [zoneVersions EXCEPT ![c.zone] = Append(zoneVersions[c.zone], c.entity.version)]
           ELSE zoneVersions
      /\ UNCHANGED <<pairings, announced, activeZones, vehicleToZone, zonesOverlapped, cut>>
  BY <1>1, <1>2 DEF Zoning!SaveZone, Zoning!Enter, Goes, Zoning!cache, Zoning!ghosts, Zoning!Idle
<1>4. c.zone \in ZoneIds /\ c.entity \in ZoneRow /\ c.entity.version \in Nat \ {0}
  <2>1. c.zone \in ZoneIds /\ c.entity \in ZoneRow
    BY <1>1, <1>3 DEF ZoneInv, ZoneTyped, ZoneCallTyped
  <2>2. QED
    BY <2>1 DEF ZoneRow
<1>5. /\ zones' \in [ZoneIds -> ZoneRow \cup {Zoning!Absent}]
      /\ zoneVersions' \in [ZoneIds -> Seq(Nat)]
  <2>1. Append(zoneVersions[c.zone], c.entity.version) \in Seq(Nat)
    BY <1>4, AppendProperties DEF ZoneInv, ZoneTyped
  <2>2. QED
    BY <1>3, <1>4, <2>1 DEF ZoneInv, ZoneTyped
<1>6. ZoneTyped'
  BY <1>2, <1>3, <1>5, ZoneTypedGoes DEF ZoneInv, ZoneTyped, ZoneCallTyped
<1>7. ASSUME ~zonesOverlapped'
      PROVE  VersionsRight' /\ PairingsRight' /\ OneCall'
  <2>1. Others(w) /\ ZoneKnows(c) /\ VersionsRight /\ PairingsRight
    BY <1>1, <1>3, <1>7, CallAlone
  <2>2. PICK n : n = zones[c.zone].version
    OBVIOUS
  <2>3. n \in Nat /\ c.entity.version = IF c.boundary THEN n + 1 ELSE n
    BY <1>3, <1>4, <2>1, <2>2 DEF ZoneKnows, ZoneInv, ZoneTyped, ZoneRow, Zoning!Absent
  <2>4. zoneVersions[c.zone] = [i \in 1..n |-> i]
    BY <1>4, <2>1, <2>2 DEF VersionsRight
  <2>5. zoneVersions'[c.zone] = [i \in 1..c.entity.version |-> i]
    <3>1. CASE c.boundary
      <4>1. c.entity.version = n + 1
        BY <2>3, <3>1
      <4>2. Append([i \in 1..n |-> i], n + 1) = [i \in 1..(n + 1) |-> i]
        BY <2>3, VersionsGrow
      <4>3. zoneVersions'[c.zone] = Append(zoneVersions[c.zone], c.entity.version)
        BY <1>3, <1>4, <3>1 DEF ZoneInv, ZoneTyped
      <4>4. QED
        BY <2>4, <4>1, <4>2, <4>3
    <3>2. CASE ~c.boundary
      BY <1>3, <2>3, <2>4, <3>2
    <3>3. QED
      BY <3>1, <3>2
  <2>6. VersionsRight'
    <3>1. zones'[c.zone] = c.entity
      BY <1>3, <1>4 DEF ZoneInv, ZoneTyped
    <3>2. \A z \in ZoneIds \ {c.zone} : zones'[z] = zones[z] /\ zoneVersions'[z] = zoneVersions[z]
      BY <1>3, <1>4 DEF ZoneInv, ZoneTyped
    <3>3. QED
      BY <2>1, <2>5, <3>1, <3>2 DEF VersionsRight
  <2>7. PairingsRight'
    BY <1>3, <2>1 DEF PairingsRight
  <2>8. ZoneKnows(call)'
    BY <1>2, <1>3, <2>1 DEF ZoneKnows, CacheKnows
  <2>9. OneCall'
    BY <1>3, <2>1, <2>8, OneCallGoes DEF ZoneInv
  <2>10. QED
    BY <2>6, <2>7, <2>9
<1>8. QED
  BY <1>6, <1>7 DEF ZoneInv

LEMMA ClosePairingsStep ==
  ASSUME ZoneInv, NEW w \in Workers, Zoning!ClosePairings(w)
  PROVE  ZoneInv'
<1>1. PICK c : c = zoneCalls[w]
  OBVIOUS
<1>2. PICK call : call = [phase |-> "inserting", vehicle |-> c.vehicle, zone |-> c.zone,
                          closing |-> Zoning!OpenOf(c.vehicle)]
  OBVIOUS
<1>3. /\ c.phase = "pairing" /\ c # Zoning!Idle /\ Goes(w, call)
      /\ UNCHANGED <<zones, zoneVersions, pairings, announced, activeZones, vehicleToZone,
                     zonesOverlapped, cut>>
  BY <1>1, <1>2 DEF Zoning!ClosePairings, Zoning!Enter, Goes, Zoning!tables, Zoning!cache,
                    Zoning!ghosts, Zoning!Idle
<1>4. c.vehicle \in Vehicles /\ c.zone \in ZoneIds
  BY <1>1, <1>3 DEF ZoneInv, ZoneTyped, ZoneCallTyped
<1>5. ZoneTyped'
  BY <1>2, <1>3, <1>4, ZoneTypedGoes DEF ZoneInv, ZoneTyped, ZoneCallTyped
<1>6. ASSUME ~zonesOverlapped'
      PROVE  VersionsRight' /\ PairingsRight' /\ OneCall'
  <2>1. Others(w) /\ ZoneKnows(c) /\ VersionsRight /\ PairingsRight
    BY <1>1, <1>3, <1>6, CallAlone
  <2>2. VersionsRight' /\ PairingsRight'
    BY <1>3, <2>1 DEF VersionsRight, PairingsRight
  <2>3. ZoneKnows(call)'
    BY <1>2, <1>3, <2>1, PairedSame DEF ZoneKnows, CacheKnows, Zoning!Active
  <2>4. OneCall'
    BY <1>3, <2>1, <2>3, OneCallGoes DEF ZoneInv
  <2>5. QED
    BY <2>2, <2>4
<1>7. QED
  BY <1>5, <1>6 DEF ZoneInv

\* The vehicle's one open pairing is closed by the one that replaces it.
LEMMA CommitPairingStep ==
  ASSUME ZoneInv, NEW w \in Workers, Zoning!CommitPairing(w)
  PROVE  ZoneInv'
<1>1. PICK c : c = zoneCalls[w]
  OBVIOUS
<1>2. PICK call : call = [phase |-> "setting", vehicle |-> c.vehicle, zone |-> c.zone]
  OBVIOUS
<1>3. /\ c.phase = "inserting" /\ c # Zoning!Idle /\ Goes(w, call)
      /\ pairings' = Committed(pairings, c.vehicle, c.zone, c.closing)
      /\ announced' = [announced EXCEPT ![c.vehicle] = c.zone]
      /\ UNCHANGED <<zones, zoneVersions, activeZones, vehicleToZone, zonesOverlapped, cut>>
  BY <1>1, <1>2 DEF Zoning!CommitPairing, Zoning!Enter, Goes, Committed, Zoning!cache,
                    Zoning!ghosts, Zoning!Idle
<1>4. c.vehicle \in Vehicles /\ c.zone \in ZoneIds
  BY <1>1, <1>3 DEF ZoneInv, ZoneTyped, ZoneCallTyped
<1>5. /\ pairings' \in Seq(Zoning!Pairing)
      /\ OneOpen(pairings) /\ c.closing = Open(pairings, c.vehicle) =>
           /\ OneOpen(pairings')
           /\ PairedIn(pairings') = [PairedIn(pairings) EXCEPT ![c.vehicle] = c.zone]
  <2>1. PICK ps, qs, closing : ps = pairings /\ qs = pairings' /\ closing = c.closing
    OBVIOUS
  <2>2. ps \in Seq(Zoning!Pairing) /\ qs = Committed(ps, c.vehicle, c.zone, closing)
    BY <1>3, <2>1 DEF ZoneInv, ZoneTyped
  <2>3. /\ qs \in Seq(Zoning!Pairing)
        /\ OneOpen(ps) /\ closing = Open(ps, c.vehicle) =>
             OneOpen(qs) /\ PairedIn(qs) = [PairedIn(ps) EXCEPT ![c.vehicle] = c.zone]
    BY <1>4, <2>2, CommittedPairs
  <2>4. QED
    BY <2>1, <2>3
<1>6. announced' \in [Vehicles -> ZoneIds \cup {Zoning!NoZone}]
  BY <1>3, <1>4 DEF ZoneInv, ZoneTyped
<1>7. ZoneTyped'
  BY <1>2, <1>3, <1>4, <1>5, <1>6, ZoneTypedGoes DEF ZoneInv, ZoneTyped, ZoneCallTyped
<1>8. ASSUME ~zonesOverlapped'
      PROVE  VersionsRight' /\ PairingsRight' /\ OneCall'
  <2>1. Others(w) /\ ZoneKnows(c) /\ VersionsRight /\ PairingsRight
    BY <1>1, <1>3, <1>8, CallAlone
  <2>2. OneOpen(pairings) /\ c.closing = Open(pairings, c.vehicle)
    BY <1>3, <2>1 DEF PairingsRight, ZoneKnows
  <2>3. VersionsRight'
    BY <1>3, <2>1 DEF VersionsRight
  <2>4. PairingsRight'
    BY <1>3, <1>5, <2>1, <2>2 DEF PairingsRight
  <2>5. ~cut => activeZones = Zoning!Active /\ vehicleToZone = PairedIn(pairings)
    BY <1>3, <2>1 DEF ZoneKnows, CacheKnows
  <2>6. ZoneKnows(call)'
    BY <1>2, <1>3, <1>5, <2>2, <2>5 DEF ZoneKnows, CacheKnows, Zoning!Active
  <2>7. OneCall'
    BY <1>3, <2>1, <2>6, OneCallGoes DEF ZoneInv
  <2>8. QED
    BY <2>3, <2>4, <2>7
<1>9. QED
  BY <1>7, <1>8 DEF ZoneInv

\* The steps that change the cache alone, or nothing.
LEMMA CacheStep ==
  ASSUME ZoneInv, NEW w \in Workers, zoneCalls[w] # Zoning!Idle, NEW call, Goes(w, call),
         ZoneCallTyped(call), cut' \in BOOLEAN,
         UNCHANGED <<zones, zoneVersions, pairings, announced, zonesOverlapped>>,
         ZoneKnows(zoneCalls[w]) => ZoneKnows(call)'
  PROVE  ZoneInv'
<1>1. ZoneTyped'
  BY ZoneTypedGoes DEF ZoneInv, ZoneTyped
<1>2. ASSUME ~zonesOverlapped'
      PROVE  VersionsRight' /\ PairingsRight' /\ OneCall'
  <2>1. Others(w) /\ ZoneKnows(zoneCalls[w]) /\ VersionsRight /\ PairingsRight
    BY <1>2, CallAlone
  <2>2. VersionsRight' /\ PairingsRight'
    BY <2>1 DEF VersionsRight, PairingsRight
  <2>3. OneCall'
    BY <2>1, OneCallGoes DEF ZoneInv
  <2>4. QED
    BY <2>2, <2>3
<1>3. QED
  BY <1>1, <1>2 DEF ZoneInv

LEMMA SetPairingStep ==
  ASSUME ZoneInv, NEW w \in Workers, Zoning!SetPairing(w)
  PROVE  ZoneInv'
<1>1. PICK c : c = zoneCalls[w]
  OBVIOUS
<1>2. /\ c.phase = "setting" /\ c # Zoning!Idle /\ Goes(w, Zoning!Idle)
      /\ vehicleToZone' = [vehicleToZone EXCEPT ![c.vehicle] = c.zone]
      /\ UNCHANGED <<zones, zoneVersions, pairings, announced, activeZones, zonesOverlapped, cut>>
  BY <1>1 DEF Zoning!SetPairing, Zoning!Enter, Goes, Zoning!tables, Zoning!ghosts, Zoning!Idle
<1>3. ZoneKnows(c) => ZoneKnows(Zoning!Idle)'
  BY <1>2 DEF ZoneKnows, CacheKnows, Zoning!Idle, Zoning!Active
<1>4. ZoneCallTyped(Zoning!Idle) /\ cut \in BOOLEAN
  BY DEF ZoneCallTyped, ZoneInv, ZoneTyped
<1>5. QED
  BY <1>1, <1>2, <1>3, <1>4, CacheStep

LEMMA ReadZonesStep ==
  ASSUME ZoneInv, NEW w \in Workers, Zoning!ReadZones(w)
  PROVE  ZoneInv'
<1>1. PICK c : c = zoneCalls[w]
  OBVIOUS
<1>2. PICK call : call = [phase |-> "zonesRead", active |-> Zoning!Active]
  OBVIOUS
<1>3. /\ c.phase = "reloading" /\ c # Zoning!Idle /\ Goes(w, call)
      /\ UNCHANGED <<zones, zoneVersions, pairings, announced, activeZones, vehicleToZone,
                     zonesOverlapped, cut>>
  BY <1>1, <1>2 DEF Zoning!ReadZones, Zoning!Enter, Goes, Zoning!tables, Zoning!cache,
                    Zoning!ghosts, Zoning!Idle
<1>4. ZoneKnows(c) => ZoneKnows(call)'
  BY <1>2, <1>3 DEF ZoneKnows, CacheKnows, Zoning!Active
<1>5. ZoneCallTyped(call) /\ cut \in BOOLEAN
  BY <1>2 DEF ZoneCallTyped, ZoneInv, ZoneTyped
<1>6. QED
  BY <1>1, <1>3, <1>4, <1>5, CacheStep

LEMMA ReadPairingsStep ==
  ASSUME ZoneInv, NEW w \in Workers, Zoning!ReadPairings(w)
  PROVE  ZoneInv'
<1>1. PICK c : c = zoneCalls[w]
  OBVIOUS
<1>2. PICK call : call = [phase |-> "pairingsRead", paired |-> Zoning!Paired]
  OBVIOUS
<1>3. /\ c.phase = "zonesRead" /\ c # Zoning!Idle /\ Goes(w, call)
      /\ activeZones' = c.active
      /\ UNCHANGED <<zones, zoneVersions, pairings, announced, vehicleToZone, zonesOverlapped, cut>>
  BY <1>1, <1>2 DEF Zoning!ReadPairings, Zoning!Enter, Goes, Zoning!tables, Zoning!ghosts,
                    Zoning!Idle
<1>4. call.paired = PairedIn(pairings)
  BY <1>2, PairedSame
<1>5. ZoneKnows(c) => ZoneKnows(call)'
  BY <1>2, <1>3, <1>4 DEF ZoneKnows, CacheKnows, Zoning!Active
<1>6. ZoneCallTyped(call) /\ cut \in BOOLEAN
  BY <1>2 DEF ZoneCallTyped, ZoneInv, ZoneTyped
<1>7. QED
  BY <1>1, <1>3, <1>5, <1>6, CacheStep

LEMMA EndReloadStep ==
  ASSUME ZoneInv, NEW w \in Workers, Zoning!EndReload(w)
  PROVE  ZoneInv'
<1>1. PICK c : c = zoneCalls[w]
  OBVIOUS
<1>2. /\ c.phase = "pairingsRead" /\ c # Zoning!Idle /\ Goes(w, Zoning!Idle)
      /\ vehicleToZone' = c.paired
      /\ UNCHANGED <<zones, zoneVersions, pairings, announced, activeZones, zonesOverlapped, cut>>
  BY <1>1 DEF Zoning!EndReload, Zoning!Enter, Goes, Zoning!tables, Zoning!ghosts, Zoning!Idle
<1>3. ZoneKnows(c) => ZoneKnows(Zoning!Idle)'
  BY <1>2 DEF ZoneKnows, CacheKnows, Zoning!Idle, Zoning!Active
<1>4. ZoneCallTyped(Zoning!Idle) /\ cut \in BOOLEAN
  BY DEF ZoneCallTyped, ZoneInv, ZoneTyped
<1>5. QED
  BY <1>1, <1>2, <1>3, <1>4, CacheStep

\* Of a call that failed the cache may know nothing; the tables are as they were.
LEMMA ZoneFailStep ==
  ASSUME ZoneInv, NEW w \in Workers, Zoning!Fail(w)
  PROVE  ZoneInv'
<1>1. /\ zoneCalls[w] # Zoning!Idle /\ Goes(w, Zoning!Idle) /\ cut' = TRUE
      /\ UNCHANGED <<zones, zoneVersions, pairings, announced, zonesOverlapped>>
  BY DEF Zoning!Fail, Zoning!Enter, Goes, Zoning!tables, Zoning!Idle
<1>2. ZoneKnows(Zoning!Idle)'
  BY <1>1 DEF ZoneKnows, Zoning!Idle
<1>3. ZoneCallTyped(Zoning!Idle)
  BY DEF ZoneCallTyped
<1>4. QED
  BY <1>1, <1>2, <1>3, CacheStep

\* A restart fills the cache from the tables.
LEMMA ZoneRestartStep ==
  ASSUME ZoneInv, Zoning!Restart
  PROVE  ZoneInv'
<1>1. /\ zoneCalls' = [w \in Workers |-> Zoning!Idle]
      /\ activeZones' = Zoning!Active /\ vehicleToZone' = Zoning!Paired
      /\ UNCHANGED <<zones, zoneVersions, pairings, announced, zonesOverlapped, cut>>
  BY DEF Zoning!Restart, Zoning!tables
<1>2. \A w \in Workers : zoneCalls'[w] = Zoning!Idle
  BY <1>1
<1>3. ZoneTyped'
  BY <1>1, <1>2 DEF ZoneInv, ZoneTyped, ZoneCallTyped
<1>4. vehicleToZone' = PairedIn(pairings)
  BY <1>1, PairedSame
<1>5. ZoneKnows(Zoning!Idle)'
  BY <1>1, <1>4 DEF ZoneKnows, CacheKnows, Zoning!Idle, Zoning!Active
<1>6. OneCall'
  BY <1>2, <1>5 DEF OneCall
<1>7. VersionsRight /\ PairingsRight => VersionsRight' /\ PairingsRight'
  BY <1>1 DEF VersionsRight, PairingsRight
<1>8. QED
  BY <1>1, <1>3, <1>6, <1>7 DEF ZoneInv

LEMMA ZoneSide == [Next]_vars => UNCHANGED zoning \/ Zoning!Next
BY DEF Next, vars, zoning

LEMMA ZoneStep ==
  ASSUME ZoneInv, [Next]_vars
  PROVE  ZoneInv'
<1>1. CASE UNCHANGED zoning
  <2>1. UNCHANGED <<zones, zoneVersions, pairings, announced, activeZones, vehicleToZone,
                    zoneCalls, zonesOverlapped, cut>>
    BY <1>1 DEF zoning
  <2>2. ZoneTyped'
    BY <2>1 DEF ZoneInv, ZoneTyped
  <2>3. \A c : ZoneKnows(c) => ZoneKnows(c)'
    BY <2>1 DEF ZoneKnows, CacheKnows, Zoning!Active
  <2>4. OneCall => OneCall'
    BY <2>1, <2>3 DEF OneCall
  <2>5. VersionsRight /\ PairingsRight => VersionsRight' /\ PairingsRight'
    BY <2>1 DEF VersionsRight, PairingsRight
  <2>6. QED
    BY <2>1, <2>2, <2>4, <2>5 DEF ZoneInv
<1>2. ASSUME NEW w \in Workers, NEW z \in ZoneIds,
             \/ Zoning!Create(w, z)
             \/ \E change \in {"active", "inactive", "boundary"} : Zoning!LoadZone(w, z, change)
             \/ \E v \in Vehicles : Zoning!PairVehicle(w, v, z)
      PROVE  ZoneInv'
  BY <1>2, CreateStep, LoadZoneStep, PairVehicleStep
<1>3. ASSUME NEW w \in Workers,
             \/ Zoning!SaveZone(w) \/ Zoning!ClosePairings(w) \/ Zoning!CommitPairing(w)
             \/ Zoning!SetPairing(w)
      PROVE  ZoneInv'
  BY <1>3, SaveZoneStep, ClosePairingsStep, CommitPairingStep, SetPairingStep
<1>4. ASSUME NEW w \in Workers,
             \/ Zoning!ReadZones(w) \/ Zoning!ReadPairings(w) \/ Zoning!EndReload(w)
             \/ Zoning!Fail(w)
      PROVE  ZoneInv'
  BY <1>4, ReadZonesStep, ReadPairingsStep, EndReloadStep, ZoneFailStep
<1>5. CASE Zoning!Next
  BY <1>2, <1>3, <1>4, <1>5, ZoneRestartStep DEF Zoning!Next, Zoning!Handler
<1>6. QED
  BY <1>1, <1>5, ZoneSide

LEMMA ZoneInvariant == Spec => []ZoneInv
<1>1. Init => ZoneInv
  BY ZoneInit DEF Init
<1>2. ZoneInv /\ [Next]_vars => ZoneInv'
  BY ZoneStep
<1>3. QED
  BY <1>1, <1>2, PTL DEF Spec

\* While calls do not overlap, a vehicle has one open pairing, which is what
\* Dispatch was told, a zone's versions are numbered without gap, and, while none
\* failed, the registry agrees with the tables between calls, restarts included
\* (zones.service.ts update and pairVehicle, zone-registry.service.ts reload).
THEOREM ZonesAndRegistryCoherent == Spec => []ZonesCoherent
<1>1. ZoneInv => ZonesCoherent
  <2>1. ASSUME ZoneInv, ~zonesOverlapped
        PROVE  Zoning!PairingsCoherent
    <3>1. VersionsRight /\ OneOpen(pairings) /\ PairedIn(pairings) = announced
      BY <2>1 DEF ZoneInv, PairingsRight
    <3>2. ASSUME NEW v \in Vehicles
          PROVE  Zoning!Cardinality(Open(pairings, v)) <= 1
      <4>1. Zoning!Cardinality(Open(pairings, v)) = Cardinality(Open(pairings, v))
        BY DEF Zoning!Cardinality, Cardinality
      <4>2. CASE Open(pairings, v) = {}
        BY <4>1, <4>2, FS_EmptySet
      <4>3. CASE Open(pairings, v) # {}
        <5>1. PICK k : k \in Open(pairings, v)
          BY <4>3
        <5>2. Open(pairings, v) = {k}
          BY <3>1, <5>1 DEF OneOpen
        <5>3. QED
          BY <4>1, <5>2, FS_Singleton
      <4>4. QED
        BY <4>2, <4>3
    <3>3. QED
      BY <3>1, <3>2, PairedSame DEF Zoning!PairingsCoherent, VersionsRight
  <2>2. ASSUME ZoneInv, ~zonesOverlapped, ~cut, Zoning!Quiet
        PROVE  activeZones = Zoning!Active /\ vehicleToZone = Zoning!Paired
    <3>1. ZoneKnows(Zoning!Idle)
      BY <2>2 DEF ZoneInv, OneCall, Zoning!Quiet
    <3>2. QED
      BY <2>2, <3>1, PairedSame DEF ZoneKnows, CacheKnows, Zoning!Idle
  <2>3. QED
    BY <2>1, <2>2 DEF ZonesCoherent, Zoning!PairingsCoherent, Zoning!RegistryAgrees
<1>2. QED
  BY <1>1, ZoneInvariant, PTL

-----------------------------------------------------------------------------
(***************************************************************************)
(* The types: what the invariants above leave open                         *)
(***************************************************************************)
LEMMA LeastNumber ==
  ASSUME NEW T \in SUBSET Nat, T # {}
  PROVE  \E x \in T : \A y \in T : x <= y
<1>1. PICK R : R = OpToRel(<, Nat)
  OBVIOUS
<1>2. IsWellFoundedOn(R, Nat)
  BY <1>1, NatLessThanWellFounded
<1>3. PICK x \in T : \A y \in T : ~(<<y, x>> \in R)
  BY <1>2, WFMin
<1>4. \A y \in T : ~(y < x)
  BY <1>1, <1>3 DEF OpToRel
<1>5. QED
  BY <1>4

LEMMA GreatestNumber ==
  ASSUME NEW n \in Nat, NEW S \in SUBSET (1..n), S # {}
  PROVE  \E x \in S : \A y \in S : y <= x
<1>1. PICK T : T = {n - s : s \in S}
  OBVIOUS
<1>2. T \in SUBSET Nat /\ T # {}
  <2>1. \A s \in S : n - s \in Nat
    OBVIOUS
  <2>2. QED
    BY <1>1, <2>1
<1>3. PICK t \in T : \A u \in T : t <= u
  BY <1>2, LeastNumber
<1>4. PICK x \in S : t = n - x
  BY <1>1
<1>5. ASSUME NEW y \in S
      PROVE  y <= x
  <2>1. n - x <= n - y
    BY <1>1, <1>3, <1>4
  <2>2. x \in 1..n /\ y \in 1..n
    OBVIOUS
  <2>3. QED
    BY <2>1, <2>2
<1>6. QED
  BY <1>5

\* The relay's batch: as no two events of a set have the same number of earlier
\* ones, each place in the order of creation is taken by one of them.
LEMMA BatchType ==
  ASSUME NEW S \in SUBSET Events
  PROVE  Bus!ByCreation(S) \in Seq(S) /\ Len(Bus!ByCreation(S)) = Cardinality(S)
<1>1. PICK n : n = Cardinality(S)
  OBVIOUS
<1>2. IsFiniteSet(S) /\ n \in Nat /\ \A T : Bus!Cardinality(T) = Cardinality(T)
  BY <1>1, BusAssumption, FS_Subset, FS_CardinalityType DEF Bus!Cardinality, Cardinality
<1>3. PICK Before : Before = [e \in S |-> {f \in S : f < e}]
  OBVIOUS
<1>4. PICK rank : rank = [e \in S |-> Cardinality(Before[e])]
  OBVIOUS
<1>5. \A e \in S : rank[e] \in 0..(n - 1) /\ IsFiniteSet(Before[e])
  <2> TAKE e \in S
  <2>1. e \in Nat
    BY BusAssumption
  <2>2. Before[e] \in SUBSET S /\ Before[e] # S /\ rank[e] = Cardinality(Before[e])
    BY <1>3, <1>4, <2>1
  <2>3. IsFiniteSet(Before[e]) /\ rank[e] \in Nat /\ rank[e] <= n /\ rank[e] # n
    BY <1>1, <1>2, <2>2, FS_Subset, FS_CardinalityType
  <2>4. QED
    BY <1>2, <2>3
<1>6. ASSUME NEW e \in S, NEW f \in S, e < f
      PROVE  rank[e] # rank[f]
  <2>1. e \in Nat /\ \A x \in S : x \in Nat
    BY BusAssumption
  <2>2. Before[e] \in SUBSET Before[f] /\ e \in Before[f] /\ e \notin Before[e]
    <3>1. Before[e] = {x \in S : x < e} /\ Before[f] = {x \in S : x < f}
      BY <1>3
    <3>2. f \in Nat /\ \A x \in S : x < e => x < f
      BY <1>6, <2>1
    <3>3. ~(e < e)
      BY <2>1
    <3>4. QED
      BY <1>6, <3>1, <3>2, <3>3
  <2>3. Before[e] # Before[f]
    BY <2>2
  <2>4. QED
    BY <1>4, <1>5, <2>2, <2>3, FS_Subset
<1>7. rank \in Injection(S, 0..(n - 1))
  <2>1. rank \in [S -> 0..(n - 1)]
    BY <1>4, <1>5
  <2>2. \A e, f \in S : rank[e] = rank[f] => e = f
    <3> SUFFICES ASSUME NEW e \in S, NEW f \in S, e # f
                 PROVE  rank[e] # rank[f]
      OBVIOUS
    <3>1. e \in Nat /\ f \in Nat
      BY BusAssumption
    <3>2. CASE e < f
      BY <1>6, <3>2
    <3>3. CASE f < e
      BY <1>6, <3>3
    <3>4. QED
      BY <3>1, <3>2, <3>3
  <2>3. QED
    BY <2>1, <2>2 DEF Injection, IsInjective
<1>8. IsFiniteSet(0..(n - 1)) /\ Cardinality(0..(n - 1)) = n
  <2>1. 0 \in Int /\ n - 1 \in Int
    BY <1>2
  <2>2. IsFiniteSet(0..(n - 1)) /\ Cardinality(0..(n - 1)) = IF 0 > n - 1 THEN 0 ELSE n - 1 - 0 + 1
    BY <2>1, FS_Interval
  <2>3. QED
    BY <1>2, <2>2
<1>9. rank \in Surjection(S, 0..(n - 1))
  BY <1>1, <1>2, <1>7, <1>8, FS_Injection
<1>10. \A i \in 1..n : \E e \in S : Cardinality({f \in S : f < e}) = i - 1
  <2> TAKE i \in 1..n
  <2>1. i - 1 \in 0..(n - 1)
    BY <1>2
  <2>2. PICK e \in S : rank[e] = i - 1
    BY <1>9, <2>1 DEF Surjection
  <2>3. QED
    BY <1>3, <1>4, <2>2
<1>11. Bus!ByCreation(S) \in [1..n -> S]
  <2>1. \A i \in 1..n : (CHOOSE e \in S : Cardinality({f \in S : f < e}) = i - 1) \in S
    BY <1>10
  <2>2. Bus!ByCreation(S) =
          [i \in 1..n |-> CHOOSE e \in S : Cardinality({f \in S : f < e}) = i - 1]
    BY <1>1 DEF Bus!ByCreation, Bus!Cardinality, Cardinality
  <2>3. QED
    BY <2>1, <2>2
<1>12. QED
  BY <1>1, <1>2, <1>11, SeqDef, LenProperties

BusRest ==
  /\ fetched \in Seq(Events)
  /\ \A s \in Consumers :
       /\ Len(busy[s]) <= Prefetch
       /\ handled[s] \cup dead[s] \cup unhandled[s] \cup dropped[s] \subseteq Bound[s]
  /\ busFaults \in 0..MaxFaults

LEMMA WithoutShorter ==
  ASSUME NEW M, NEW q \in Seq(M), NEW i \in DOMAIN q
  PROVE  Bus!Without(q, i) \in Seq(M) /\ Len(Bus!Without(q, i)) = Len(q) - 1
<1>1. Len(q) \in Nat /\ i \in 1..Len(q) /\ i \in Nat
  BY LenProperties
<1>2. /\ SubSeq(q, 1, i - 1) \in Seq(M) /\ Len(SubSeq(q, 1, i - 1)) = i - 1
      /\ SubSeq(q, i + 1, Len(q)) \in Seq(M) /\ Len(SubSeq(q, i + 1, Len(q))) = Len(q) - i
  <2>1. /\ \A j \in 1..(i - 1) : q[j] \in M
        /\ \A j \in (i + 1)..Len(q) : q[j] \in M
    BY <1>1, ElementOfSeq, 1..(i - 1) \subseteq 1..Len(q), (i + 1)..Len(q) \subseteq 1..Len(q)
  <2>2. /\ 1 \in Int /\ i - 1 \in Int /\ i + 1 \in Int /\ Len(q) \in Int
    BY <1>1
  <2>3. /\ SubSeq(q, 1, i - 1) \in Seq(M) 
        /\ Len(SubSeq(q, 1, i - 1)) = IF 1 <= i - 1 THEN i - 1 - 1 + 1 ELSE 0
    BY <2>1, <2>2, SubSeqProperties
  <2>4. /\ SubSeq(q, i + 1, Len(q)) \in Seq(M) 
        /\ Len(SubSeq(q, i + 1, Len(q))) =
             IF i + 1 <= Len(q) THEN Len(q) - (i + 1) + 1 ELSE 0
    BY <2>1, <2>2, SubSeqProperties
  <2>5. QED
    BY <1>1, <2>3, <2>4
<1>3. Bus!Without(q, i) = SubSeq(q, 1, i - 1) \o SubSeq(q, i + 1, Len(q))
  BY DEF Bus!Without
<1>4. /\ Bus!Without(q, i) \in Seq(M)
      /\ Len(Bus!Without(q, i)) = Len(SubSeq(q, 1, i - 1)) + Len(SubSeq(q, i + 1, Len(q)))
  BY <1>2, <1>3, ConcatProperties
<1>5. Len(Bus!Without(q, i)) = (i - 1) + (Len(q) - i)
  BY <1>2, <1>4
<1>6. (i - 1) + (Len(q) - i) = Len(q) - 1
  BY <1>1
<1>7. QED
  BY <1>4, <1>5, <1>6

LEMMA FetchType ==
  ASSUME BusInv, Bus!RelayFetch
  PROVE  fetched' \in Seq(Events)
<1>1. PICK batch : batch = Bus!ByCreation(Bus!Unsent)
  OBVIOUS
<1>2. PICK k : k = IF Len(batch) < BatchSize THEN Len(batch) ELSE BatchSize
  OBVIOUS
<1>3. batch \in Seq(Bus!Unsent) /\ Bus!Unsent \in SUBSET Events
  BY <1>1, BatchType DEF Bus!Unsent
<1>4. batch \in Seq(Events) /\ Len(batch) \in Nat
  BY <1>3, SeqMonotonic, LenProperties
<1>5. k \in Int /\ k <= Len(batch) /\ \A i \in 1..k : i \in 1..Len(batch)
  BY <1>2, <1>4, BusAssumption
<1>6. \A i \in 1..k : batch[i] \in Events
  BY <1>4, <1>5, ElementOfSeq
<1>7. 1 \in Int
  OBVIOUS
<1>8. SubSeq(batch, 1, k) \in Seq(Events)
  BY <1>5, <1>6, <1>7, SubSeqProperties
<1>9. fetched' = SubSeq(batch, 1, k)
  BY <1>1, <1>2 DEF Bus!RelayFetch
<1>10. QED
  BY <1>8, <1>9

\* What one service's step may change.
ServiceMoves(s) ==
  /\ Len(busy'[s]) <= Prefetch
  /\ handled'[s] \cup dead'[s] \cup unhandled'[s] \cup dropped'[s] \subseteq Bound[s]
  /\ \A t \in Consumers \ {s} :
       /\ busy'[t] = busy[t] /\ handled'[t] = handled[t] /\ dead'[t] = dead[t]
       /\ unhandled'[t] = unhandled[t] /\ dropped'[t] = dropped[t]

LEMMA ServiceRest ==
  ASSUME BusRest, NEW s \in Consumers, ServiceMoves(s), UNCHANGED fetched,
         busFaults' \in 0..MaxFaults
  PROVE  BusRest'
<1>1. ASSUME NEW t \in Consumers
      PROVE  /\ Len(busy'[t]) <= Prefetch
             /\ handled'[t] \cup dead'[t] \cup unhandled'[t] \cup dropped'[t] \subseteq Bound[t]
  BY DEF ServiceMoves, BusRest
<1>2. fetched' \in Seq(Events)
  BY DEF BusRest
<1>3. QED
  BY <1>1, <1>2 DEF BusRest

LEMMA ProducerRest ==
  ASSUME BusInv, BusRest, (\E e \in Events : Bus!Record(e)) \/ Bus!Relay \/ Bus!RelayFails
  PROVE  BusRest'
<1>1. UNCHANGED <<busy, handled, dead, unhandled, dropped>>
  BY DEF Bus!Record, Bus!Relay, Bus!RelayFetch, Bus!RelayPublish, Bus!RelayMark, Bus!RelayFails,
         Bus!history
<1>2. busFaults' \in 0..MaxFaults
  BY BusAssumption DEF BusRest, Bus!Record, Bus!Relay, Bus!RelayFetch, Bus!RelayPublish,
         Bus!RelayMark, Bus!RelayFails
<1>3. fetched' \in Seq(Events)
  <2>1. CASE Bus!RelayFetch
    BY <2>1, FetchType
  <2>2. CASE Bus!RelayMark
    <3>1. fetched \in Seq(Events) /\ fetched # <<>> /\ fetched' = Tail(fetched)
      BY <2>2 DEF BusInv, BusTyped, BusRest, Bus!RelayMark
    <3>2. QED
      BY <3>1, HeadTailProperties
  <2>3. CASE Bus!RelayFails
    BY <2>3 DEF Bus!RelayFails
  <2>4. CASE (\E e \in Events : Bus!Record(e)) \/ Bus!RelayPublish
    BY <2>4 DEF Bus!Record, Bus!RelayPublish, BusRest
  <2>5. QED
    BY <2>1, <2>2, <2>3, <2>4 DEF Bus!Relay
<1>4. QED
  BY <1>1, <1>2, <1>3 DEF BusRest

LEMMA DeliverRest ==
  ASSUME BusInv, BusRest, NEW s \in Consumers, Bus!Deliver(s)
  PROVE  BusRest'
<1>1. /\ busy[s] \in Seq(For(s)) /\ queue[s] \in Seq(For(s)) /\ queue[s] # <<>>
      /\ Len(busy[s]) < Prefetch
      /\ busy' = [busy EXCEPT ![s] = Append(busy[s], Head(queue[s]))]
      /\ busy \in [Consumers -> Seq(Bus!Message)]
      /\ UNCHANGED <<fetched, handled, dead, unhandled, dropped, busFaults>>
  BY DEF BusInv, BusTyped, Bus!Deliver, Bus!relayVars, Bus!history
<1>2. Head(queue[s]) \in For(s)
  BY <1>1, HeadTailProperties
<1>3. Len(busy'[s]) = Len(busy[s]) + 1 /\ Len(busy[s]) \in Nat
  BY <1>1, <1>2, AppendProperties, LenProperties
<1>4. \A t \in Consumers \ {s} : busy'[t] = busy[t]
  BY <1>1
<1>5. Len(busy'[s]) <= Prefetch
  BY <1>1, <1>3, BusAssumption
<1>6. ServiceMoves(s)
  BY <1>1, <1>4, <1>5 DEF ServiceMoves, BusRest
<1>7. busFaults' \in 0..MaxFaults
  BY <1>1 DEF BusRest
<1>8. QED
  BY <1>1, <1>6, <1>7, ServiceRest

LEMMA FinishRest ==
  ASSUME BusInv, BusRest, NEW s \in Consumers, NEW i \in DOMAIN busy[s],
         Bus!Handle(s, i) \/ Bus!HandlerFails(s, i)
  PROVE  BusRest'
<1>1. PICK e : e = busy[s][i].event
  OBVIOUS
<1>2. /\ busy[s] \in Seq(For(s)) /\ busy \in [Consumers -> Seq(Bus!Message)]
      /\ handled \in [Consumers -> SUBSET Events] /\ dead \in [Consumers -> SUBSET Events]
      /\ busy' = [busy EXCEPT ![s] = Bus!Without(busy[s], i)]
      /\ \/ handled' = [handled EXCEPT ![s] = handled[s] \cup {e}] /\ UNCHANGED dead
         \/ dead' = [dead EXCEPT ![s] = dead[s] \cup {e}] /\ UNCHANGED handled
         \/ UNCHANGED <<handled, dead>>
      /\ UNCHANGED <<fetched, unhandled, dropped, busFaults>>
  BY <1>1 DEF BusInv, BusTyped, Bus!Handle, Bus!HandlerFails, Bus!relayVars
<1>3. e \in Bound[s]
  BY <1>1, <1>2, CopiesWithout, ForMessage
<1>4. Len(busy'[s]) = Len(busy[s]) - 1 /\ Len(busy[s]) \in Nat
  BY <1>2, WithoutShorter, LenProperties
<1>5. Len(busy'[s]) <= Prefetch
  BY <1>4, BusAssumption DEF BusRest
<1>6. ServiceMoves(s)
  <2>1. \A t \in Consumers \ {s} :
          busy'[t] = busy[t] /\ handled'[t] = handled[t] /\ dead'[t] = dead[t]
    BY <1>2
  <2>2. handled'[s] \subseteq handled[s] \cup {e} /\ dead'[s] \subseteq dead[s] \cup {e}
    BY <1>2
  <2>3. QED
    BY <1>2, <1>3, <1>5, <2>1, <2>2 DEF ServiceMoves, BusRest
<1>7. busFaults' \in 0..MaxFaults
  BY <1>2 DEF BusRest
<1>8. QED
  BY <1>2, <1>6, <1>7, ServiceRest

LEMMA ServiceRestartRest ==
  ASSUME BusInv, BusRest, NEW s \in Consumers, Bus!Restart(s)
  PROVE  BusRest'
<1>1. PICK lost : lost = {delayed[s][i].event : i \in DOMAIN delayed[s]}
  OBVIOUS
<1>2. /\ delayed[s] \in Seq(For(s)) /\ busy \in [Consumers -> Seq(Bus!Message)]
      /\ dropped \in [Consumers -> SUBSET Events]
      /\ busy' = [busy EXCEPT ![s] = <<>>]
      /\ dropped' = [dropped EXCEPT ![s] = dropped[s] \cup lost]
      /\ busFaults' = busFaults + 1 /\ busFaults < MaxFaults
      /\ UNCHANGED <<fetched, handled, dead, unhandled>>
  BY <1>1 DEF BusInv, BusTyped, Bus!Restart, Bus!relayVars
<1>3. lost \subseteq Bound[s]
  BY <1>1, <1>2, CopiesWithout, ForMessage
<1>4. Len(busy'[s]) <= Prefetch
  BY <1>2, BusAssumption, EmptySeq
<1>5. ServiceMoves(s)
  <2>1. \A t \in Consumers \ {s} : busy'[t] = busy[t] /\ dropped'[t] = dropped[t]
    BY <1>2
  <2>2. dropped'[s] = dropped[s] \cup lost
    BY <1>2
  <2>3. QED
    BY <1>2, <1>3, <1>4, <2>1, <2>2 DEF ServiceMoves, BusRest
<1>6. busFaults' \in 0..MaxFaults
  BY <1>2, BusAssumption DEF BusRest
<1>7. QED
  BY <1>2, <1>5, <1>6, ServiceRest

LEMMA AckUnhandledRest ==
  ASSUME BusInv, BusRest, NEW s \in Consumers, Bus!AckUnhandled(s)
  PROVE  BusRest'
<1>1. PICK e : e = Head(queue[s]).event
  OBVIOUS
<1>2. /\ queue[s] \in Seq(For(s)) /\ queue[s] # <<>>
      /\ unhandled \in [Consumers -> SUBSET Events]
      /\ unhandled' = [unhandled EXCEPT ![s] = unhandled[s] \cup {e}]
      /\ UNCHANGED <<fetched, busy, handled, dead, dropped, busFaults>>
  BY <1>1 DEF BusInv, BusTyped, Bus!AckUnhandled, Bus!relayVars
<1>3. e \in Bound[s]
  BY <1>1, <1>2, CopiesTail, ForMessage
<1>4. ServiceMoves(s)
  BY <1>2, <1>3 DEF ServiceMoves, BusRest
<1>5. busFaults' \in 0..MaxFaults
  BY <1>2 DEF BusRest
<1>6. QED
  BY <1>2, <1>4, <1>5, ServiceRest

\* A copy is lost on the channel.
LEMMA ChannelRest ==
  ASSUME BusInv, BusRest,
         Bus!RelayPublishLost
           \/ \E s \in Consumers : \E i \in DOMAIN delayed[s] : Bus!RequeueLost(s, i)
  PROVE  BusRest'
<1>1. UNCHANGED <<fetched, busy, handled, dead, unhandled>>
  BY DEF Bus!RelayPublishLost, Bus!RequeueLost, Bus!relayVars
<1>2. busFaults' \in 0..MaxFaults
  BY BusAssumption DEF BusRest, Bus!RelayPublishLost, Bus!RequeueLost
<1>3. \A t \in Consumers : dropped'[t] \subseteq Bound[t]
  <2>1. \A t \in Consumers : dropped[t] \subseteq Bound[t]
    BY DEF BusRest
  <2>2. CASE Bus!RelayPublishLost
    BY <2>1, <2>2 DEF Bus!RelayPublishLost
  <2>3. ASSUME NEW s \in Consumers, NEW i \in DOMAIN delayed[s], Bus!RequeueLost(s, i)
        PROVE  \A t \in Consumers : dropped'[t] \subseteq Bound[t]
    <3>1. PICK e : e = delayed[s][i].event
      OBVIOUS
    <3>2. /\ delayed[s] \in Seq(For(s)) /\ dropped \in [Consumers -> SUBSET Events]
          /\ dropped' = [dropped EXCEPT ![s] = dropped[s] \cup {e}]
      BY <2>3, <3>1 DEF BusInv, BusTyped, Bus!RequeueLost
    <3>3. e \in Bound[s]
      BY <3>1, <3>2, CopiesWithout, ForMessage
    <3>4. QED
      BY <2>1, <3>2, <3>3
  <2>4. QED
    BY <2>2, <2>3
<1>4. QED
  BY <1>1, <1>2, <1>3 DEF BusRest

LEMMA BusRestStep ==
  ASSUME BusInv, BusRest, [Next]_vars
  PROVE  BusRest'
<1>1. CASE UNCHANGED bus
  BY <1>1 DEF bus, BusRest
<1>2. CASE Bus!Next
  <2>1. ASSUME NEW s \in Consumers, NEW i \in DOMAIN delayed[s], Bus!Requeue(s, i)
        PROVE  BusRest'
    BY <2>1 DEF Bus!Requeue, Bus!relayVars, Bus!history, BusRest
  <2>2. ASSUME NEW s \in Consumers, Bus!Subscribe(s)
        PROVE  BusRest'
    BY <2>2 DEF Bus!Subscribe, Bus!relayVars, Bus!history, BusRest
  <2>3. ASSUME NEW s \in Consumers,
               \/ Bus!Deliver(s) \/ Bus!AckUnhandled(s) \/ Bus!Finish(s)
               \/ Bus!Timer(s) \/ Bus!Restart(s)
        PROVE  BusRest'
    BY <2>1, <2>3, DeliverRest, AckUnhandledRest, FinishRest, ServiceRestartRest
       DEF Bus!Finish, Bus!Timer
  <2>4. QED
    BY <1>2, <2>2, <2>3, ProducerRest, ChannelRest DEF Bus!Next, Bus!Consume, Bus!TimerLost
<1>3. QED
  BY <1>1, <1>2, BusSide

LEMMA BusType == Spec => [](focus = "bus" => Bus!TypeOK)
<1>1. Init => BusRest
  BY BusAssumption, EmptySeq DEF Init, Bus!Init, BusRest
<1>2. BusInv /\ BusRest /\ [Next]_vars => BusRest'
  BY BusRestStep
<1>3. Init => LossExplained
  BY DEF Init, Bus!Init, LossExplained
<1>4. BusInv /\ LossExplained /\ [Next]_vars => LossExplained'
  BY LossExplainedNext
<1>5. BusInv /\ BusRest /\ LossExplained => Bus!TypeOK
  BY DEF BusInv, BusTyped, BusRest, LossExplained, Bus!TypeOK
<1>6. QED
  BY <1>1, <1>2, <1>3, <1>4, <1>5, BusInvariant, PTL DEF Spec

\* What the zones' calls may carry and the caches hold; a version counts the
\* calls before it, so that their number bounds it.
Numbered == [ZoneIds -> 0..(MaxZoneCalls + 1)]
Placed   == [Vehicles -> ZoneIds \cup {Zoning!NoZone}]

CallBound(c, n) ==
  /\ c.phase = "saving" => c.entity.version <= n
  /\ c.phase = "zonesRead" => c.active \in Numbered
  /\ c.phase = "pairingsRead" => c.paired \in Placed

VersionsBound(n) == \A z \in ZoneIds : zones[z].version <= n

ZoneRest ==
  /\ count \in 0..MaxZoneCalls /\ zoneFaults \in 0..MaxFaults
  /\ VersionsBound(count)
  /\ zoneVersions \in [ZoneIds -> Seq(1..(MaxZoneCalls + 1))]
  /\ activeZones \in Numbered /\ vehicleToZone \in Placed
  /\ \A w \in Workers : CallBound(zoneCalls[w], count)

\* What a call of a phase carries.
LEMMA CarriedTypes ==
  ASSUME ZoneInv, NEW w \in Workers
  PROVE  /\ zoneCalls[w].phase = "saving" =>
              zoneCalls[w].zone \in ZoneIds /\ zoneCalls[w].entity.version \in Nat \ {0}
         /\ zoneCalls[w].phase = "setting" =>
              zoneCalls[w].zone \in ZoneIds /\ zoneCalls[w].vehicle \in Vehicles
<1>1. PICK c : c = zoneCalls[w]
  OBVIOUS
<1>2. ZoneCallTyped(c)
  BY <1>1 DEF ZoneInv, ZoneTyped
<1>3. c.phase = "saving" => c.zone \in ZoneIds /\ c.entity \in ZoneRow
  BY <1>2 DEF ZoneCallTyped, Zoning!Idle
<1>4. c.entity \in ZoneRow => c.entity.version \in Nat \ {0}
  BY DEF ZoneRow
<1>5. c.phase = "setting" => c.zone \in ZoneIds /\ c.vehicle \in Vehicles
  BY <1>2 DEF ZoneCallTyped, Zoning!Idle
<1>6. QED
  BY <1>1, <1>3, <1>4, <1>5

LEMMA VersionNumbers ==
  ASSUME ZoneInv, ZoneRest, NEW z \in ZoneIds
  PROVE  /\ zones[z].version \in 0..count /\ zones[z].version \in 0..(MaxZoneCalls + 1)
         /\ zones[z] # Zoning!Absent => zones[z] \in Zoning!Zone
<1>1. zones[z] \in ZoneRow \cup {Zoning!Absent} /\ zones[z].version <= count
  BY DEF ZoneInv, ZoneTyped, ZoneRest, VersionsBound
<1>2. count \in 0..MaxZoneCalls
  BY DEF ZoneRest
<1>3. zones[z].version \in Nat /\ (zones[z] # Zoning!Absent => zones[z].version >= 1)
  BY <1>1 DEF ZoneRow, Zoning!Absent
<1>4. zones[z].version \in 0..count /\ zones[z].version \in 0..(MaxZoneCalls + 1)
  BY <1>1, <1>2, <1>3, ZonesAssumption
<1>5. ASSUME zones[z] # Zoning!Absent
      PROVE  zones[z] \in Zoning!Zone
  <2>1. zones[z] \in ZoneRow /\ zones[z].version \in 1..(MaxZoneCalls + 1)
    BY <1>1, <1>3, <1>4, <1>5, ZonesAssumption
  <2>2. QED
    BY <2>1 DEF ZoneRow, Zoning!Zone
<1>6. QED
  BY <1>4, <1>5

LEMMA ActiveType ==
  ASSUME ZoneInv, ZoneRest
  PROVE  Zoning!Active \in Numbered
<1>1. \A z \in ZoneIds : zones[z].version \in 0..(MaxZoneCalls + 1) /\ 0 \in 0..(MaxZoneCalls + 1)
  BY VersionNumbers, ZonesAssumption
<1>2. QED
  BY <1>1 DEF Zoning!Active, Numbered

LEMMA PairedType ==
  ASSUME ZoneInv
  PROVE  Zoning!Paired \in Placed
<1>1. PICK ps, n : ps = pairings /\ n = Len(ps)
  OBVIOUS
<1>2. n \in Nat /\ DOMAIN ps = 1..n /\ \A i \in 1..n : ps[i] \in Zoning!Pairing
  BY <1>1, LenProperties, ElementOfSeq DEF ZoneInv, ZoneTyped
<1>3. ASSUME NEW v \in Vehicles, Open(ps, v) # {}
      PROVE  PairedIn(ps)[v] \in ZoneIds
  <2>1. Open(ps, v) \in SUBSET (1..n)
    BY <1>2 DEF Open
  <2>2. \E i \in Open(ps, v) : \A j \in Open(ps, v) : j <= i
    BY <1>2, <1>3, <2>1, GreatestNumber
  <2>3. PICK k : k = CHOOSE i \in Open(ps, v) : \A j \in Open(ps, v) : j <= i
    OBVIOUS
  <2>4. k \in Open(ps, v)
    BY <2>2, <2>3
  <2>5. ps[k].zone \in ZoneIds
    BY <1>2, <2>1, <2>4 DEF Zoning!Pairing
  <2>6. QED
    BY <1>3, <2>3, <2>5 DEF PairedIn
<1>4. ASSUME NEW v \in Vehicles, Open(ps, v) = {}
      PROVE  PairedIn(ps)[v] = Zoning!NoZone
  BY <1>4 DEF PairedIn
<1>5. PICK f : f = PairedIn(ps)
  OBVIOUS
<1>6. f = [v \in Vehicles |-> f[v]]
  BY <1>5 DEF PairedIn
<1>7. \A v \in Vehicles : f[v] \in ZoneIds \cup {Zoning!NoZone}
  BY <1>3, <1>4, <1>5
<1>8. f \in Placed
  BY <1>6, <1>7 DEF Placed
<1>9. QED
  BY <1>1, <1>5, <1>8, PairedSame

\* A step of one call.
LEMMA ZoneRestGoes ==
  ASSUME ZoneInv, ZoneRest, NEW w \in Workers, NEW call, Goes(w, call),
         count' \in count..MaxZoneCalls, CallBound(call, count'),
         zoneFaults' \in 0..MaxFaults, VersionsBound(count)',
         zoneVersions' \in [ZoneIds -> Seq(1..(MaxZoneCalls + 1))],
         activeZones' \in Numbered, vehicleToZone' \in Placed
  PROVE  ZoneRest'
<1>1. count \in Nat /\ count' \in Nat /\ count <= count' /\ count' \in 0..MaxZoneCalls
  BY ZonesAssumption DEF ZoneRest
<1>2. ASSUME NEW o \in Workers
      PROVE  CallBound(zoneCalls'[o], count')
  <2>1. CASE o = w
    BY <2>1, WentOn DEF ZoneInv
  <2>2. CASE o # w
    <3>1. zoneCalls'[o] = zoneCalls[o] /\ CallBound(zoneCalls[o], count)
      BY <2>2, WentOn DEF ZoneInv, ZoneRest
    <3>2. zoneCalls[o].phase = "saving" => zoneCalls[o].entity.version \in Nat
      BY CarriedTypes
    <3>3. QED
      BY <1>1, <3>1, <3>2 DEF CallBound
  <2>3. QED
    BY <2>1, <2>2
<1>3. QED
  BY <1>1, <1>2 DEF ZoneRest

\* The same, when the tables of zones stay as they are.
LEMMA ZoneRestKept ==
  ASSUME ZoneInv, ZoneRest, NEW w \in Workers, NEW call, Goes(w, call),
         count' \in count..MaxZoneCalls, CallBound(call, count'),
         zoneFaults' \in 0..MaxFaults, UNCHANGED <<zones, zoneVersions>>,
         activeZones' \in Numbered, vehicleToZone' \in Placed
  PROVE  ZoneRest'
<1>1. count \in Nat /\ count' \in Nat /\ count <= count'
  BY ZonesAssumption DEF ZoneRest
<1>2. VersionsBound(count)'
  <2>1. \A z \in ZoneIds : zones[z].version \in Nat /\ zones[z].version <= count
    BY <1>1, VersionNumbers
  <2>2. QED
    BY <1>1, <2>1 DEF VersionsBound
<1>3. zoneVersions' \in [ZoneIds -> Seq(1..(MaxZoneCalls + 1))]
  BY DEF ZoneRest
<1>4. QED
  BY <1>2, <1>3, ZoneRestGoes

LEMMA ZoneBegins ==
  ASSUME ZoneRest, NEW w \in Workers, NEW call, Zoning!Begin(w, call)
  PROVE  /\ Goes(w, call) /\ UNCHANGED zoneFaults
         /\ count' = count + 1 /\ count' \in count..MaxZoneCalls /\ count \in Nat
BY ZonesAssumption DEF ZoneRest, Zoning!Begin, Zoning!Enter, Goes

LEMMA CreateRest ==
  ASSUME ZoneInv, ZoneRest, NEW w \in Workers, NEW z \in ZoneIds, Zoning!Create(w, z)
  PROVE  ZoneRest'
<1>1. PICK call : call = [phase |-> "reloading"]
  OBVIOUS
<1>2. PICK row : row = [status |-> "active", version |-> 1]
  OBVIOUS
<1>3. /\ Zoning!Begin(w, call)
      /\ zones' = [zones EXCEPT ![z] = row]
      /\ zoneVersions' = [zoneVersions EXCEPT ![z] = <<1>>]
      /\ UNCHANGED <<activeZones, vehicleToZone>>
  BY <1>1, <1>2 DEF Zoning!Create, Zoning!cache
<1>4. /\ Goes(w, call) /\ UNCHANGED zoneFaults
      /\ count' = count + 1 /\ count' \in count..MaxZoneCalls /\ count \in Nat
  BY <1>3, ZoneBegins
<1>5. VersionsBound(count)'
  <2>1. \A y \in ZoneIds : zones[y].version \in Nat /\ zones[y].version <= count
    BY <1>4, VersionNumbers
  <2>2. zones'[z] = row /\ \A y \in ZoneIds \ {z} : zones'[y] = zones[y]
    BY <1>3 DEF ZoneInv, ZoneTyped
  <2>3. QED
    BY <1>2, <1>4, <2>1, <2>2 DEF VersionsBound
<1>6. zoneVersions' \in [ZoneIds -> Seq(1..(MaxZoneCalls + 1))]
  <2>1. 1 \in 1..(MaxZoneCalls + 1)
    BY ZonesAssumption
  <2>2. <<1>> \in Seq(1..(MaxZoneCalls + 1))
    BY <2>1
  <2>3. QED
    BY <1>3, <2>2 DEF ZoneRest
<1>7. CallBound(call, count')
  BY <1>1 DEF CallBound
<1>8. QED
  BY <1>3, <1>4, <1>5, <1>6, <1>7, ZoneRestGoes DEF ZoneRest

LEMMA LoadZoneRest ==
  ASSUME ZoneInv, ZoneRest, NEW w \in Workers, NEW z \in ZoneIds,
         NEW change \in {"active", "inactive", "boundary"}, Zoning!LoadZone(w, z, change)
  PROVE  ZoneRest'
<1>1. PICK entity : entity = IF change = "boundary"
                               THEN [zones[z] EXCEPT !.version = zones[z].version + 1]
                               ELSE [zones[z] EXCEPT !.status = change]
  OBVIOUS
<1>2. PICK call : call = [phase |-> "saving", zone |-> z, entity |-> entity,
                          boundary |-> change = "boundary"]
  OBVIOUS
<1>3. /\ zones[z] # Zoning!Absent /\ Zoning!Begin(w, call)
      /\ UNCHANGED <<zones, zoneVersions, activeZones, vehicleToZone>>
  BY <1>1, <1>2 DEF Zoning!LoadZone, Zoning!tables, Zoning!cache
<1>4. /\ Goes(w, call) /\ UNCHANGED zoneFaults
      /\ count' = count + 1 /\ count' \in count..MaxZoneCalls /\ count \in Nat
  BY <1>3, ZoneBegins
<1>5. zones[z] \in Zoning!Zone /\ zones[z].version \in 0..count
  BY <1>3, VersionNumbers
<1>6. entity.version <= count'
  BY <1>1, <1>4, <1>5 DEF Zoning!Zone
<1>7. CallBound(call, count')
  BY <1>2, <1>6 DEF CallBound
<1>8. QED
  BY <1>3, <1>4, <1>7, ZoneRestKept DEF ZoneRest

LEMMA PairVehicleRest ==
  ASSUME ZoneInv, ZoneRest, NEW w \in Workers, NEW v \in Vehicles, NEW z \in ZoneIds,
         Zoning!PairVehicle(w, v, z)
  PROVE  ZoneRest'
<1>1. PICK call : call = [phase |-> "pairing", vehicle |-> v, zone |-> z]
  OBVIOUS
<1>2. /\ Zoning!Begin(w, call)
      /\ UNCHANGED <<zones, zoneVersions, activeZones, vehicleToZone>>
  BY <1>1 DEF Zoning!PairVehicle, Zoning!tables, Zoning!cache
<1>3. /\ Goes(w, call) /\ UNCHANGED zoneFaults /\ count' \in count..MaxZoneCalls
  BY <1>2, ZoneBegins
<1>4. CallBound(call, count')
  BY <1>1 DEF CallBound
<1>5. QED
  BY <1>2, <1>3, <1>4, ZoneRestKept DEF ZoneRest

LEMMA SaveZoneRest ==
  ASSUME ZoneInv, ZoneRest, NEW w \in Workers, Zoning!SaveZone(w)
  PROVE  ZoneRest'
<1>1. PICK c : c = zoneCalls[w]
  OBVIOUS
<1>2. PICK call : call = [phase |-> "reloading"]
  OBVIOUS
<1>3. /\ c.phase = "saving" /\ Goes(w, call)
      /\ zones' = [zones EXCEPT ![c.zone] = c.entity]
      /\ zoneVersions' = IF c.boundary
           THEN [zoneVersions EXCEPT ![c.zone] = Append(zoneVersions[c.zone], c.entity.version)]
           ELSE zoneVersions
      /\ UNCHANGED <<activeZones, vehicleToZone, count, zoneFaults>>
  BY <1>1, <1>2 DEF Zoning!SaveZone, Zoning!Enter, Goes, Zoning!cache, Zoning!ghosts
<1>4. c.zone \in ZoneIds /\ c.entity.version \in Nat \ {0} /\ c.entity.version <= count
  BY <1>1, <1>3, CarriedTypes DEF ZoneRest, CallBound
<1>5. count \in Nat /\ count \in count..MaxZoneCalls /\ c.entity.version \in 1..(MaxZoneCalls + 1)
  BY <1>4, ZonesAssumption DEF ZoneRest
<1>6. VersionsBound(count)'
  <2>1. zones'[c.zone] = c.entity /\ \A y \in ZoneIds \ {c.zone} : zones'[y] = zones[y]
    BY <1>3, <1>4 DEF ZoneInv, ZoneTyped
  <2>2. QED
    BY <1>3, <1>4, <2>1 DEF VersionsBound, ZoneRest
<1>7. zoneVersions' \in [ZoneIds -> Seq(1..(MaxZoneCalls + 1))]
  <2>1. Append(zoneVersions[c.zone], c.entity.version) \in Seq(1..(MaxZoneCalls + 1))
    BY <1>4, <1>5, AppendProperties DEF ZoneRest
  <2>2. QED
    BY <1>3, <1>4, <2>1 DEF ZoneRest
<1>8. CallBound(call, count')
  BY <1>2 DEF CallBound
<1>9. QED
  BY <1>3, <1>5, <1>6, <1>7, <1>8, ZoneRestGoes DEF ZoneRest

\* The other steps leave the tables of zones alone.
LEMMA ZoneCallRest ==
  ASSUME ZoneInv, ZoneRest, NEW w \in Workers,
         \/ Zoning!ClosePairings(w) \/ Zoning!CommitPairing(w) \/ Zoning!SetPairing(w)
         \/ Zoning!ReadZones(w) \/ Zoning!ReadPairings(w) \/ Zoning!EndReload(w)
         \/ Zoning!Fail(w)
  PROVE  ZoneRest'
<1>1. PICK call : call = zoneCalls'[w]
  OBVIOUS
<1>2. /\ Goes(w, call) /\ UNCHANGED <<zones, zoneVersions, count>>
      /\ zoneFaults' \in 0..MaxFaults
  <2>1. /\ UNCHANGED <<zones, zoneVersions, count>>
        /\ zoneFaults' = zoneFaults \/ (zoneFaults < MaxFaults /\ zoneFaults' = zoneFaults + 1)
        /\ \E new : Goes(w, new)
    BY DEF Zoning!ClosePairings, Zoning!CommitPairing, Zoning!SetPairing, Zoning!ReadZones,
           Zoning!ReadPairings, Zoning!EndReload, Zoning!Fail, Zoning!Enter, Goes,
           Zoning!tables, Zoning!ghosts
  <2>2. Goes(w, call)
    BY <1>1, <2>1, WentOn DEF ZoneInv
  <2>3. QED
    BY <2>1, <2>2, BusAssumption DEF ZoneRest
<1>3. CallBound(call, count')
  <2>1. CASE Zoning!ReadZones(w)
    <3>1. Goes(w, [phase |-> "zonesRead", active |-> Zoning!Active])
      BY <2>1 DEF Zoning!ReadZones, Zoning!Enter, Goes
    <3>2. call = [phase |-> "zonesRead", active |-> Zoning!Active]
      BY <1>1, <3>1, WentOn DEF ZoneInv
    <3>3. QED
      BY <3>2, ActiveType DEF CallBound
  <2>2. CASE Zoning!ReadPairings(w)
    <3>1. Goes(w, [phase |-> "pairingsRead", paired |-> Zoning!Paired])
      BY <2>2 DEF Zoning!ReadPairings, Zoning!Enter, Goes
    <3>2. call = [phase |-> "pairingsRead", paired |-> Zoning!Paired]
      BY <1>1, <3>1, WentOn DEF ZoneInv
    <3>3. QED
      BY <3>2, PairedType DEF CallBound
  <2>3. CASE ~(Zoning!ReadZones(w) \/ Zoning!ReadPairings(w))
    <3>1. \E new : Goes(w, new) /\ new.phase \in {"inserting", "setting", "idle"}
      <4>1. PICK c : c = zoneCalls[w]
        OBVIOUS
      <4>2. \/ Goes(w, [phase |-> "inserting", vehicle |-> c.vehicle, zone |-> c.zone,
                        closing |-> Zoning!OpenOf(c.vehicle)])
            \/ Goes(w, [phase |-> "setting", vehicle |-> c.vehicle, zone |-> c.zone])
            \/ Goes(w, [phase |-> "idle"])
        BY <2>3, <4>1 DEF Zoning!ClosePairings, Zoning!CommitPairing, Zoning!SetPairing,
                          Zoning!EndReload, Zoning!Fail, Zoning!Enter, Goes, Zoning!Idle
      <4>3. PICK a, b, d :
              /\ a = [phase |-> "inserting", vehicle |-> c.vehicle, zone |-> c.zone,
                      closing |-> Zoning!OpenOf(c.vehicle)]
              /\ b = [phase |-> "setting", vehicle |-> c.vehicle, zone |-> c.zone]
              /\ d = [phase |-> "idle"]
        OBVIOUS
      <4>4. a.phase = "inserting" /\ b.phase = "setting" /\ d.phase = "idle"
        BY <4>3
      <4>5. QED
        BY <4>2, <4>3, <4>4
    <3>2. call.phase \in {"inserting", "setting", "idle"}
      BY <1>1, <3>1, WentOn DEF ZoneInv
    <3>3. QED
      BY <3>2 DEF CallBound
  <2>4. QED
    BY <2>1, <2>2, <2>3
<1>4. activeZones' \in Numbered
  <2>1. activeZones' = activeZones \/ (zoneCalls[w].phase = "zonesRead" /\ activeZones' = zoneCalls[w].active)
    BY DEF Zoning!ClosePairings, Zoning!CommitPairing, Zoning!SetPairing, Zoning!ReadZones,
           Zoning!ReadPairings, Zoning!EndReload, Zoning!Fail, Zoning!cache
  <2>2. QED
    BY <2>1 DEF ZoneRest, CallBound
<1>5. vehicleToZone' \in Placed
  <2>1. CASE Zoning!SetPairing(w)
    <3>1. /\ zoneCalls[w].vehicle \in Vehicles /\ zoneCalls[w].zone \in ZoneIds
          /\ vehicleToZone' = [vehicleToZone EXCEPT ![zoneCalls[w].vehicle] = zoneCalls[w].zone]
      BY <2>1, CarriedTypes DEF Zoning!SetPairing
    <3>2. QED
      BY <3>1 DEF ZoneRest, Placed
  <2>2. CASE ~Zoning!SetPairing(w)
    <3>1. \/ vehicleToZone' = vehicleToZone
          \/ zoneCalls[w].phase = "pairingsRead" /\ vehicleToZone' = zoneCalls[w].paired
      BY <2>2 DEF Zoning!ClosePairings, Zoning!CommitPairing, Zoning!ReadZones,
                  Zoning!ReadPairings, Zoning!EndReload, Zoning!Fail, Zoning!cache
    <3>2. QED
      BY <3>1 DEF ZoneRest, CallBound
  <2>3. QED
    BY <2>1, <2>2
<1>6. count \in count..MaxZoneCalls
  BY ZonesAssumption DEF ZoneRest
<1>7. QED
  BY <1>2, <1>3, <1>4, <1>5, <1>6, ZoneRestKept

LEMMA ZoneRestartRest ==
  ASSUME ZoneInv, ZoneRest, Zoning!Restart
  PROVE  ZoneRest'
<1>1. /\ zoneCalls' = [w \in Workers |-> Zoning!Idle]
      /\ activeZones' = Zoning!Active /\ vehicleToZone' = Zoning!Paired
      /\ zoneFaults' = zoneFaults + 1 /\ zoneFaults < MaxFaults
      /\ UNCHANGED <<zones, zoneVersions, count>>
  BY DEF Zoning!Restart, Zoning!tables
<1>2. \A w \in Workers : CallBound(zoneCalls'[w], count')
  BY <1>1 DEF CallBound, Zoning!Idle
<1>3. activeZones' \in Numbered /\ vehicleToZone' \in Placed
  BY <1>1, ActiveType, PairedType
<1>4. zoneFaults' \in 0..MaxFaults
  BY <1>1, BusAssumption DEF ZoneRest
<1>5. QED
  BY <1>1, <1>2, <1>3, <1>4 DEF ZoneRest, VersionsBound

LEMMA ZoneRestStep ==
  ASSUME ZoneInv, ZoneRest, [Next]_vars
  PROVE  ZoneRest'
<1>1. CASE UNCHANGED zoning
  BY <1>1 DEF zoning, ZoneRest, VersionsBound
<1>2. ASSUME NEW w \in Workers, NEW z \in ZoneIds,
             \/ Zoning!Create(w, z)
             \/ \E change \in {"active", "inactive", "boundary"} : Zoning!LoadZone(w, z, change)
             \/ \E v \in Vehicles : Zoning!PairVehicle(w, v, z)
      PROVE  ZoneRest'
  BY <1>2, CreateRest, LoadZoneRest, PairVehicleRest
<1>3. CASE Zoning!Next
  BY <1>2, <1>3, SaveZoneRest, ZoneCallRest, ZoneRestartRest DEF Zoning!Next, Zoning!Handler
<1>4. QED
  BY <1>1, <1>3, ZoneSide

LEMMA ZoneType == Spec => [](focus = "zoning" => Zoning!TypeOK)
<1>1. Init => ZoneRest
  <2> SUFFICES ASSUME Zoning!Init
               PROVE  ZoneRest
    BY DEF Init
  <2>1. 0 \in 0..MaxZoneCalls /\ 0 \in 0..MaxFaults /\ 0 \in 0..(MaxZoneCalls + 1)
    BY ZonesAssumption, BusAssumption
  <2>2. <<>> \in Seq(1..(MaxZoneCalls + 1))
    BY EmptySeq
  <2>3. VersionsBound(count)
    BY DEF Zoning!Init, VersionsBound, Zoning!Absent
  <2>4. zoneVersions \in [ZoneIds -> Seq(1..(MaxZoneCalls + 1))]
    BY <2>2 DEF Zoning!Init
  <2>5. activeZones \in Numbered /\ vehicleToZone \in Placed
    BY <2>1 DEF Zoning!Init, Numbered, Placed
  <2>6. \A w \in Workers : CallBound(zoneCalls[w], count)
    BY DEF Zoning!Init, CallBound, Zoning!Idle
  <2>7. QED
    BY <2>1, <2>3, <2>4, <2>5, <2>6 DEF ZoneRest, Zoning!Init
<1>2. ZoneInv /\ ZoneRest /\ [Next]_vars => ZoneRest'
  BY ZoneRestStep
<1>3. ZoneInv /\ ZoneRest => Zoning!TypeOK
  <2> SUFFICES ASSUME ZoneInv, ZoneRest
               PROVE  Zoning!TypeOK
    OBVIOUS
  <2>1. zones \in [ZoneIds -> Zoning!Zone \cup {Zoning!Absent}]
    <3>1. \A z \in ZoneIds : zones[z] \in Zoning!Zone \cup {Zoning!Absent}
      BY VersionNumbers
    <3>2. QED
      BY <3>1 DEF ZoneInv, ZoneTyped
  <2>2. \A w \in Workers : zoneCalls[w].phase \in
          {"idle", "saving", "pairing", "inserting", "setting", "reloading", "zonesRead", "pairingsRead"}
    BY DEF ZoneInv, ZoneTyped, ZoneCallTyped, Zoning!Idle
  <2>3. QED
    BY <2>1, <2>2 DEF ZoneInv, ZoneTyped, ZoneRest, Numbered, Placed, Zoning!TypeOK
<1>4. QED
  BY <1>1, <1>2, <1>3, ZoneInvariant, PTL DEF Spec

LEMMA MatchingType == Spec => [](focus = "matching" => DispatchTypeOK)
<1>1. Init => DispatchInv
  BY DispatchInvInit DEF Init
<1>2. DispatchInv /\ [Next]_vars => DispatchInv'
  <2>1. [Next]_vars => [DispatchNext]_dispatchVars
    BY DEF Next, vars
  <2>2. QED
    BY <2>1, DispatchInvNext
<1>3. DispatchInv => DispatchTypeOK
  BY DEF DispatchInv
<1>4. QED
  BY <1>1, <1>2, <1>3, PTL DEF Spec

LEMMA WhichPart == Spec => []
  (focus \in {"bus", "zoning", "tracker", "matching"})
<1>1. Init => focus \in {"bus", "zoning", "tracker", "matching"}
  BY DEF Init
<1>2. focus \in {"bus", "zoning", "tracker", "matching"} /\ [Next]_vars =>
        (focus \in {"bus", "zoning", "tracker", "matching"})'
  BY DEF Next, vars
<1>3. QED
  BY <1>1, <1>2, PTL DEF Spec

\* Whatever the bus, the zones, the trackers and Dispatch do, what each of them
\* stores and holds in memory is of its type: prefetched messages within the
\* limit, queues of bound events only, versions within the updates made, and
\* caches that name zones.
THEOREM EventDrivenTypeCorrect == Spec => []TypeOK
<1>1. TrackerInv => Tracker!TypeOK
  BY DEF TrackerInv
<1>2. /\ focus \in {"bus", "zoning", "tracker", "matching"}
      /\ focus = "bus" => Bus!TypeOK
      /\ focus = "zoning" => Zoning!TypeOK
      /\ Tracker!TypeOK
      /\ focus = "matching" => DispatchTypeOK
      => TypeOK
  BY DEF TypeOK
<1>3. QED
  BY <1>1, <1>2, WhichPart, BusType, ZoneType, TrackerInvariant, MatchingType, PTL

=============================================================================
