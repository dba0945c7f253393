-------------------------- MODULE EventStreamProofs --------------------------
(***************************************************************************)
(* What holds of a subscriber's stream whatever the number of publishers,  *)
(* the frames they send, the queue's size and the watchdog's interval:     *)
(* every frame is accounted for, what is read is read in order, the queue  *)
(* stays bounded although its bound is tested in one step and used in      *)
(* another, only a stream that lost frames is closed, and to the client it *)
(* is the channel of StreamPromise.                                        *)
(***************************************************************************)
EXTENDS EventStream, FiniteSetTheorems, TLAPS

------------------------------------------------------------------------------
(* Types.  A generator that looks for a frame has none in hand.             *)
NoneInHand == gen \in {"top", "get", "wait"} => inhand = <<>>
Typed == TypeOK /\ NoneInHand

LEMMA InitTypes == Init => Typed
<1> SUFFICES ASSUME Init PROVE TypeOK /\ NoneInHand
  BY DEF Typed
<1>1. NoneInHand
  BY DEF Init, NoneInHand
<1>2. sent \in [Publishers -> 0..MaxFrames] /\ lapsed \in 0..Watchdog
  BY StreamAssumption DEF Init
<1>3. /\ pc \in [Publishers -> {"idle", "test", "evict", "count", "put", "append"}]
      /\ \A p \in publishing : sent[p] > 0
  BY DEF Init, publishing
<1>4. /\ queue \in Seq(Frame) /\ delivered \in Seq(Frame) /\ inhand \in Seq(Frame)
      /\ Len(inhand) <= 1
  BY DEF Init
<1>5. /\ dropped \in Nat /\ lost \in SUBSET Frame /\ first_drop \in BOOLEAN
      /\ gen \in {"top", "get", "wait", "yield", "closing", "gone"}
  BY DEF Init
<1> QED BY <1>1, <1>2, <1>3, <1>4, <1>5 DEF TypeOK

(* A publisher past the start of publish has a frame.                       *)
LEMMA PublishedIsAFrame ==
  ASSUME TypeOK, NEW p \in Publishers, pc[p] # "idle"
  PROVE  frame(p) \in Frame
<1>1. sent[p] \in 1..MaxFrames
  BY StreamAssumption DEF TypeOK, publishing
<1> QED BY <1>1 DEF frame, Frame

LEMMA PublisherTypes ==
  ASSUME TypeOK, NEW p \in Publishers, Publish(p) \/ publisher(p)
  PROVE  TypeOK'
<1> USE DEF TypeOK, client, publishing
<1>1. CASE Publish(p)
  <2>1. sent' \in [Publishers -> 0..MaxFrames] /\ \A q \in publishing' : sent'[q] > 0
    BY <1>1, StreamAssumption DEF Publish
  <2> QED BY <1>1, <2>1 DEF Publish
<1>2. CASE TestFull(p)
  BY <1>2 DEF TestFull
<1>3. CASE Evict(p)
  <2>1. CASE queue = <<>>
    BY <1>3, <2>1 DEF Evict
  <2>2. CASE queue # <<>>
    <3>1. Head(queue) \in Frame /\ Tail(queue) \in Seq(Frame)
      BY <2>2
    <3>2. queue' \in Seq(Frame) /\ lost' \in SUBSET Frame
      BY <1>3, <2>2, <3>1 DEF Evict
    <3>3. pc' = [pc EXCEPT ![p] = "count"] /\ pc[p] # "idle"
      BY <1>3, <2>2 DEF Evict
    <3>4. UNCHANGED <<sent, dropped, gen, inhand, delivered, first_drop, lapsed>>
      BY <1>3 DEF Evict
    <3>5. /\ pc' \in [Publishers -> {"idle", "test", "evict", "count", "put", "append"}]
          /\ \A q \in publishing' : sent'[q] > 0
      BY <3>3, <3>4
    <3> QED BY <3>2, <3>4, <3>5
  <2> QED BY <2>1, <2>2
<1>4. CASE CountDrop(p)
  BY <1>4 DEF CountDrop
<1>5. CASE TryPut(p)
  <2>1. frame(p) \in Frame
    BY <1>5, PublishedIsAFrame DEF TryPut
  <2>2. /\ pc' \in [Publishers -> {"idle", "test", "evict", "count", "put", "append"}]
        /\ \A q \in publishing' : sent'[q] > 0
    BY <1>5 DEF TryPut
  <2>3. dropped' \in Nat /\ lost' \in SUBSET Frame
    BY <1>5, <2>1 DEF TryPut
  <2> QED BY <1>5, <2>2, <2>3 DEF TryPut
<1>6. CASE Enqueue(p)
  <2>1. frame(p) \in Frame
    BY <1>6, PublishedIsAFrame DEF Enqueue
  <2>2. queue' \in Seq(Frame)
    BY <1>6, <2>1 DEF Enqueue
  <2> QED BY <1>6, <2>2 DEF Enqueue
<1> QED BY <1>1, <1>2, <1>3, <1>4, <1>5, <1>6 DEF publisher

LEMMA TakeTypes ==
  ASSUME queue \in Seq(Frame), queue # <<>>, take
  PROVE  /\ queue' \in Seq(Frame) /\ inhand' \in Seq(Frame)
         /\ Len(inhand') <= 1 /\ gen' = "yield"
<1>1. Head(queue) \in Frame /\ Tail(queue) \in Seq(Frame)
  OBVIOUS
<1> QED BY <1>1 DEF take

LEMMA GeneratorTypes ==
  ASSUME TypeOK, generator \/ ClientReads \/ Disconnect \/ Tick
  PROVE  TypeOK'
<1> USE DEF TypeOK, publishing
<1>1. CASE CheckWatchdog
  <2>1. first_drop' \in BOOLEAN
    BY <1>1 DEF CheckWatchdog
  <2>2. lapsed' \in 0..Watchdog
    BY <1>1, StreamAssumption DEF CheckWatchdog
  <2>3. gen' \in {"closing", "get"}
    BY <1>1 DEF CheckWatchdog
  <2> QED BY <1>1, <2>1, <2>2, <2>3 DEF CheckWatchdog
<1>2. CASE Get
  <2>1. CASE queue = <<>>
    BY <1>2, <2>1 DEF Get
  <2>2. CASE queue # <<>>
    <3>1. take
      BY <1>2, <2>2 DEF Get
    <3>2. queue \in Seq(Frame)
      OBVIOUS
    <3>3. /\ queue' \in Seq(Frame) /\ inhand' \in Seq(Frame)
          /\ Len(inhand') <= 1 /\ gen' = "yield"
      <4> HIDE DEF TypeOK
      <4> QED BY <2>2, <3>1, <3>2, TakeTypes
    <3> QED BY <1>2, <3>3 DEF Get
  <2> QED BY <2>1, <2>2
<1>3. CASE Wake
  <2>1. take /\ queue # <<>>
    BY <1>3 DEF Wake
  <2>2. queue \in Seq(Frame)
    OBVIOUS
  <2>3. /\ queue' \in Seq(Frame) /\ inhand' \in Seq(Frame)
        /\ Len(inhand') <= 1 /\ gen' = "yield"
    <3> HIDE DEF TypeOK
    <3> QED BY <2>1, <2>2, TakeTypes
  <2> QED BY <1>3, <2>3 DEF Wake
<1>4. CASE Heartbeat
  BY <1>4 DEF Heartbeat
<1>5. CASE ClientReads
  <2>1. delivered' \in Seq(Frame) /\ inhand' = <<>>
    BY <1>5 DEF ClientReads
  <2> QED BY <1>5, <2>1 DEF ClientReads
<1>6. CASE Disconnect
  BY <1>6 DEF Disconnect
<1>7. CASE Tick
  <2>1. lapsed' \in 0..Watchdog
    BY <1>7, StreamAssumption DEF Tick
  <2> QED BY <1>7, <2>1 DEF Tick
<1> QED BY <1>1, <1>2, <1>3, <1>4, <1>5, <1>6, <1>7 DEF generator

LEMMA NextNoneInHand == ASSUME NoneInHand, [Next]_vars PROVE NoneInHand'
<1> USE DEF NoneInHand
<1>1. ASSUME NEW p \in Publishers, Publish(p) \/ publisher(p) PROVE NoneInHand'
  BY <1>1 DEF publisher, Publish, TestFull, Evict, CountDrop, TryPut, Enqueue, client
<1>2. CASE generator
  BY <1>2 DEF generator, CheckWatchdog, Get, Wake, Heartbeat, take
<1>3. CASE ClientReads \/ Disconnect \/ Tick \/ UNCHANGED vars
  BY <1>3 DEF ClientReads, Disconnect, Tick, vars, client
<1> QED BY <1>1, <1>2, <1>3 DEF Next, publisher, generator

LEMMA NextTypes == ASSUME Typed, [Next]_vars PROVE Typed'
<1>1. TypeOK /\ NoneInHand
  BY DEF Typed
<1>2. CASE UNCHANGED vars
  <2>1. TypeOK'
    BY <1>1, <1>2 DEF vars, client, TypeOK, publishing
  <2> QED BY <1>1, <2>1, NextNoneInHand DEF Typed
<1>3. CASE Next
  <2>1. TypeOK'
    BY <1>1, <1>3, PublisherTypes, GeneratorTypes DEF Next, publisher, generator
  <2> QED BY <1>1, <2>1, NextNoneInHand DEF Typed
<1> QED BY <1>2, <1>3

LEMMA AlwaysTyped == Spec => []Typed
BY InitTypes, NextTypes, PTL DEF Spec

(* Every variable keeps its type.                                           *)
THEOREM StreamTypeCorrect == Spec => []TypeOK
<1>1. Typed => TypeOK
  BY DEF Typed
<1> QED BY <1>1, AlwaysTyped, PTL

------------------------------------------------------------------------------
(* The bound: a publisher that has found room holds a place until it has    *)
(* appended, and the last to find room found the queue short of its size.   *)
appending == {p \in Publishers : pc[p] = "append"}
PlacesBounded == Len(queue) + Cardinality(appending) <= MaxQueue + Cardinality(Publishers) - 1

LEMMA Finite ==
  /\ IsFiniteSet(appending) /\ Cardinality(appending) \in Nat
  /\ Cardinality(Publishers) \in Nat /\ MaxQueue \in Nat \ {0}
<1>1. IsFiniteSet(Publishers) /\ appending \in SUBSET Publishers /\ MaxQueue \in Nat \ {0}
  BY StreamAssumption DEF appending
<1> QED BY <1>1, FS_Subset, FS_CardinalityType

(* A publisher that is not yet appending leaves room for itself.            *)
LEMMA NotAllAppending ==
  ASSUME NEW p \in Publishers, p \notin appending
  PROVE  Cardinality(appending) + 1 <= Cardinality(Publishers)
<1>1. IsFiniteSet(Publishers) /\ appending \in SUBSET Publishers
  BY StreamAssumption DEF appending
<1>2. /\ Cardinality(appending) <= Cardinality(Publishers)
      /\ Cardinality(Publishers) = Cardinality(appending) => Publishers = appending
  BY <1>1, FS_Subset
<1> QED BY <1>2, Finite

LEMMA FewerPlaces ==
  ASSUME TypeOK, PlacesBounded, appending' = appending,
         queue' \in Seq(Frame), Len(queue') <= Len(queue)
  PROVE  PlacesBounded'
<1>1. Len(queue) \in Nat /\ Len(queue') \in Nat
  BY DEF TypeOK
<1> QED BY <1>1, Finite DEF PlacesBounded

LEMMA NextKeepsPlaces ==
  ASSUME Typed, Typed', PlacesBounded, [Next]_vars
  PROVE  PlacesBounded'
<1> USE DEF Typed, TypeOK
<1>1. ASSUME NEW p \in Publishers, Publish(p) \/ TestFull(p) \/ Evict(p) \/ CountDrop(p)
      PROVE  PlacesBounded'
  <2>1. appending' = appending
    BY <1>1 DEF Publish, TestFull, Evict, CountDrop, appending
  <2>2. Len(queue') <= Len(queue)
    BY <1>1 DEF Publish, TestFull, Evict, CountDrop
  <2> QED BY <2>1, <2>2, FewerPlaces
<1>2. ASSUME NEW p \in Publishers, TryPut(p) PROVE PlacesBounded'
  <2>1. CASE full
    <3>1. appending' = appending /\ queue' = queue
      BY <1>2, <2>1 DEF TryPut, appending
    <3> QED BY <3>1, FewerPlaces
  <2>2. CASE ~full
    <3>1. appending' = appending \cup {p} /\ p \notin appending /\ queue' = queue
      BY <1>2, <2>2 DEF TryPut, appending
    <3>2. Cardinality(appending') = Cardinality(appending) + 1
      BY <3>1, Finite, FS_AddElement
    <3>3. Cardinality(appending) + 1 <= Cardinality(Publishers)
      BY <3>1, NotAllAppending
    <3>4. Len(queue) \in Nat /\ Len(queue) < MaxQueue
      BY <2>2, Finite DEF full
    <3>5. Len(queue') + Cardinality(appending') <= MaxQueue + Cardinality(Publishers) - 1
      <4> HIDE DEF Typed, TypeOK
      <4> QED BY <3>1, <3>2, <3>3, <3>4, Finite
    <3> QED BY <3>5 DEF PlacesBounded
  <2> QED BY <2>1, <2>2
<1>3. ASSUME NEW p \in Publishers, Enqueue(p) PROVE PlacesBounded'
  <2>1. appending' = appending \ {p} /\ p \in appending
    BY <1>3 DEF Enqueue, appending
  <2>2. Cardinality(appending') = Cardinality(appending) - 1
    BY <2>1, Finite, FS_RemoveElement
  <2>3. frame(p) \in Frame
    BY <1>3, PublishedIsAFrame DEF Enqueue
  <2>4. Len(queue') = Len(queue) + 1 /\ Len(queue) \in Nat
    BY <1>3, <2>3 DEF Enqueue
  <2> QED BY <2>2, <2>4, Finite DEF PlacesBounded
<1>4. CASE Get \/ Wake
  <2>1. appending' = appending
    BY <1>4 DEF Get, Wake, appending
  <2>2. queue' = queue \/ (queue # <<>> /\ queue' = Tail(queue))
    BY <1>4 DEF Get, Wake, take
  <2>3. Len(queue') <= Len(queue)
    BY <2>2
  <2> QED BY <2>1, <2>3, FewerPlaces
<1>5. CASE CheckWatchdog \/ Heartbeat \/ ClientReads \/ Disconnect \/ Tick \/ UNCHANGED vars
  <2>1. appending' = appending /\ queue' = queue
    BY <1>5 DEF CheckWatchdog, Heartbeat, ClientReads, Disconnect, Tick, vars, appending
  <2> QED BY <2>1, FewerPlaces
<1> QED BY <1>1, <1>2, <1>3, <1>4, <1>5 DEF Next

LEMMA AlwaysPlaces == Spec => []PlacesBounded
<1>1. Init => PlacesBounded
  <2> SUFFICES ASSUME Init PROVE PlacesBounded
    OBVIOUS
  <2>1. appending = {} /\ Len(queue) = 0
    BY DEF Init, appending
  <2> QED BY <2>1, Finite, FS_EmptySet DEF PlacesBounded
<1>2. Typed /\ Typed' /\ PlacesBounded /\ [Next]_vars => PlacesBounded'
  BY NextKeepsPlaces
<1> QED BY <1>1, <1>2, AlwaysTyped, PTL DEF Spec

(* However publishers interleave, the queue holds at most MAX_QUEUE frames  *)
(* and one for each publisher but one.                                      *)
THEOREM QueueStaysBounded == Spec => []QueueBounded
<1>1. Typed /\ PlacesBounded => QueueBounded
  <2> SUFFICES ASSUME Typed, PlacesBounded PROVE QueueBounded
    OBVIOUS
  <2>1. Len(queue) \in Nat
    BY DEF Typed, TypeOK
  <2> QED BY <2>1, Finite DEF PlacesBounded, QueueBounded
<1> QED BY <1>1, AlwaysTyped, AlwaysPlaces, PTL

------------------------------------------------------------------------------
(* The watchdog: every drop has lost a frame, and a frame lost stays lost.  *)
Grounds ==
  /\ dropped > 0 \/ counting # {} => lost # {}
  /\ gen = "closing" => lost # {}

LEMMA NextKeepsGrounds ==
  ASSUME Typed, Grounds, [Next]_vars
  PROVE  Grounds'
<1> USE DEF Grounds, counting
<1>1. lost \subseteq lost'
  BY DEF Next, Publish, TestFull, Evict, CountDrop, TryPut, Enqueue, CheckWatchdog, Get,
         Wake, Heartbeat, ClientReads, Disconnect, Tick, vars
<1>2. CASE lost # {}
  BY <1>1, <1>2
<1>3. CASE lost = {}
  <2>1. dropped = 0 /\ counting = {} /\ gen # "closing"
    BY <1>3 DEF Typed, TypeOK
  <2>2. ASSUME NEW p \in Publishers, Publish(p) \/ publisher(p) PROVE Grounds'
    BY <2>1, <2>2 DEF Publish, publisher, TestFull, Evict, CountDrop, TryPut, Enqueue,
                      Typed, TypeOK, client
  <2>3. CASE CheckWatchdog
    BY <2>1, <2>3 DEF CheckWatchdog
  <2>4. CASE Get \/ Wake \/ Heartbeat \/ ClientReads \/ Disconnect \/ Tick \/ UNCHANGED vars
    BY <2>1, <2>4 DEF Get, Wake, Heartbeat, ClientReads, Disconnect, Tick, vars, take
  <2> QED BY <2>2, <2>3, <2>4 DEF Next, publisher
<1> QED BY <1>2, <1>3

LEMMA AlwaysGrounds == Spec => []Grounds
<1>1. Init => Grounds
  BY DEF Init, Grounds, counting
<1>2. Typed /\ Grounds /\ [Next]_vars => Grounds'
  BY NextKeepsGrounds
<1> QED BY <1>1, <1>2, AlwaysTyped, PTL DEF Spec

(* Whatever the interval and however long the silence, a stream that lost   *)
(* nothing is not closed.                                                   *)
THEOREM SilenceIsNoFault == Spec => []QuietStreamStaysOpen
<1>1. Grounds => QuietStreamStaysOpen
  BY DEF Grounds, QuietStreamStaysOpen
<1> QED BY <1>1, AlwaysGrounds, PTL

------------------------------------------------------------------------------
(* The path a frame takes: read, in hand, queued.  A reader's steps move it *)
(* along, an append lengthens it and an eviction shortens it in the middle. *)
Ordered(s) == \A i, k \in DOMAIN s : i < k /\ s[i][1] = s[k][1] => s[i][2] < s[k][2]

LEMMA FrameParts ==
  ASSUME NEW f \in Frame
  PROVE  f[1] \in Publishers /\ f[2] \in 1..MaxFrames /\ f = <<f[1], f[2]>>
BY DEF Frame

LEMMA AppendToPath ==
  ASSUME NEW s \in Seq(Frame), NEW f \in Frame
  PROVE  /\ Range(Append(s, f)) = Range(s) \cup {f}
         /\ Ordered(s) /\ (\A i \in DOMAIN s : s[i][1] = f[1] => s[i][2] < f[2])
              => Ordered(Append(s, f))
<1> DEFINE t == Append(s, f)
<1>1. /\ Len(t) = Len(s) + 1 /\ Len(s) \in Nat /\ DOMAIN s = 1..Len(s) /\ DOMAIN t = 1..Len(t)
      /\ \A i \in 1..Len(s) : t[i] = s[i]
      /\ t[Len(s) + 1] = f
  OBVIOUS
<1> HIDE DEF t
<1>2. Range(t) = Range(s) \cup {f}
  BY <1>1 DEF Range
<1>3. ASSUME Ordered(s), \A i \in DOMAIN s : s[i][1] = f[1] => s[i][2] < f[2]
      PROVE  Ordered(t)
  BY <1>1, <1>3 DEF Ordered
<1> QED BY <1>2, <1>3 DEF t

LEMMA DropFromPath ==
  ASSUME NEW a \in Seq(Frame), NEW q \in Seq(Frame), q # <<>>, Ordered(a \o q)
  PROVE  /\ Range(a \o Tail(q)) = Range(a \o q) \ {Head(q)}
         /\ Head(q) \in Range(a \o q)
         /\ Ordered(a \o Tail(q))
<1> DEFINE s == a \o q
           t == a \o Tail(q)
           n == Len(a) + 1
<1>1. /\ Len(a) \in Nat /\ Len(q) \in Nat \ {0} /\ Tail(q) \in Seq(Frame)
      /\ Len(Tail(q)) = Len(q) - 1
  OBVIOUS
<1>2. /\ s \in Seq(Frame) /\ t \in Seq(Frame)
      /\ Len(s) = Len(a) + Len(q) /\ Len(t) = Len(a) + Len(q) - 1
  BY <1>1
<1>3. /\ DOMAIN s = 1..Len(s) /\ DOMAIN t = 1..Len(t) /\ n \in 1..Len(s)
  BY <1>1, <1>2
<1>4. s[n] = Head(q)
  BY <1>1
<1>5. \A i \in 1..Len(t) : t[i] = IF i < n THEN s[i] ELSE s[i + 1]
  BY <1>1, <1>2
<1>6. \A i \in 1..Len(s) : s[i] \in Frame
  BY <1>2
<1>7. n \in Nat \ {0} /\ Len(s) \in Nat /\ Len(t) = Len(s) - 1 /\ Ordered(s)
  BY <1>1, <1>2
<1> HIDE DEF s, t, n
<1>8. Ordered(t)
  <2> SUFFICES ASSUME NEW i \in 1..Len(t), NEW k \in 1..Len(t), i < k, t[i][1] = t[k][1]
               PROVE  t[i][2] < t[k][2]
    BY <1>3 DEF Ordered
  <2> DEFINE j == IF i < n THEN i ELSE i + 1
             l == IF k < n THEN k ELSE k + 1
  <2>1. j \in 1..Len(s) /\ l \in 1..Len(s) /\ j < l /\ t[i] = s[j] /\ t[k] = s[l]
    BY <1>5, <1>7
  <2> QED BY <1>3, <1>7, <2>1 DEF Ordered
<1>9. \A i \in 1..Len(s) : i # n => s[i] # s[n]
  <2> SUFFICES ASSUME NEW i \in 1..Len(s), i # n, s[i] = s[n] PROVE FALSE
    OBVIOUS
  <2>1. s[i][2] \in Nat /\ n \in 1..Len(s)
    BY <1>3, <1>6, FrameParts
  <2>2. i < n \/ n < i
    BY <1>7
  <2>3. s[i][2] < s[n][2] \/ s[n][2] < s[i][2]
    BY <1>3, <1>7, <2>1, <2>2 DEF Ordered
  <2> QED BY <2>1, <2>3
<1>10. Range(t) = Range(s) \ {s[n]}
  <2>1. ASSUME NEW x \in Range(t) PROVE x \in Range(s) \ {s[n]}
    <3>1. PICK i \in 1..Len(t) : x = t[i]
      BY <1>3, <2>1 DEF Range
    <3> DEFINE j == IF i < n THEN i ELSE i + 1
    <3>2. j \in 1..Len(s) /\ j # n /\ x = s[j]
      BY <1>5, <1>7, <3>1
    <3> QED BY <1>3, <1>9, <3>2 DEF Range
  <2>2. ASSUME NEW x \in Range(s) \ {s[n]} PROVE x \in Range(t)
    <3>1. PICK j \in 1..Len(s) : x = s[j]
      BY <1>3, <2>2 DEF Range
    <3> DEFINE i == IF j < n THEN j ELSE j - 1
    <3>2. j # n
      BY <2>2, <3>1
    <3>3. i \in 1..Len(t) /\ t[i] = s[j]
      BY <1>3, <1>5, <1>7, <3>2
    <3> QED BY <1>3, <3>1, <3>3 DEF Range
  <2> QED BY <2>1, <2>2
<1>11. s[n] \in Range(s)
  BY <1>3 DEF Range
<1> QED BY <1>4, <1>8, <1>10, <1>11 DEF s, t

(* The reader's steps leave the path as it is.                              *)
LEMMA ReadersKeepThePath ==
  ASSUME Typed, generator \/ ClientReads \/ Disconnect \/ Tick
  PROVE  path' = path
<1> USE DEF path
<1>1. queue \in Seq(Frame) /\ delivered \in Seq(Frame) /\ inhand \in Seq(Frame)
  BY DEF Typed, TypeOK
<1>2. ASSUME take, UNCHANGED delivered, queue # <<>>, inhand = <<>> PROVE path' = path
  <2>1. inhand' = <<Head(queue)>> /\ queue' = Tail(queue)
    BY <1>2 DEF take
  <2>2. (delivered \o <<Head(queue)>>) \o Tail(queue) = (delivered \o <<>>) \o queue
    BY <1>1, <1>2
  <2> QED BY <1>2, <2>1, <2>2
<1>3. CASE Get \/ Wake
  <2>1. inhand = <<>>
    BY <1>3 DEF Typed, NoneInHand, Get, Wake
  <2> QED BY <1>2, <1>3, <2>1 DEF Get, Wake
<1>4. CASE Heartbeat
  BY <1>4 DEF Heartbeat, Typed, NoneInHand
<1>5. CASE ClientReads
  <2>1. ((delivered \o inhand) \o <<>>) \o queue = (delivered \o inhand) \o queue
    BY <1>1
  <2> QED BY <1>5, <2>1 DEF ClientReads
<1>6. CASE CheckWatchdog \/ Disconnect \/ Tick
  BY <1>6 DEF CheckWatchdog, Disconnect, Tick
<1> QED BY <1>3, <1>4, <1>5, <1>6 DEF generator

------------------------------------------------------------------------------
(* The account of the frames.  What a publisher is done with is on the path *)
(* or lost: this is NoSilentHole, with names for its two sides.             *)
finished == {f \in Frame : f[2] <= sent[f[1]]} \ {frame(p) : p \in publishing}
Account ==
  /\ Range(path) \cup lost = finished /\ Range(path) \cap lost = {}
  /\ IsFiniteSet(lost) /\ Cardinality(lost) = dropped + Cardinality(counting)
  /\ Ordered(path)

LEMMA AccountIsTheProperties == Account => NoSilentHole /\ ReadInOrder
BY DEF Account, finished, NoSilentHole, ReadInOrder, Ordered

LEMMA PathIsFrames == ASSUME TypeOK PROVE path \in Seq(Frame)
BY DEF TypeOK, path

LEMMA CountingIsFinite == IsFiniteSet(counting) /\ Cardinality(counting) \in Nat
<1>1. IsFiniteSet(Publishers) /\ counting \in SUBSET Publishers
  BY StreamAssumption DEF counting
<1> QED BY <1>1, FS_Subset, FS_CardinalityType

(* Frames carry their publisher and their number.                           *)
LEMMA FrameOf ==
  \A p \in Publishers : frame(p)[1] = p /\ frame(p)[2] = sent[p]
BY DEF frame

(* A step that begins or ends no publish, and counts nothing.               *)
LEMMA SameAccount ==
  ASSUME Account, UNCHANGED <<sent, pc, lost, dropped>>, path' = path
  PROVE  Account'
BY DEF Account, finished, publishing, counting, frame

(* A step within one publish that moves no frame.                           *)
LEMMA WithinPublish ==
  ASSUME Account, publishing' = publishing, counting' = counting,
         UNCHANGED <<sent, lost, dropped>>, path' = path
  PROVE  Account'
BY DEF Account, finished, frame

(* The frame of a publish in hand is neither on the path nor lost, and the  *)
(* frames of its publisher that are came before it.                         *)
LEMMA InTransit ==
  ASSUME TypeOK, Account, NEW p \in publishing
  PROVE  /\ frame(p) \in Frame /\ frame(p) \notin Range(path) \cup lost
         /\ \A i \in DOMAIN path : path[i][1] = frame(p)[1] => path[i][2] < frame(p)[2]
<1>1. p \in Publishers /\ frame(p) \in Frame
  BY PublishedIsAFrame DEF publishing
<1>2. frame(p) \notin finished
  BY DEF finished
<1>3. ASSUME NEW i \in DOMAIN path, path[i][1] = frame(p)[1] PROVE path[i][2] < frame(p)[2]
  <2>1. path[i] \in finished
    BY DEF Account, Range
  <2>2. path[i] \in Frame /\ path[i][2] <= sent[path[i][1]] /\ path[i] # frame(p)
    BY <2>1 DEF finished
  <2>3. path[i] = <<path[i][1], path[i][2]>> /\ path[i][2] \in Nat
    BY <2>2, FrameParts
  <2>4. path[i][1] = p /\ frame(p) = <<p, sent[p]>> /\ sent[p] \in Nat /\ frame(p)[2] = sent[p]
    BY <1>1, <1>3, FrameOf DEF frame, TypeOK
  <2>5. path[i][2] # sent[p] /\ path[i][2] <= sent[p]
    BY <2>2, <2>3, <2>4
  <2> QED BY <2>3, <2>4, <2>5
<1> QED BY <1>1, <1>2, <1>3 DEF Account

(* The end of a publish settles its frame.                                  *)
LEMMA PublishEnds ==
  ASSUME TypeOK, NEW p \in publishing, publishing' = publishing \ {p}, UNCHANGED sent
  PROVE  finished' = finished \cup {frame(p)}
<1>1. frame(p) \in Frame /\ frame(p) = <<p, sent[p]>> /\ p \in Publishers
  BY PublishedIsAFrame DEF publishing, frame
<1>2. frame(p)[2] <= sent[frame(p)[1]]
  BY <1>1 DEF TypeOK
<1>3. \A q \in Publishers : q # p => frame(q) # frame(p)
  BY <1>1 DEF frame
<1>4. \A q \in Publishers : frame(q)' = frame(q)
  BY DEF frame
<1>5. publishing \subseteq Publishers
  BY DEF publishing
<1>6. {frame(q)' : q \in publishing'} = {frame(q) : q \in publishing} \ {frame(p)}
  BY <1>3, <1>4, <1>5
<1>7. {frame(q) : q \in publishing}' = {frame(q) : q \in publishing} \ {frame(p)}
  BY <1>6
<1> QED BY <1>1, <1>2, <1>7 DEF finished

(* ... and its beginning sets the frame apart.                              *)
LEMMA PublishBegins ==
  ASSUME TypeOK, NEW p \in Publishers, Publish(p)
  PROVE  finished' = finished
<1>1. /\ sent' = [sent EXCEPT ![p] = @ + 1] /\ sent[p] \in Nat /\ sent'[p] = sent[p] + 1
      /\ \A q \in Publishers : q # p => sent'[q] = sent[q]
  BY DEF Publish, TypeOK
<1>2. p \notin publishing /\ publishing' = publishing \cup {p} /\ publishing \subseteq Publishers
  BY DEF Publish, TypeOK, publishing
<1>3. /\ \A q \in publishing : q # p /\ frame(q)' = frame(q)
      /\ frame(p)' = <<p, sent[p] + 1>>
  BY <1>1, <1>2 DEF frame
<1>4. ASSUME NEW f \in Frame PROVE f \in finished' <=> f \in finished
  <2>1. f[1] \in Publishers /\ f[2] \in Nat /\ f = <<f[1], f[2]>>
    BY FrameParts
  <2>2. CASE f[1] # p
    <3>1. f # frame(p)' /\ sent'[f[1]] = sent[f[1]]
      BY <1>1, <1>3, <2>1, <2>2
    <3>2. (\E q \in publishing' : f = frame(q)') <=> (\E q \in publishing : f = frame(q))
      BY <1>2, <1>3, <3>1
    <3> QED BY <3>1, <3>2 DEF finished
  <2>3. CASE f[1] = p
    <3>1. \A q \in publishing : f # frame(q)
      BY <1>3, <2>3 DEF frame
    <3>2. (\E q \in publishing' : f = frame(q)') <=> f[2] = sent[p] + 1
      BY <1>2, <1>3, <2>1, <2>3, <3>1
    <3>3. f \in finished <=> f[2] <= sent[p]
      BY <2>3, <3>1 DEF finished
    <3>4. f \in finished' <=> f[2] <= sent[p] + 1 /\ f[2] # sent[p] + 1
      BY <1>1, <2>3, <3>2 DEF finished
    <3> QED BY <1>1, <2>1, <3>3, <3>4
  <2> QED BY <2>2, <2>3
<1> QED BY <1>4 DEF finished

LEMMA EvictKeepsAccount ==
  ASSUME Typed, Account, NEW p \in Publishers, Evict(p)
  PROVE  Account'
<1>1. TypeOK /\ publishing' = publishing /\ sent' = sent /\ p \notin counting
  BY DEF Typed, TypeOK, Evict, publishing, counting
<1>2. CASE queue = <<>>
  <2>1. counting' = counting /\ path' = path /\ UNCHANGED <<lost, dropped>>
    BY <1>1, <1>2 DEF Evict, counting, path, client, TypeOK
  <2> QED BY <1>1, <2>1, WithinPublish
<1>3. CASE queue # <<>>
  <2>1. /\ queue' = Tail(queue) /\ lost' = lost \cup {Head(queue)} /\ dropped' = dropped
        /\ delivered' = delivered /\ inhand' = inhand
    BY <1>3 DEF Evict, client
  <2>2. counting' = counting \cup {p}
    BY <1>1, <1>3 DEF Evict, counting, TypeOK
  <2>3. delivered \o inhand \in Seq(Frame) /\ queue \in Seq(Frame)
    BY <1>1 DEF TypeOK
  <2>4. /\ Range(path') = Range(path) \ {Head(queue)} /\ Head(queue) \in Range(path)
        /\ Ordered(path')
    BY <1>3, <2>1, <2>3, DropFromPath DEF path, Account
  <2>5. Range(path') \cup lost' = finished /\ Range(path') \cap lost' = {}
    BY <2>1, <2>4 DEF Account
  <2>6. IsFiniteSet(lost') /\ Cardinality(lost') = Cardinality(lost) + 1
    BY <2>1, <2>4, FS_AddElement DEF Account
  <2>7. Cardinality(counting') = Cardinality(counting) + 1
    BY <1>1, <2>2, CountingIsFinite, FS_AddElement
  <2>8. Cardinality(lost') = dropped' + Cardinality(counting')
    BY <1>1, <2>1, <2>6, <2>7, CountingIsFinite DEF Account, TypeOK
  <2>9. finished' = finished
    BY <1>1 DEF finished, frame
  <2> QED BY <2>4, <2>5, <2>6, <2>8, <2>9 DEF Account
<1> QED BY <1>2, <1>3

LEMMA CountDropKeepsAccount ==
  ASSUME Typed, Account, NEW p \in Publishers, CountDrop(p)
  PROVE  Account'
<1>1. TypeOK /\ publishing' = publishing /\ sent' = sent
  BY DEF Typed, TypeOK, CountDrop, publishing
<1>2. counting' = counting \ {p} /\ p \in counting
  BY <1>1 DEF CountDrop, counting, TypeOK
<1>3. path' = path /\ lost' = lost /\ dropped' = dropped + 1 /\ dropped \in Nat
  BY <1>1 DEF CountDrop, path, client, TypeOK
<1>4. Cardinality(counting') = Cardinality(counting) - 1
  BY <1>2, CountingIsFinite, FS_RemoveElement
<1>5. finished' = finished
  BY <1>1 DEF finished, frame
<1>6. Cardinality(lost') = dropped' + Cardinality(counting')
  BY <1>3, <1>4, CountingIsFinite DEF Account
<1> QED BY <1>3, <1>5, <1>6 DEF Account

LEMMA TryPutKeepsAccount ==
  ASSUME Typed, Account, NEW p \in Publishers, TryPut(p)
  PROVE  Account'
<1>1. TypeOK /\ p \in publishing /\ sent' = sent /\ path' = path
  BY DEF Typed, TypeOK, TryPut, publishing, path, client
<1>2. CASE full
  <2>1. lost' = lost \cup {frame(p)} /\ dropped' = dropped + 1 /\ dropped \in Nat
    BY <1>1, <1>2 DEF TryPut, TypeOK
  <2>2. publishing' = publishing \ {p} /\ counting' = counting
    BY <1>1, <1>2 DEF TryPut, publishing, counting, TypeOK
  <2>3. frame(p) \notin Range(path) \cup lost
    BY <1>1, InTransit
  <2>4. finished' = finished \cup {frame(p)}
    BY <1>1, <2>2, PublishEnds
  <2>5. Range(path') \cup lost' = finished' /\ Range(path') \cap lost' = {}
    BY <1>1, <2>1, <2>3, <2>4 DEF Account
  <2>6. IsFiniteSet(lost') /\ Cardinality(lost') = Cardinality(lost) + 1
    BY <2>1, <2>3, FS_AddElement DEF Account
  <2>7. Cardinality(lost') = dropped' + Cardinality(counting')
    BY <2>1, <2>2, <2>6, CountingIsFinite DEF Account
  <2> QED BY <1>1, <2>5, <2>6, <2>7 DEF Account
<1>3. CASE ~full
  <2>1. publishing' = publishing /\ counting' = counting /\ UNCHANGED <<lost, dropped>>
    BY <1>1, <1>3 DEF TryPut, publishing, counting, TypeOK
  <2> QED BY <1>1, <2>1, WithinPublish
<1> QED BY <1>2, <1>3

LEMMA EnqueueKeepsAccount ==
  ASSUME Typed, Account, NEW p \in Publishers, Enqueue(p)
  PROVE  Account'
<1>1. TypeOK /\ p \in publishing /\ UNCHANGED <<sent, lost, dropped>>
  BY DEF Typed, Enqueue, publishing
<1>2. publishing' = publishing \ {p} /\ counting' = counting
  BY <1>1 DEF Enqueue, publishing, counting, TypeOK
<1>3. /\ frame(p) \in Frame /\ frame(p) \notin Range(path) \cup lost
      /\ \A i \in DOMAIN path : path[i][1] = frame(p)[1] => path[i][2] < frame(p)[2]
  BY <1>1, InTransit
<1>4. path' = Append(path, frame(p)) /\ path \in Seq(Frame)
  <2>1. queue' = Append(queue, frame(p)) /\ delivered' = delivered /\ inhand' = inhand
    BY DEF Enqueue, client
  <2>2. queue \in Seq(Frame) /\ delivered \o inhand \in Seq(Frame)
    BY <1>1 DEF TypeOK
  <2>3. (delivered \o inhand) \o Append(queue, frame(p))
          = Append((delivered \o inhand) \o queue, frame(p))
    BY <1>3, <2>2
  <2> QED BY <1>1, <2>1, <2>3, PathIsFrames DEF path
<1>5. Range(path') = Range(path) \cup {frame(p)} /\ Ordered(path')
  BY <1>3, <1>4, AppendToPath DEF Account
<1>6. finished' = finished \cup {frame(p)}
  BY <1>1, <1>2, PublishEnds
<1>7. Range(path') \cup lost' = finished' /\ Range(path') \cap lost' = {}
  BY <1>1, <1>3, <1>5, <1>6 DEF Account
<1> QED BY <1>1, <1>2, <1>5, <1>7 DEF Account

LEMMA NextKeepsAccount ==
  ASSUME Typed, Account, [Next]_vars
  PROVE  Account'
<1>1. TypeOK
  BY DEF Typed
<1>2. ASSUME NEW p \in Publishers, Publish(p) PROVE Account'
  <2>1. path' = path /\ counting' = counting /\ UNCHANGED <<lost, dropped>>
    BY <1>1, <1>2 DEF Publish, path, counting, client, TypeOK
  <2>2. finished' = finished
    BY <1>1, <1>2, PublishBegins
  <2> QED BY <2>1, <2>2 DEF Account
<1>3. ASSUME NEW p \in Publishers, TestFull(p) PROVE Account'
  <2>1. path' = path /\ counting' = counting /\ publishing' = publishing
    BY <1>1, <1>3 DEF TestFull, path, counting, publishing, client, TypeOK
  <2> QED BY <1>3, <2>1, WithinPublish DEF TestFull
<1>4. CASE generator \/ ClientReads \/ Disconnect \/ Tick
  <2>1. UNCHANGED <<sent, pc, lost, dropped>>
    BY <1>4 DEF generator, CheckWatchdog, Get, Wake, Heartbeat, ClientReads, Disconnect, Tick
  <2> QED BY <1>4, <2>1, SameAccount, ReadersKeepThePath
<1>5. CASE UNCHANGED vars
  BY <1>5, SameAccount DEF vars, path
<1> QED BY <1>2, <1>3, <1>4, <1>5, EvictKeepsAccount, CountDropKeepsAccount,
           TryPutKeepsAccount, EnqueueKeepsAccount DEF Next, generator

LEMMA InitAccount == Init => Account
<1> SUFFICES ASSUME Init PROVE Account
  OBVIOUS
<1>1. path = <<>> /\ lost = {} /\ counting = {} /\ dropped = 0
  BY DEF Init, path, counting
<1>2. Range(path) = {} /\ Ordered(path)
  BY <1>1 DEF Range, Ordered
<1>3. finished = {}
  <2> SUFFICES ASSUME NEW f \in Frame, f[2] <= sent[f[1]] PROVE FALSE
    BY DEF finished
  <2> QED BY FrameParts DEF Init
<1> QED BY <1>1, <1>2, <1>3, FS_EmptySet DEF Account

LEMMA AlwaysAccounted == Spec => []Account
<1>1. Typed /\ Account /\ [Next]_vars => Account'
  BY NextKeepsAccount
<1> QED BY <1>1, InitAccount, AlwaysTyped, PTL DEF Spec

(* Whatever the interleaving, a frame that was published is read, on its    *)
(* way, or one of the dropped that the watchdog counts.                     *)
THEOREM NoFrameVanishes == Spec => []NoSilentHole
BY AlwaysAccounted, AccountIsTheProperties, PTL

(* Whatever is dropped between them, a publisher's frames are read in the   *)
(* order it sent them and none is read twice.                               *)
THEOREM FramesKeepTheirOrder == Spec => []ReadInOrder
BY AlwaysAccounted, AccountIsTheProperties, PTL

------------------------------------------------------------------------------
(* The promise: each step of a publisher, the generator or the client is    *)
(* one step of a channel that loses frames and keeps their order, or none.  *)
LEMMA PublishersKeepPromise ==
  ASSUME NEW p \in Publishers, Publish(p) \/ publisher(p), TypeOK
  PROVE  [C!Next]_(C!promise)
<1> USE DEF client
<1>1. taken' = taken /\ open' = open
  BY DEF taken, open, Publish, publisher, TestFull, Evict, CountDrop, TryPut, Enqueue
<1>2. CASE Publish(p)
  <2>1. publishing' = publishing \cup {p} /\ p \notin publishing /\ open # "closed"
    BY <1>2 DEF Publish, publishing, open, TypeOK
  <2> QED BY <1>1, <1>2, <2>1 DEF Publish, C!Begin, C!Next
<1>3. CASE TestFull(p) \/ CountDrop(p)
  <2>1. publishing' = publishing
    BY <1>3 DEF TestFull, CountDrop, publishing, TypeOK
  <2> QED BY <1>1, <1>3, <2>1 DEF TestFull, CountDrop, C!promise
<1>4. CASE Evict(p)
  <2>1. publishing' = publishing /\ p \in publishing
    BY <1>4 DEF Evict, publishing, TypeOK
  <2>2. CASE queue = <<>>
    BY <1>1, <1>4, <2>1, <2>2 DEF Evict, C!promise
  <2>3. CASE queue # <<>>
    BY <1>1, <1>4, <2>1, <2>3 DEF Evict, C!LoseOldest, C!Next
  <2> QED BY <2>2, <2>3
<1>5. CASE TryPut(p)
  <2>1. CASE full
    <3>1. publishing' = publishing \ {p} /\ p \in publishing
      BY <1>5, <2>1 DEF TryPut, publishing, TypeOK
    <3> QED BY <1>1, <1>5, <2>1, <3>1 DEF TryPut, full, frame, C!frame, C!LoseNewest, C!Next
  <2>2. CASE ~full
    <3>1. publishing' = publishing
      BY <1>5, <2>2 DEF TryPut, publishing, TypeOK
    <3> QED BY <1>1, <1>5, <2>2, <3>1 DEF TryPut, C!promise
  <2> QED BY <2>1, <2>2
<1>6. CASE Enqueue(p)
  <2>1. publishing' = publishing \ {p} /\ p \in publishing
    BY <1>6 DEF Enqueue, publishing, TypeOK
  <2> QED BY <1>1, <1>6, <2>1 DEF Enqueue, frame, C!frame, C!Wait, C!Next
<1> QED BY <1>2, <1>3, <1>4, <1>5, <1>6 DEF publisher

LEMMA TakeKeepsPromise ==
  ASSUME TypeOK, inhand = <<>>, queue # <<>>, gen \in {"get", "wait"}, take,
         UNCHANGED <<sent, pc, lost, delivered>>
  PROVE  C!Next
<1>1. /\ taken' = Append(taken, Head(queue))
      /\ queue' = Tail(queue)
  <2>1. Head(queue) \in Frame /\ delivered \in Seq(Frame)
    BY DEF TypeOK
  <2>2. taken = delivered /\ taken' = delivered \o <<Head(queue)>>
    BY <2>1 DEF taken, take
  <2> QED BY <2>1, <2>2 DEF take
<1>2. open = "open" /\ open' = "open" /\ publishing' = publishing
  BY DEF open, take, publishing
<1> QED BY <1>1, <1>2 DEF C!Take, C!Next

LEMMA ClientKeepsPromise ==
  ASSUME Typed, Grounds, generator \/ ClientReads \/ Disconnect \/ Tick
  PROVE  [C!Next]_(C!promise)
<1>1. TypeOK /\ NoneInHand
  BY DEF Typed
<1>2. CASE CheckWatchdog
  <2>1. taken' = taken /\ publishing' = publishing /\ open = "open"
    BY <1>2 DEF CheckWatchdog, taken, publishing, open
  <2>2. CASE gen' = "closing"
    <3>1. lost # {} /\ open' = "closing"
      BY <1>1, <1>2, <2>2 DEF CheckWatchdog, open, Grounds, TypeOK
    <3> QED BY <1>2, <2>1, <3>1 DEF CheckWatchdog, C!StartClosing, C!Next
  <2>3. CASE gen' = "get"
    <3>1. open' = "open"
      BY <2>3 DEF open
    <3> QED BY <1>2, <2>1, <3>1 DEF CheckWatchdog, C!promise
  <2> QED BY <1>2, <2>2, <2>3 DEF CheckWatchdog
<1>3. CASE Get
  <2>1. CASE queue = <<>>
    BY <1>3, <2>1 DEF Get, C!promise, taken, publishing, open
  <2>2. CASE queue # <<>>
    BY <1>1, <1>3, <2>2, TakeKeepsPromise DEF Get, NoneInHand
  <2> QED BY <2>1, <2>2
<1>4. CASE Wake
  BY <1>1, <1>4, TakeKeepsPromise DEF Wake, NoneInHand
<1>5. CASE Heartbeat \/ Tick
  BY <1>1, <1>5 DEF Heartbeat, Tick, NoneInHand, C!promise, taken, publishing, open
<1>6. CASE ClientReads
  <2>1. taken' = taken
    <3>1. delivered \o inhand \in Seq(Frame)
      BY <1>1 DEF TypeOK
    <3> QED BY <1>6, <3>1 DEF ClientReads, taken
  <2>2. publishing' = publishing
    BY <1>6 DEF ClientReads, publishing
  <2>3. CASE gen = "yield"
    BY <1>6, <2>1, <2>2, <2>3 DEF ClientReads, C!promise, open
  <2>4. CASE gen = "closing"
    BY <1>6, <2>1, <2>2, <2>4 DEF ClientReads, C!Close, C!Next, open
  <2> QED BY <1>6, <2>3, <2>4 DEF ClientReads
<1>7. CASE Disconnect
  <2>1. taken' = taken /\ publishing' = publishing /\ open # "closed" /\ open' = "closed"
    BY <1>7 DEF Disconnect, taken, publishing, open
  <2> QED BY <1>7, <2>1 DEF Disconnect, C!Close, C!Next
<1> QED BY <1>2, <1>3, <1>4, <1>5, <1>6, <1>7 DEF generator

(* Whatever the publishers, the queue's size and the watchdog's interval,   *)
(* the threads' test, eviction and put are to their client one channel that *)
(* loses frames only while something is published, never reorders or        *)
(* repeats one, and closes on its client only after a loss.                 *)
THEOREM StreamKeepsPromise == Spec => KeepsStreamPromise
<1>1. Init => C!Init
  BY DEF Init, C!Init, publishing, taken, open
<1>2. Typed /\ Grounds /\ [Next]_vars => [C!Next]_(C!promise)
  <2>1. ASSUME UNCHANGED vars PROVE UNCHANGED C!promise
    BY <2>1 DEF vars, client, C!promise, publishing, taken, open
  <2>2. Typed => TypeOK
    BY DEF Typed
  <2> QED BY <2>1, <2>2, PublishersKeepPromise, ClientKeepsPromise DEF Next, publisher, generator
<1> QED BY <1>1, <1>2, AlwaysTyped, AlwaysGrounds, PTL DEF Spec, KeepsStreamPromise, C!Spec

==============================================================================
