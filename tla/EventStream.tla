----------------------------- MODULE EventStream -----------------------------
(***************************************************************************)
(* One event subscriber (app/api/events.py): its bounded queue, the        *)
(* pipeline threads that publish to it, and the generator that writes to   *)
(* the client.  publish runs in threads of its own: between its test for   *)
(* room, its eviction and its put the generator, or another publisher, may *)
(* run.  A single dropped += 1 is not interrupted.                         *)
(***************************************************************************)
EXTENDS Naturals, Sequences, SequencesExt, FiniteSets

CONSTANTS
  Publishers,  \* pipeline threads publishing on a topic the client reads
  MaxFrames,   \* bound: frames one publisher sends
  MaxQueue,    \* MAX_QUEUE
  Watchdog     \* WATCHDOG_SECONDS, in ticks

ASSUME StreamAssumption ==
  /\ IsFiniteSet(Publishers)
  /\ MaxFrames \in Nat /\ MaxQueue \in Nat \ {0} /\ Watchdog \in Nat

VARIABLES
  sent,       \* frames each publisher has begun to publish
  pc,         \* where its publish stands
  queue,      \* sub.queue
  dropped,    \* sub.dropped
  lost,       \* the frames no longer anywhere
  gen,        \* where the generator stands
  inhand,     \* the frame it is yielding, if it is not a comment
  delivered,  \* what the client has read
  first_drop, \* is the watchdog's timer set?
  lapsed      \* ticks since it was

vars == <<sent, pc, queue, dropped, lost, gen, inhand, delivered, first_drop, lapsed>>
client == <<gen, inhand, delivered, first_drop, lapsed>>

Frame == Publishers \X (1..MaxFrames)

(* Mutant: the queue is made without its maxsize.                           *)
full_never == FALSE

full == Len(queue) >= MaxQueue
frame(p) == <<p, sent[p]>>

Init ==
  /\ sent = [p \in Publishers |-> 0]
  /\ pc = [p \in Publishers |-> "idle"]
  /\ queue = <<>> /\ dropped = 0 /\ lost = {}
  /\ gen = "yield" /\ inhand = <<>> /\ delivered = <<>>
  /\ first_drop = FALSE /\ lapsed = 0

------------------------------------------------------------------------------
(* publish *)

Publish(p) ==
  /\ pc[p] = "idle" /\ sent[p] < MaxFrames
  /\ gen # "gone"
  /\ sent' = [sent EXCEPT ![p] = @ + 1]
  /\ pc' = [pc EXCEPT ![p] = "test"]
  /\ UNCHANGED <<queue, dropped, lost, client>>

TestFull(p) ==
  /\ pc[p] = "test"
  /\ pc' = [pc EXCEPT ![p] = IF full THEN "evict" ELSE "put"]
  /\ UNCHANGED <<sent, queue, dropped, lost, client>>

(* The oldest frame goes; if the generator has emptied the queue, none.     *)
Evict(p) ==
  /\ pc[p] = "evict"
  /\ IF queue = <<>>
       THEN pc' = [pc EXCEPT ![p] = "put"] /\ UNCHANGED <<queue, lost>>
       ELSE /\ pc' = [pc EXCEPT ![p] = "count"]
            /\ queue' = Tail(queue)
            /\ lost' = lost \cup {Head(queue)}
  /\ UNCHANGED <<sent, dropped, client>>

CountDrop(p) ==
  /\ pc[p] = "count"
  /\ dropped' = dropped + 1
  /\ pc' = [pc EXCEPT ![p] = "put"]
  /\ UNCHANGED <<sent, queue, lost, client>>

(* Mutant: QueueFull is passed over, as QueueEmpty is.                      *)
TryPut_silent(p) ==
  /\ pc[p] = "put"
  /\ IF full
       THEN /\ pc' = [pc EXCEPT ![p] = "idle"]
            /\ lost' = lost \cup {frame(p)}
       ELSE pc' = [pc EXCEPT ![p] = "append"] /\ UNCHANGED lost
  /\ UNCHANGED <<sent, queue, dropped, client>>

(* put_nowait tests for room: QueueFull loses this frame instead ...        *)
TryPut(p) ==
  /\ pc[p] = "put"
  /\ IF full
       THEN /\ pc' = [pc EXCEPT ![p] = "idle"]
            /\ dropped' = dropped + 1
            /\ lost' = lost \cup {frame(p)}
       ELSE pc' = [pc EXCEPT ![p] = "append"] /\ UNCHANGED <<dropped, lost>>
  /\ UNCHANGED <<sent, queue, client>>

(* ... and appends, though another publisher may have filled it since.      *)
Enqueue(p) ==
  /\ pc[p] = "append"
  /\ queue' = Append(queue, frame(p))
  /\ pc' = [pc EXCEPT ![p] = "idle"]
  /\ UNCHANGED <<sent, dropped, lost, client>>

publisher(p) == \/ TestFull(p) \/ Evict(p) \/ CountDrop(p) \/ TryPut(p) \/ Enqueue(p)

------------------------------------------------------------------------------
(* stream *)

(* Mutant: every loop starts the timer again.                               *)
CheckWatchdog_rearmed ==
  /\ gen = "top"
  /\ first_drop' = (dropped > 0)
  /\ lapsed' = 0
  /\ gen' = IF first_drop' /\ lapsed' >= Watchdog THEN "closing" ELSE "get"
  /\ UNCHANGED <<sent, pc, queue, dropped, lost, inhand, delivered>>

(* Once frames have been dropped, the stream closes at the first turn of    *)
(* the loop that finds the watchdog's interval over.                        *)
CheckWatchdog ==
  /\ gen = "top"
  /\ first_drop' = (dropped > 0)
  /\ lapsed' = IF first_drop THEN lapsed ELSE 0
  /\ gen' = IF first_drop' /\ lapsed' >= Watchdog THEN "closing" ELSE "get"
  /\ UNCHANGED <<sent, pc, queue, dropped, lost, inhand, delivered>>

(* Mutant: the head is read and stays in the queue.                         *)
take_peeking ==
  /\ gen' = "yield"
  /\ inhand' = <<Head(queue)>>
  /\ UNCHANGED queue

take ==
  /\ gen' = "yield"
  /\ inhand' = <<Head(queue)>>
  /\ queue' = Tail(queue)

(* Mutant: get waits to be woken although the queue holds frames.           *)
Get_blind ==
  /\ gen = "get"
  /\ gen' = "wait" /\ UNCHANGED <<queue, inhand>>
  /\ UNCHANGED <<sent, pc, dropped, lost, delivered, first_drop, lapsed>>

Get ==
  /\ gen = "get"
  /\ IF queue = <<>> THEN gen' = "wait" /\ UNCHANGED <<queue, inhand>> ELSE take
  /\ UNCHANGED <<sent, pc, dropped, lost, delivered, first_drop, lapsed>>

Wake ==
  /\ gen = "wait" /\ queue # <<>>
  /\ take
  /\ UNCHANGED <<sent, pc, dropped, lost, delivered, first_drop, lapsed>>

(* wait_for times out.  A put from another thread need not wake the loop,   *)
(* so this may happen although a frame has come.                            *)
Heartbeat ==
  /\ gen = "wait"
  /\ gen' = "yield" /\ inhand' = <<>>
  /\ UNCHANGED <<sent, pc, queue, dropped, lost, delivered, first_drop, lapsed>>

generator == \/ CheckWatchdog \/ Get \/ Wake \/ Heartbeat

(* Mutant: without the finally, the subscriber outlives its stream.         *)
ClientReads_subscribed ==
  /\ gen \in {"yield", "closing"}
  /\ gen' = IF gen = "yield" THEN "top" ELSE "returned"
  /\ delivered' = delivered \o inhand
  /\ inhand' = <<>>
  /\ UNCHANGED <<sent, pc, queue, dropped, lost, first_drop, lapsed>>

(* The client reads what is yielded; after the closing frame, unsubscribe.  *)
ClientReads ==
  /\ gen \in {"yield", "closing"}
  /\ gen' = IF gen = "yield" THEN "top" ELSE "gone"
  /\ delivered' = delivered \o inhand
  /\ inhand' = <<>>
  /\ UNCHANGED <<sent, pc, queue, dropped, lost, first_drop, lapsed>>

(* The request is cancelled at an await or a yield.                         *)
Disconnect ==
  /\ gen \in {"yield", "closing", "wait"}
  /\ gen' = "gone"
  /\ UNCHANGED <<sent, pc, queue, dropped, lost, inhand, delivered, first_drop, lapsed>>

Tick ==
  /\ first_drop /\ lapsed < Watchdog
  /\ lapsed' = lapsed + 1
  /\ UNCHANGED <<sent, pc, queue, dropped, lost, gen, inhand, delivered, first_drop>>

Next ==
  \/ \E p \in Publishers : Publish(p)
  \/ \E p \in Publishers : TestFull(p)
  \/ \E p \in Publishers : Evict(p)
  \/ \E p \in Publishers : CountDrop(p)
  \/ \E p \in Publishers : TryPut(p)
  \/ \E p \in Publishers : Enqueue(p)
  \/ CheckWatchdog \/ Get \/ Wake \/ Heartbeat
  \/ ClientReads \/ Disconnect \/ Tick

(* The interpreter schedules its threads and its loop, and time passes.     *)
(* That the client reads is an assumption about the client.                 *)
Fairness ==
  /\ \A p \in Publishers : WF_vars(publisher(p))
  /\ WF_vars(generator)
  /\ WF_vars(ClientReads)
  /\ WF_vars(Tick)

Spec == Init /\ [][Next]_vars
FairSpec == Spec /\ Fairness

------------------------------------------------------------------------------
counting == {p \in Publishers : pc[p] = "count"}
publishing == {p \in Publishers : pc[p] # "idle"}
path == delivered \o inhand \o queue

TypeOK ==
  /\ sent \in [Publishers -> 0..MaxFrames]
  /\ pc \in [Publishers -> {"idle", "test", "evict", "count", "put", "append"}]
  /\ \A p \in publishing : sent[p] > 0
  /\ queue \in Seq(Frame) /\ delivered \in Seq(Frame) /\ inhand \in Seq(Frame)
  /\ Len(inhand) <= 1
  /\ dropped \in Nat
  /\ lost \in SUBSET Frame
  /\ gen \in {"top", "get", "wait", "yield", "closing", "gone"}
  /\ first_drop \in BOOLEAN /\ lapsed \in 0..Watchdog

(* Every frame a publisher has done with was read, is on its way in the     *)
(* order it was sent, or is lost; and dropped counts the lost ones.         *)
NoSilentHole ==
  /\ Range(path) \cup lost = {f \in Frame : f[2] <= sent[f[1]]} \ {frame(p) : p \in publishing}
  /\ Range(path) \cap lost = {}
  /\ Cardinality(lost) = dropped + Cardinality(counting)

(* A publisher's frames are read in the order it sent them, none twice.     *)
ReadInOrder ==
  \A i, k \in DOMAIN path : i < k /\ path[i][1] = path[k][1] => path[i][2] < path[k][2]

(* The queue holds MAX_QUEUE frames, and one more for each publisher beside *)
(* the first that was between its test and its append.                      *)
QueueBounded == Len(queue) <= MaxQueue + Cardinality(Publishers) - 1

(* To publishers and client the stream is a channel that loses, and never   *)
(* reorders; the test for room, the eviction and the put that the publisher *)
(* threads interleave are inside it.                                        *)
taken == delivered \o inhand
open == IF gen = "gone" THEN "closed" ELSE IF gen = "closing" THEN "closing" ELSE "open"
C == INSTANCE StreamPromise WITH
       underway <- publishing, waiting <- queue, read <- taken, stream <- open
KeepsStreamPromise == C!Spec

(* Silence is not a fault: only a stream that lost frames is closed.        *)
QuietStreamStaysOpen == gen = "closing" => lost # {}

(* Once frames have been lost the stream closes.                            *)
LossClosesTheStream == lost # {} ~> gen = "gone"

(* A slow client delays a frame; it does not keep it in the queue for ever. *)
FramesMoveOn ==
  \A f \in Frame : f \in Range(queue) ~> f \in Range(delivered) \cup lost \/ gen = "gone"

==============================================================================
