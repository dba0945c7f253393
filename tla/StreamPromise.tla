---------------------------- MODULE StreamPromise ----------------------------
(***************************************************************************)
(* What a client of the event stream is promised: a channel that may lose  *)
(* frames, the oldest waiting or the newest come, but never while nobody   *)
(* publishes; that neither reorders nor repeats them; and that is closed   *)
(* on it only after a loss.                                                *)
(***************************************************************************)
EXTENDS Naturals, Sequences

CONSTANTS
  Publishers,  \* who publishes
  MaxFrames,   \* bound: frames one publisher sends
  MaxQueue     \* waiting frames that make the newest one lost

VARIABLES
  sent,      \* frames each publisher has begun to publish
  underway,  \* the publishers whose last frame has not come to rest
  waiting,   \* the frames the stream has still to take
  read,      \* those it has taken
  lost,      \* those it will never take
  stream     \* "open", "closing" or "closed"

promise == <<sent, underway, waiting, read, lost, stream>>

frame(p) == <<p, sent[p]>>

Init ==
  /\ sent = [p \in Publishers |-> 0]
  /\ underway = {}
  /\ waiting = <<>> /\ read = <<>> /\ lost = {}
  /\ stream = "open"

Begin(p) ==
  /\ p \notin underway /\ sent[p] < MaxFrames /\ stream # "closed"
  /\ sent' = [sent EXCEPT ![p] = @ + 1]
  /\ underway' = underway \cup {p}
  /\ UNCHANGED <<waiting, read, lost, stream>>

Wait(p) ==
  /\ p \in underway
  /\ underway' = underway \ {p}
  /\ waiting' = Append(waiting, frame(p))
  /\ UNCHANGED <<sent, read, lost, stream>>

LoseNewest(p) ==
  /\ p \in underway /\ Len(waiting) >= MaxQueue
  /\ underway' = underway \ {p}
  /\ lost' = lost \cup {frame(p)}
  /\ UNCHANGED <<sent, waiting, read, stream>>

LoseOldest ==
  /\ underway # {} /\ waiting # <<>>
  /\ waiting' = Tail(waiting)
  /\ lost' = lost \cup {Head(waiting)}
  /\ UNCHANGED <<sent, underway, read, stream>>

Take ==
  /\ stream = "open" /\ waiting # <<>>
  /\ read' = Append(read, Head(waiting))
  /\ waiting' = Tail(waiting)
  /\ UNCHANGED <<sent, underway, lost, stream>>

StartClosing ==
  /\ stream = "open" /\ lost # {}
  /\ stream' = "closing"
  /\ UNCHANGED <<sent, underway, waiting, read, lost>>

(* The client has read the closing frame, or has gone.                      *)
Close ==
  /\ stream # "closed"
  /\ stream' = "closed"
  /\ UNCHANGED <<sent, underway, waiting, read, lost>>

Next ==
  \/ \E p \in Publishers : Begin(p) \/ Wait(p) \/ LoseNewest(p)
  \/ LoseOldest \/ Take \/ StartClosing \/ Close

Spec == Init /\ [][Next]_promise
==============================================================================
