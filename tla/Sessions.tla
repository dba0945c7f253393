------------------------------- MODULE Sessions ------------------------------
(***************************************************************************)
(* Database sessions that overlap (app/db.py): a request or a job reads    *)
(* rows as it comes to them, keeps its copies, and writes what it changed  *)
(* at its commit, with the ledger rows app/ledger.transition made from the *)
(* copies.  No row is locked by a read and none has a version.  One zone,  *)
(* its clashes, and each clash's latest live proposal.  Of two overlapping *)
(* sessions the ledger has the one that commits first in front.            *)
(***************************************************************************)
EXTENDS Naturals, Sequences, SequencesExt, FiniteSets

CONSTANTS
  Sessions,  \* requests and jobs, each one transaction
  Clashes,   \* the clashes of the zone
  Shared,    \* those of two zones, which the coordinator settles
  Zone       \* the zone's row

ASSUME SessionsAssumption ==
  Zone \notin Clashes /\ Shared \in SUBSET Clashes /\ IsFiniteSet(Sessions)

Rows == Clashes \cup {Zone}
Work == {"resolve", "arbitrate", "rebase", "approve", "reject", "edit", "diff"}
Accepted == {"verified", "verified_conditional"}
ZONE_STATES == {"queued", "active", "awaiting_review", "merged"}
CLASH_STATES ==
  {"open", "proposed", "approved", "merged", "escalated", "resolved", "regressed"} \cup Accepted
Verdicts == {"none", "rejected", "escalated"} \cup Accepted

VARIABLES
  column,    \* the state column of each row, as committed
  live,      \* each clash's live proposal: its verdict, and a name for it
  history,   \* the ledger rows of each row
  clock,     \* commits so far
  pc, work,  \* where each session stands, and what it does
  read,      \* the clock when it read each row
  copy,      \* the state it read there
  proposal   \* the live proposals it read

base == <<column, live, history, clock>>
local == <<pc, work, read, copy, proposal>>
vars == <<base, local>>

NoProposal == [name |-> 0, verdict |-> "none"]
event(from, to, r, a) == [from |-> from, to |-> to, read |-> r, at |-> a]

Init ==
  /\ column = [e \in Rows |-> IF e = Zone THEN "queued" ELSE "open"]
  /\ live = [c \in Clashes |-> NoProposal]
  /\ history = [e \in Rows |-> <<event("none", column[e], 0, 0)>>]
  /\ clock = 0
  /\ pc = [s \in Sessions |-> "idle"]
  /\ work = [s \in Sessions |-> "resolve"]
  /\ read = [s \in Sessions |-> [e \in Rows |-> 0]]
  /\ copy = [s \in Sessions |-> [e \in Rows |-> "none"]]
  /\ proposal = [s \in Sessions |-> [c \in Clashes |-> NoProposal]]

------------------------------------------------------------------------------
(* db.get of the zone; a merged zone takes no approval and no edit.         *)
Begin(s, w) ==
  /\ pc[s] = "idle"
  /\ w \in {"approve", "edit"} => column[Zone] # "merged"
  /\ pc' = [pc EXCEPT ![s] = "zone"]
  /\ work' = [work EXCEPT ![s] = w]
  /\ read' = [read EXCEPT ![s][Zone] = clock]
  /\ copy' = [copy EXCEPT ![s][Zone] = column[Zone]]
  /\ UNCHANGED <<base, proposal>>

ReadClashes(s) ==
  /\ pc[s] = "zone"
  /\ pc' = [pc EXCEPT ![s] = "clashes"]
  /\ read' = [read EXCEPT ![s] = [e \in Rows |-> IF e = Zone THEN @[e] ELSE clock]]
  /\ copy' = [copy EXCEPT ![s] = [e \in Rows |-> IF e = Zone THEN @[e] ELSE column[e]]]
  /\ UNCHANGED <<base, work, proposal>>

ReadProposals(s) ==
  /\ pc[s] = "clashes"
  /\ pc' = [pc EXCEPT ![s] = "ready"]
  /\ proposal' = [proposal EXCEPT ![s] = live]
  /\ UNCHANGED <<base, work, read, copy>>

(* session.close: nothing of what was read outlives the session.            *)
close(s) ==
  /\ pc' = [pc EXCEPT ![s] = "done"]
  /\ work' = [work EXCEPT ![s] = "resolve"]
  /\ read' = [read EXCEPT ![s] = [e \in Rows |-> 0]]
  /\ copy' = [copy EXCEPT ![s] = [e \in Rows |-> "none"]]
  /\ proposal' = [proposal EXCEPT ![s] = [c \in Clashes |-> NoProposal]]

(* An acknowledgement refused, a conflict, any exception: rolled back.      *)
Rollback(s) ==
  /\ pc[s] \in {"zone", "clashes", "ready"}
  /\ close(s)
  /\ UNCHANGED base

------------------------------------------------------------------------------
found(s, states) == {c \in Clashes : copy[s][c] \in states}
proposed(s) == {c \in Clashes : proposal[s][c] # NoProposal}

(* What a session does: the states it takes each row through, the verdict   *)
(* of a proposal it adds, and of one it judges again.                       *)
plan(to, added, judged) == [to |-> to, added |-> added, judged |-> judged]

(* Mutant: the judgement of an edit is not looked at.                       *)
stateOf_unjudged(verdict) == IF verdict = "escalated" THEN "escalated" ELSE "verified"

stateOf(verdict) == IF verdict \in Accepted THEN verdict ELSE "escalated"

(* The resolver's verdict on each clash; one it accepts stays proposed if   *)
(* it is the coordinator's to settle.                                       *)
resolves(s) ==
  {plan([e \in Rows |-> IF e = Zone THEN <<"active", "awaiting_review">>
                        ELSE IF e \notin DOMAIN v THEN <<>>
                        ELSE IF e \in Shared /\ v[e] \in Accepted THEN <<"proposed">>
                        ELSE <<stateOf(v[e])>>], v, <<>>) :
     v \in [found(s, {"open", "proposed"}) -> Accepted \cup {"escalated"}]}

(* A job asks for one clash, whatever its state.                            *)
arbitrates(s) ==
  {plan([e \in Rows |-> IF e \in DOMAIN v THEN <<stateOf(v[e])>> ELSE <<>>], <<>>, v) :
     v \in UNION {[{c} -> Accepted \cup {"rejected"}] : c \in proposed(s) \cap Shared}}

rebases(s) ==
  {plan([e \in Rows |-> IF e \in bad THEN <<"proposed">>
                        ELSE IF e = Zone /\ bad # {} /\ copy[s][Zone] # "queued" THEN <<"queued">>
                        ELSE <<>>], <<>>, [c \in bad |-> "rejected"]) :
     bad \in SUBSET (found(s, Accepted) \cap proposed(s))}

(* Mutant: the second transition is forgotten.                              *)
approves_halfway(s) ==
  {plan([e \in Rows |-> IF e = Zone THEN <<"merged">>
                        ELSE IF copy[s][e] \in Accepted THEN <<"approved">> ELSE <<>>], <<>>, <<>>)}

approves(s) ==
  {plan([e \in Rows |-> IF e = Zone THEN <<"merged">>
                        ELSE IF copy[s][e] \in Accepted THEN <<"approved", "merged">>
                        ELSE <<>>], <<>>, <<>>)}

rejects(s) ==
  {plan([e \in Rows |-> IF e = Zone THEN <<"queued">>
                        ELSE IF copy[s][e] \in Accepted \cup {"proposed"} THEN <<"open">>
                        ELSE <<>>], <<>>, <<>>)}

edits(s) ==
  {plan([e \in Rows |-> IF e \in DOMAIN v THEN <<stateOf(v[e])>>
                        ELSE IF e = Zone /\ copy[s][Zone] # "awaiting_review"
                        THEN <<"awaiting_review">> ELSE <<>>], v, <<>>) :
     v \in UNION {[cs -> Accepted \cup {"rejected"}] : cs \in (SUBSET proposed(s)) \ {{}}}}

(* diff_against: the next version has the clash no longer, or deeper.       *)
diffs(s) ==
  {plan([e \in Rows |-> IF e \in DOMAIN v /\ v[e] # copy[s][e] THEN <<v[e]>> ELSE <<>>], <<>>, <<>>) :
     v \in UNION {[cs -> {"resolved", "regressed"}] : cs \in SUBSET Clashes}}

plans(s) ==
  CASE work[s] = "resolve" -> resolves(s) [] work[s] = "arbitrate" -> arbitrates(s)
    [] work[s] = "rebase" -> rebases(s)
    [] work[s] = "approve" -> approves(s) [] work[s] = "reject" -> rejects(s)
    [] work[s] = "edit" -> edits(s) [] work[s] = "diff" -> diffs(s)

(* transition: each ledger row starts where the copy stood.                 *)
transitions(s, e, to) ==
  [i \in DOMAIN to |-> event(IF i = 1 THEN copy[s][e] ELSE to[i - 1], to[i], read[s][e], clock + 1)]

(* Mutant: a column that is changed and changed back is not written.        *)
written_if_changed(s, e, to) == to # <<>> /\ Last(to) # copy[s][e]

(* A column is written when it differs from the copy.  resolve_zone flushes *)
(* "active" first, so the zone's is written in any case.                    *)
written(s, e, to) ==
  to # <<>> /\ (Last(to) # copy[s][e] \/ (Len(to) > 1 /\ e = Zone))

(* So is a proposal's verdict, on the row that was read.                    *)
rejudged(s, c, judged) ==
  /\ c \in DOMAIN judged /\ judged[c] # proposal[s][c].verdict
  /\ live[c].name = proposal[s][c].name

Commit(s) ==
  /\ pc[s] = "ready"
  /\ \E p \in plans(s) :
       /\ column' = [e \in Rows |-> IF written(s, e, p.to[e]) THEN Last(p.to[e]) ELSE column[e]]
       /\ history' = [e \in Rows |-> history[e] \o transitions(s, e, p.to[e])]
       /\ live' = [c \in Clashes |->
            IF c \in DOMAIN p.added THEN [name |-> clock + 1, verdict |-> p.added[c]]
            ELSE IF rejudged(s, c, p.judged) THEN [live[c] EXCEPT !.verdict = p.judged[c]]
            ELSE live[c]]
  /\ clock' = clock + 1
  /\ close(s)

Next ==
  \E s \in Sessions :
    \/ \E w \in Work : Begin(s, w)
    \/ ReadClashes(s) \/ ReadProposals(s) \/ Commit(s) \/ Rollback(s)

Spec == Init /\ [][Next]_vars

------------------------------------------------------------------------------
TypeOK ==
  /\ column \in [Rows -> ZONE_STATES \cup CLASH_STATES]
  /\ column[Zone] \in ZONE_STATES \ {"active"} /\ \A c \in Clashes : column[c] \in CLASH_STATES \ {"approved"}
  /\ live \in [Clashes -> [name : Nat, verdict : Verdicts]]
  /\ \A e \in Rows : history[e] # <<>>
  /\ clock \in 0..Cardinality(Sessions)
  /\ pc \in [Sessions -> {"idle", "zone", "clashes", "ready", "done"}]
  /\ work \in [Sessions -> Work]

(* Where the ledger says the row stood when the clock was t: at the end of  *)
(* the last change committed by then.  A row that restates a state, as a    *)
(* second look at a clash makes, changes nothing.                           *)
stoodAt(e, state, t) ==
  \E i \in DOMAIN history[e] :
    /\ history[e][i].at <= t /\ history[e][i].from # history[e][i].to /\ history[e][i].to = state
    /\ \A k \in DOMAIN history[e] :
         k > i /\ history[e][k].at <= t => history[e][k].from = history[e][k].to

(* However sessions overlap, the ledger accounts for the state column: the  *)
(* column is where the last change in the ledger left the row, whatever the *)
(* sessions it overlapped recorded behind it, and each ledger row starts    *)
(* where the ledger says the row stood when the session that wrote it read  *)
(* it (or where the row before it, of the same commit, ended).  So what an  *)
(* overlap overwrote can be told from the ledger alone.                     *)
LedgerAccountsForColumn ==
  \A e \in Rows :
    /\ stoodAt(e, column[e], clock)
    /\ \A i \in 2..Len(history[e]) :
         IF history[e][i].at = history[e][i - 1].at
         THEN history[e][i].from = history[e][i - 1].to
         ELSE stoodAt(e, history[e][i].from, history[e][i].read)

(* No commit to the row fell between the read and the commit of the session *)
(* that made the i-th row of its ledger.                                    *)
clean(e, i) ==
  \A k \in DOMAIN history[e] :
    history[e][k].at < history[e][i].at => history[e][k].at <= history[e][i].read

(* An accepted clash rests on a live proposal of just that verdict, and a   *)
(* merged one on an accepting verdict, whatever overlaps the clash went     *)
(* through before: the last commit to it need be clean, and for a merge     *)
(* (approved and merged, two ledger rows) the one that accepted it.  What   *)
(* an overlap does to a clash does not outlive the next clean commit.       *)
MergedOnAcceptance ==
  \A c \in Clashes :
    LET n == Len(history[c]) IN clean(c, n) =>
    /\ column[c] \in Accepted => live[c].verdict = column[c]
    /\ column[c] = "merged" /\ clean(c, n - 2) => live[c].verdict \in Accepted
==============================================================================
