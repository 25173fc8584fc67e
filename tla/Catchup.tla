------------------------------ MODULE Catchup ------------------------------
(***************************************************************************)
(* The read path: Space objects that read somebody else's lane.  A reader  *)
(* pulls the lane in with refresh() -- one LIST, then GETs of the objects  *)
(* it has not replayed yet -- while the lane's own handles (module Lane)   *)
(* go on writing, compacting, collecting and failing.                      *)
(*                                                                         *)
(* Lanes do not interact, so one lane is enough: what a reader keeps of    *)
(* several lanes is one PeerLane for each and the merge of their records.  *)
(***************************************************************************)
EXTENDS Lane

CONSTANTS
    Reader,
    Rewrites        \* environment: a flush whose PUT has landed may fail and
                    \* be repeated with more records under the same key

ASSUME CatchupAssumption == Rewrites \in BOOLEAN

VARIABLES
    peerEpoch,      \* PeerLane.epoch, 0 for None
    applied,        \* PeerLane.applied: the keys already replayed
    wanted,         \* the keys that a refresh has listed and is fetching
    refreshing,     \* a refresh is between its LIST and its GETs
    view,           \* the SharedState: what replaying the records leaves
    due             \* history: what was acknowledged at the LIST of a refresh
                    \* that is under way

readerVars == <<peerEpoch, applied, wanted, refreshing, view, due>>
catchupVars == <<laneVars, readerVars>>

-----------------------------------------------------------------------------
\* select_chain without a hint.
Chain == SelectChain(DOMAIN bucket, top + 1)

StillApplied_AnyEpoch(r, e) == applied[r]

\* What is left of `applied` when the peer has got to epoch e.
StillApplied(r, e) == IF e = peerEpoch[r] THEN applied[r] ELSE {}

\* The LIST of refresh(), and what to fetch of the chain it finds.  An L1
\* object whose segments have been replayed is taken as applied.
RefreshList(r) ==
    /\ ~refreshing[r]
    /\ refreshing' = [refreshing EXCEPT ![r] = TRUE]
    /\ due' = [due EXCEPT ![r] = AckedRecords]
    /\ \/ /\ Chain = {}
          /\ UNCHANGED <<peerEpoch, applied, wanted>>
       \/ \E e \in {k.epoch : k \in Chain} :
            LET before == StillApplied(r, e)
                new == {k \in Chain \ before : ~SpansCover(before, k)}
            IN  /\ peerEpoch' = [peerEpoch EXCEPT ![r] = e]
                /\ applied' = [applied EXCEPT ![r] = before \cup (Chain \ new)]
                /\ wanted' = [wanted EXCEPT ![r] = new]
    /\ UNCHANGED <<laneVars, view>>

RefreshFetch_MarksMissing(r) ==
    /\ refreshing[r]
    /\ view' = [view EXCEPT ![r] = Replay(@ \cup Contents(wanted[r] \cap DOMAIN bucket))]
    /\ applied' = [applied EXCEPT ![r] = @ \cup wanted[r]]
    /\ wanted' = [wanted EXCEPT ![r] = {}]
    /\ refreshing' = [refreshing EXCEPT ![r] = FALSE]
    /\ due' = [due EXCEPT ![r] = {}]
    /\ UNCHANGED <<laneVars, peerEpoch>>

\* Its GETs: an object that is gone by now is passed over.
RefreshFetch(r) ==
    /\ refreshing[r]
    /\ LET found == wanted[r] \cap DOMAIN bucket
       IN  /\ view' = [view EXCEPT ![r] = Replay(@ \cup Contents(found))]
           /\ applied' = [applied EXCEPT ![r] = @ \cup found]
    /\ wanted' = [wanted EXCEPT ![r] = {}]
    /\ refreshing' = [refreshing EXCEPT ![r] = FALSE]
    /\ due' = [due EXCEPT ![r] = {}]
    /\ UNCHANGED <<laneVars, peerEpoch>>

\* A GET fails and the refresh raises.
RefreshFails(r) ==
    /\ refreshing[r]
    /\ wanted' = [wanted EXCEPT ![r] = {}]
    /\ refreshing' = [refreshing EXCEPT ![r] = FALSE]
    /\ due' = [due EXCEPT ![r] = {}]
    /\ UNCHANGED <<laneVars, peerEpoch, applied, view>>

\* The reader is activated anew -- its lease expired, or its process died --
\* and starts from nothing; the refresh follows.
ReaderWakes(r) ==
    /\ peerEpoch' = [peerEpoch EXCEPT ![r] = 0]
    /\ applied' = [applied EXCEPT ![r] = {}]
    /\ wanted' = [wanted EXCEPT ![r] = {}]
    /\ refreshing' = [refreshing EXCEPT ![r] = FALSE]
    /\ view' = [view EXCEPT ![r] = {}]
    /\ due' = [due EXCEPT ![r] = {}]
    /\ UNCHANGED laneVars

\* A step of the lane.  Without Rewrites an object that is there keeps what it
\* says, however often it is put.
LaneStep ==
    /\ Next
    /\ Rewrites \/ \A k \in DOMAIN bucket \cap DOMAIN bucket' : bucket'[k] = bucket[k]
    /\ UNCHANGED readerVars

CatchupInit ==
    /\ Init
    /\ peerEpoch = [r \in Reader |-> 0]
    /\ applied = [r \in Reader |-> {}]
    /\ wanted = [r \in Reader |-> {}]
    /\ refreshing = [r \in Reader |-> FALSE]
    /\ view = [r \in Reader |-> {}]
    /\ due = [r \in Reader |-> {}]

CatchupNext ==
    \/ LaneStep
    \/ \E r \in Reader : \/ RefreshList(r) \/ RefreshFetch(r) \/ RefreshFails(r)
                         \/ ReaderWakes(r)

\* A reader keeps refreshing, and its GETs do not fail for ever.  Nothing is
\* asked of the lane: its handles may stop at any time.
Fairness ==
    \A r \in Reader : /\ WF_catchupVars(RefreshList(r))
                      /\ SF_catchupVars(RefreshFetch(r))

CatchupSpec == CatchupInit /\ [][CatchupNext]_catchupVars /\ Fairness

-----------------------------------------------------------------------------
(* Properties                                                              *)

\* The keys a reader has replayed or is fetching are of the epoch it is at.
ReaderTypeOK ==
    /\ peerEpoch \in [Reader -> Nat]
    /\ refreshing \in [Reader -> BOOLEAN]
    /\ view \in [Reader -> SUBSET Record] /\ due \in [Reader -> SUBSET Record]
    /\ \A r \in Reader : \A k \in applied[r] \cup wanted[r] :
          k \in Key /\ k.epoch = peerEpoch[r]

\* "Another agent's writes become visible at your next refresh" (memory.py:34):
\* a refresh that lost no object to gc() on the way ends with all that the lane
\* had acknowledged when it began, whatever the reader had replayed before of
\* segments, compactions and earlier epochs.
VisibleAtNextRefresh ==
    [][\A r \in Reader :
          refreshing[r] /\ ~refreshing'[r] /\ wanted[r] \subseteq applied'[r]
             /\ peerEpoch'[r] = peerEpoch[r]
             => Covers(view'[r], due[r])]_catchupVars

\* "Every agent converges on the same memory" (memory.py:36): what a lane has
\* acknowledged every reader of it will know, though gc() deletes under its
\* hands, requests fail and the reader starts over.
Converges ==
    \A r \in Reader, a \in Record :
        a \in AckedRecords ~> Covers(view[r], {a})
=============================================================================
