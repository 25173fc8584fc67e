------------------------------- MODULE Lane -------------------------------
(***************************************************************************)
(* One agent's lane in the object store and the Space objects ("handles")  *)
(* that want to be its writer: activate, stage, flush, compact, gc and     *)
(* deactivate of space.py, interleaved with one another, with lost         *)
(* replies, failed requests and crashes.                                   *)
(*                                                                         *)
(* The ownership record is the abstract one of FencingTokens: a claim      *)
(* issues the next epoch.  Whether a lease has expired is left open -- a   *)
(* handle may find its own lease or the record's expired at any time --    *)
(* so nothing here depends on clocks.  Segment PUTs are unconditional; the *)
(* epoch in the key and the ownership read before the acknowledgement are  *)
(* the only fence.                                                         *)
(***************************************************************************)
EXTENDS LaneChain

CONSTANTS
    Handle, NoHandle,
    Record,         \* put and forget records
    Kills,          \* the pairs <<forget, put>> of records for one fragment
    CompactAt,      \* compaction_threshold
    KeepEpochs,     \* gc's keep_epochs
    EarlyWakes,     \* environment: a handle may wake while a renewal that it
                    \* has no reply to still holds its lane
    OverlappingGc,  \* environment: gc() may run while a wake is reading
    MaxEpoch,       \* bound: no claim beyond this epoch
    MaxSeq          \* bound: no segment beyond this sequence number

ASSUME LaneAssumption ==
    /\ NoHandle \notin Handle
    /\ Kills \subseteq Record \X Record
    /\ \A p, q \in Kills : p[2] # q[1]       \* no forget is itself forgotten
    /\ CompactAt \in Nat \ {0, 1}
    /\ KeepEpochs \in Nat \ {0}
    /\ EarlyWakes \in BOOLEAN /\ OverlappingGc \in BOOLEAN
    /\ MaxEpoch \in Nat /\ MaxSeq \in Nat

VARIABLES
    top, issued,    \* the ownership record's epoch, and who was issued what
    holder,         \* the handle the record names, or NoHandle (unowned)
    bucket,         \* the lane's objects: key -> set of records
    phase,          \* where each handle is
    epoch,          \* Space.epoch: that of its claim, 0 without one
    own,            \* Space.own and Space.own_tombstones
    staged,         \* Space._staged
    nextSeq,        \* Space._next_seq
    based,          \* Space._base_written
    plan,           \* the chain a wake has listed and is fetching
    lagging,        \* handles whose last renewal landed without a reply
    doomed,         \* the keys gc() has listed and is deleting
    acked           \* history: <<epoch, record>> acknowledged

ownerVars == <<top, issued, holder>>
localVars == <<phase, epoch, own, staged, nextSeq, based, plan>>
laneVars == <<ownerVars, bucket, localVars, lagging, doomed, acked>>

-----------------------------------------------------------------------------
Tokens == INSTANCE FencingTokens

Killed(S, r) == \E k \in S : <<k, r>> \in Kills

\* A set of records replayed: a tombstone wins wherever it comes.
Replay(S) == {r \in S : ~Killed(S, r)}

\* S still tells a reader all that T tells.
Covers(S, T) == \A r \in T : r \in S \/ Killed(S, r)

\* Everything in the objects at keys K.
Contents(K) == UNION {bucket[k] : k \in K}

Put(k, body) ==
    bucket' = [j \in DOMAIN bucket \cup {k} |-> IF j = k THEN body ELSE bucket[j]]

\* Space.active, between two calls; a handle that is deleting is in gc().
Active(h) == phase[h] = "ready" /\ epoch[h] # 0 /\ doomed[h] = {}

\* The record names this handle at this epoch: what verify() reads.
Named(h) == holder = h /\ top = epoch[h]

Phase == {"off", "claimed", "reading", "ready", "put", "compacting",
          "folded", "gone"}

\* The handle's local state is that of a fresh activation.
Reset(h) ==
    /\ own' = [own EXCEPT ![h] = {}]
    /\ nextSeq' = [nextSeq EXCEPT ![h] = 0]
    /\ based' = [based EXCEPT ![h] = FALSE]

-----------------------------------------------------------------------------
(* activate(), alone or from hold()                                        *)

\* Claim the lane at the next epoch, from nothing, from a claim lost to
\* Fenced, or from one that expired on this handle's own clock.  The record
\* may be unowned or expired.  Records staged before stay staged.
ClaimLane(h) ==
    /\ phase[h] \in {"off", "ready"} /\ doomed[h] = {}
    /\ top < MaxEpoch
    /\ Tokens!Issue(h)
    /\ holder' = h
    /\ phase' = [phase EXCEPT ![h] = "claimed"]
    /\ epoch' = [epoch EXCEPT ![h] = top + 1]
    /\ lagging' = lagging \ {h}
    /\ Reset(h)
    /\ UNCHANGED <<bucket, staged, plan, doomed, acked>>

\* acquire() finds the record live and its own, and renews it instead: the
\* state is rebuilt under the epoch the handle already had.  It takes a handle
\* whose claim is dead to itself and live in the record.  A failed wake whose
\* release failed leaves one ("off" with an epoch); so does a renewal whose
\* reply was lost, between the expiry that the handle knows of and the one it
\* published.
Rejoin(h) ==
    /\ phase[h] = "off" \/ (phase[h] = "ready" /\ h \in lagging)
    /\ epoch[h] # 0 /\ Named(h) /\ doomed[h] = {}
    /\ phase' = [phase EXCEPT ![h] = "claimed"]
    /\ lagging' = lagging \ {h}
    /\ Reset(h)
    /\ UNCHANGED <<ownerVars, bucket, epoch, staged, plan, doomed, acked>>

\* hold() finds its lease expired and cannot reclaim the lane (Held, or the
\* store failed): the resident state is gone, what was staged is not.
ReclaimFails(h) ==
    /\ Active(h)
    /\ phase' = [phase EXCEPT ![h] = "off"]
    /\ epoch' = [epoch EXCEPT ![h] = 0]
    /\ Reset(h)
    /\ UNCHANGED <<ownerVars, bucket, staged, plan, lagging, doomed, acked>>

\* The LIST of _restore_own_lane.
ListLane(h) ==
    /\ phase[h] = "claimed"
    /\ plan' = [plan EXCEPT ![h] = SelectChain(DOMAIN bucket, epoch[h])]
    /\ phase' = [phase EXCEPT ![h] = "reading"]
    /\ UNCHANGED <<ownerVars, bucket, epoch, own, staged, nextSeq, based, lagging, doomed, acked>>

\* Its GETs, up to the first hole, and the end of a wake that succeeds.
FetchLane(h) ==
    /\ phase[h] = "reading"
    /\ own' = [own EXCEPT ![h] =
                  Replay(Contents(BeforeHole(plan[h], DOMAIN bucket)))]
    /\ plan' = [plan EXCEPT ![h] = {}]
    /\ phase' = [phase EXCEPT ![h] = "ready"]
    /\ UNCHANGED <<ownerVars, bucket, epoch, staged, nextSeq, based, lagging, doomed, acked>>

\* Anything fails in between, the refresh of the other lanes included: the
\* state is dropped and the lane released, unless that fails too.
WakeFails(h) ==
    /\ phase[h] \in {"claimed", "reading"}
    /\ \/ /\ holder' = IF Named(h) THEN NoHandle ELSE holder
          /\ epoch' = [epoch EXCEPT ![h] = 0]
       \/ UNCHANGED <<holder, epoch>>
       \/ /\ Named(h) /\ holder' = NoHandle
          /\ UNCHANGED epoch
    /\ phase' = [phase EXCEPT ![h] = "off"]
    /\ plan' = [plan EXCEPT ![h] = {}]
    /\ UNCHANGED <<top, issued, bucket, own, staged, nextSeq, based, lagging, doomed, acked>>

-----------------------------------------------------------------------------
(* stage() and flush()                                                     *)

\* remember() or forget() stages a record that is not in the lane yet; a put
\* of a tombstoned fragment gets a new revision instead (memory.py:385), which
\* is another record.
Stage(h, r) ==
    /\ Active(h)
    /\ r \notin own[h] \cup staged[h]
    /\ ~Killed(own[h] \cup staged[h], r)
    /\ staged' = [staged EXCEPT ![h] = @ \cup {r}]
    /\ UNCHANGED <<ownerVars, bucket, phase, epoch, own, nextSeq, based, plan, lagging, doomed, acked>>

Body_NoBase(h) == staged[h]

\* The records of the next segment: the lane's first carries all of `own`.
Body(h) == IF based[h] THEN staged[h] ELSE own[h] \cup staged[h]

\* The unconditional PUT.  Its error may hide that it landed; then the call
\* fails before the gate and the handle is as it was.
FlushPut(h) ==
    /\ Active(h)
    /\ staged[h] # {} \/ (~based[h] /\ own[h] # {})
    /\ nextSeq[h] <= MaxSeq
    /\ Put(Segment(epoch[h], nextSeq[h]), Body(h))
    /\ \/ phase' = [phase EXCEPT ![h] = "put"]
       \/ UNCHANGED phase
    /\ UNCHANGED <<ownerVars, epoch, own, staged, nextSeq, based, plan, lagging, doomed, acked>>

\* verify() passes: commit, acknowledge, and compact at the threshold.
Acknowledge(h) ==
    /\ own' = [own EXCEPT ![h] = Replay(@ \cup staged[h])]
    /\ acked' = acked \cup ({epoch[h]} \X staged[h])
    /\ staged' = [staged EXCEPT ![h] = {}]
    /\ nextSeq' = [nextSeq EXCEPT ![h] = @ + 1]
    /\ based' = [based EXCEPT ![h] = TRUE]
    /\ phase' = [phase EXCEPT ![h] =
                    IF (nextSeq[h] + 1) % CompactAt = 0 THEN "compacting" ELSE "ready"]

FlushAck_NoGate(h) ==
    /\ phase[h] = "put"
    /\ Acknowledge(h)
    /\ UNCHANGED <<ownerVars, bucket, epoch, plan, lagging, doomed>>

FlushAck_AnyEpoch(h) ==
    /\ phase[h] = "put"
    /\ holder # NoHandle
    /\ Acknowledge(h)
    /\ UNCHANGED <<ownerVars, bucket, epoch, plan, lagging, doomed>>

FlushAck(h) ==
    /\ phase[h] = "put"
    /\ Named(h)
    /\ Acknowledge(h)
    /\ UNCHANGED <<ownerVars, bucket, epoch, plan, lagging, doomed>>

\* verify() raises Fenced -- the record has moved on, or the lease expired on
\* this handle's clock -- and drops the claim; or its GET fails, and keeps it.
FlushFails(h) ==
    /\ phase[h] = "put"
    /\ epoch' \in {epoch, [epoch EXCEPT ![h] = 0]}
    /\ phase' = [phase EXCEPT ![h] = "ready"]
    /\ UNCHANGED <<ownerVars, bucket, own, staged, nextSeq, based, plan, lagging, doomed, acked>>

-----------------------------------------------------------------------------
(* compact(), by itself or from flush()                                    *)

CompactPut_Unbased(h) ==
    /\ phase[h] \in {"ready", "compacting"} /\ epoch[h] # 0 /\ doomed[h] = {}
    /\ Put(Compaction(epoch[h], nextSeq[h] - 1), own[h])
    /\ phase' = [phase EXCEPT ![h] = "folded"]
    /\ UNCHANGED <<ownerVars, epoch, own, staged, nextSeq, based, plan, lagging, doomed, acked>>

\* PUT the L1 object of all segments so far.  With one segment there is
\* something to do only when the vectors get narrower, which the records of
\* this model do not show.
CompactPut(h) ==
    /\ phase[h] \in {"ready", "compacting"} /\ epoch[h] # 0 /\ doomed[h] = {}
    /\ based[h]
    /\ Put(Compaction(epoch[h], nextSeq[h] - 1), own[h])
    /\ phase' = [phase EXCEPT ![h] = "folded"]
    /\ UNCHANGED <<ownerVars, epoch, own, staged, nextSeq, based, plan, lagging, doomed, acked>>

\* compact() returns, or its PUT (landed or not) or its verify() failed.  The
\* records of the flush around it stay acknowledged.
CompactEnds(h) ==
    /\ phase[h] \in {"compacting", "folded"}
    /\ epoch' \in {epoch, [epoch EXCEPT ![h] = 0]}
    /\ phase' = [phase EXCEPT ![h] = "ready"]
    /\ UNCHANGED <<ownerVars, bucket, own, staged, nextSeq, based, plan, lagging, doomed, acked>>

-----------------------------------------------------------------------------
(* gc(): a LIST and parallel deletes.  Nothing asks for a claim.           *)

GcList(h) ==
    /\ phase[h] \in {"off", "ready"} /\ doomed[h] = {}
    /\ OverlappingGc \/ \A k \in Handle : phase[k] # "reading"
    /\ doomed' = [doomed EXCEPT ![h] = Doomed(DOMAIN bucket, KeepEpochs)]
    /\ UNCHANGED <<ownerVars, bucket, localVars, lagging, acked>>

GcDelete(h, k) ==
    /\ k \in doomed[h]
    /\ bucket' = [j \in DOMAIN bucket \ {k} |-> bucket[j]]
    /\ doomed' = [doomed EXCEPT ![h] = @ \ {k}]
    /\ UNCHANGED <<ownerVars, localVars, lagging, acked>>

-----------------------------------------------------------------------------
(* The lease outside flush(), deactivate(), and crashes                    *)

\* A renewal: the record's expiry and this handle's move together.
Renew(h) ==
    /\ Active(h) /\ Named(h)
    /\ lagging' = lagging \ {h}
    /\ UNCHANGED <<ownerVars, bucket, localVars, doomed, acked>>

\* The renewal lands, its reply is lost: the record outlives the handle's own
\* idea of its lease.  Nothing comes of it when nobody wakes early.
RenewReplyLost(h) ==
    /\ Active(h) /\ Named(h)
    /\ lagging' = IF EarlyWakes THEN lagging \cup {h} ELSE lagging
    /\ UNCHANGED <<ownerVars, bucket, localVars, doomed, acked>>

\* maybe_renew() raises Fenced: the record names somebody else.
RenewFenced(h) ==
    /\ Active(h) /\ ~Named(h)
    /\ epoch' = [epoch EXCEPT ![h] = 0]
    /\ UNCHANGED <<ownerVars, bucket, phase, own, staged, nextSeq, based, plan, lagging, doomed, acked>>

\* deactivate() after its flush: release the lane and forget everything, the
\* records that could not be flushed included.
Deactivate(h) ==
    /\ phase[h] = "ready" /\ doomed[h] = {}
    /\ staged[h] = {} \/ epoch[h] = 0
    /\ holder' = IF Named(h) THEN NoHandle ELSE holder
    /\ phase' = [phase EXCEPT ![h] = "off"]
    /\ epoch' = [epoch EXCEPT ![h] = 0]
    /\ staged' = [staged EXCEPT ![h] = {}]
    /\ Reset(h)
    /\ UNCHANGED <<top, issued, bucket, plan, lagging, doomed, acked>>

\* Its release landed but the reply was lost: the error leaves the handle up.
ReleaseReplyLost(h) ==
    /\ Active(h) /\ Named(h) /\ staged[h] = {}
    /\ holder' = NoHandle
    /\ UNCHANGED <<top, issued, bucket, localVars, lagging, doomed, acked>>

\* The process dies.  A restarted one is another handle.
Crash(h) ==
    /\ phase[h] # "gone"
    /\ phase' = [phase EXCEPT ![h] = "gone"]
    /\ epoch' = [epoch EXCEPT ![h] = 0]
    /\ staged' = [staged EXCEPT ![h] = {}]
    /\ plan' = [plan EXCEPT ![h] = {}]
    /\ doomed' = [doomed EXCEPT ![h] = {}]
    /\ lagging' = lagging \ {h}
    /\ Reset(h)
    /\ UNCHANGED <<ownerVars, bucket, acked>>

-----------------------------------------------------------------------------
Init ==
    /\ Tokens!Init
    /\ holder = NoHandle
    /\ bucket = [k \in {} |-> {}]
    /\ phase = [h \in Handle |-> "off"]
    /\ epoch = [h \in Handle |-> 0]
    /\ own = [h \in Handle |-> {}]
    /\ staged = [h \in Handle |-> {}]
    /\ nextSeq = [h \in Handle |-> 0]
    /\ based = [h \in Handle |-> FALSE]
    /\ plan = [h \in Handle |-> {}]
    /\ lagging = {}
    /\ doomed = [h \in Handle |-> {}]
    /\ acked = {}

HandleStep(h) ==
    \/ ClaimLane(h) \/ Rejoin(h) \/ ReclaimFails(h)
    \/ ListLane(h) \/ FetchLane(h) \/ WakeFails(h)
    \/ \E r \in Record : Stage(h, r)
    \/ FlushPut(h) \/ FlushAck(h) \/ FlushFails(h)
    \/ CompactPut(h) \/ CompactEnds(h)
    \/ GcList(h) \/ \E k \in doomed[h] : GcDelete(h, k)
    \/ Renew(h) \/ RenewReplyLost(h) \/ RenewFenced(h) \/ Deactivate(h) \/ ReleaseReplyLost(h)
    \/ Crash(h)

Next == \E h \in Handle : HandleStep(h)

Spec == Init /\ [][Next]_laneVars

-----------------------------------------------------------------------------
(* Properties                                                              *)

TypeOK ==
    /\ top \in Nat
    /\ issued \subseteq Nat \X Handle
    /\ holder \in Handle \cup {NoHandle}
    /\ DOMAIN bucket \subseteq Key /\ bucket \in [DOMAIN bucket -> SUBSET Record]
    /\ phase \in [Handle -> Phase]
    /\ epoch \in [Handle -> Nat]
    /\ own \in [Handle -> SUBSET Record]
    /\ staged \in [Handle -> SUBSET Record]
    /\ nextSeq \in [Handle -> Nat]
    /\ based \in [Handle -> BOOLEAN]
    /\ plan \in [Handle -> SUBSET Key]
    /\ lagging \subseteq Handle
    /\ doomed \in [Handle -> SUBSET Key]
    /\ acked \subseteq Nat \X Record

AckedRecords == {a[2] : a \in acked}

\* What the next wake of the lane would replay, whoever makes it.
Restorable == Contents(SelectChain(DOMAIN bucket, top + 1))

\* "Writes are durable before they return": whatever has been acknowledged,
\* through any takeover, compaction, gc, crash or late write of a superseded
\* handle, is in the chain that the next wake will select, unless forgotten --
\* and in the state of the handle the record names, from which its base and
\* its compactions are written.
AckedSurvives ==
    /\ Covers(Restorable, AckedRecords)
    /\ \A h \in Handle :
          Named(h) /\ phase[h] \notin {"off", "claimed", "reading"}
              => Covers(own[h], AckedRecords)

\* The fence ("ownership confirmed before any caller hears success",
\* space.py:680): acknowledgements come in the order of the epochs.  A handle
\* that was superseded acknowledges nothing after its successor has, however
\* late it wakes up, even if renewals lose their replies and gc() overlaps.
AcksInEpochOrder ==
    [][\A new \in acked' \ acked : \A old \in acked : old[1] <= new[1]]_laneVars

\* What _fetch() drops beyond a hole "was never acknowledged, so dropping it
\* is the correct answer" (space.py:287): a wake that ends as the lane's owner
\* knows everything acknowledged.
HolesAreUnacked ==
    [][\A h \in Handle :
          phase[h] = "reading" /\ phase'[h] = "ready" /\ Named(h)
              => Covers(own'[h], AckedRecords)]_laneVars
=============================================================================
