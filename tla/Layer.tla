------------------------------- MODULE Layer -------------------------------
(***************************************************************************)
(* MemoryLayer of memory.py: what an agent calls.  Which records a call    *)
(* stages, when the commit policy flushes them, and what batch(),          *)
(* hibernate(), a lane lost to somebody else and a failing store leave     *)
(* staged.                                                                 *)
(*                                                                         *)
(* Every public method holds the layer's lock and is one step here; only   *)
(* batch() keeps the lock between steps.  How a flush reaches the bucket   *)
(* is the matter of module Lane: here it commits or it raises.             *)
(***************************************************************************)
EXTENDS Naturals, FiniteSets

CONSTANTS
    Agent, Thread, Text,
    MaxLayers,      \* bound: agent -> MemoryLayer objects made for it
    Quiet,          \* bound: agents that only read, and open no batch()
    LeasesEnd,      \* environment: a lease may run out
    MaxRevision,    \* bound: how often a text is learnt anew
    MaxBatches,     \* bound: layers in a batch at the same time
    Durable, FlushEvery,    \* the commit policy; FlushEvery = 0 for None
    StoreFails,     \* environment: a request may fail, or a lease be lost in
                    \* the midst of a call
    Nobody

ASSUME LayerAssumption ==
    /\ MaxLayers \in [Agent -> Nat] /\ MaxRevision \in Nat /\ MaxBatches \in Nat
    /\ Quiet \subseteq Agent
    /\ FlushEvery \in Nat
    /\ Durable \in BOOLEAN /\ StoreFails \in BOOLEAN /\ LeasesEnd \in BOOLEAN

Handle == UNION {{a} \X (1..MaxLayers[a]) : a \in Agent}  \* the MemoryLayer objects
AgentOf(l) == l[1]

\* A memory's id: its text and the revision that re-learning gives it.
Id == Text \X (0..MaxRevision)
Put(i) == <<"put", i>>
Forget(i) == <<"forget", i>>
Record == {Put(i) : i \in Id} \cup {Forget(i) : i \in Id}

VARIABLES
    lane,           \* agent -> the records its lane has acknowledged
    holder,         \* agent -> the layer whose session holds its lane, or Nobody
    status,         \* layer -> "off" (no state), "up" or "fenced" (no claim)
    staged,         \* layer -> Space._staged
    lock,           \* layer -> the thread in batch(), which keeps the layer's
                    \* lock; a batch() inside a batch() changes nothing
    told            \* history: <<agent, id>> that remember() has returned as
                    \* durable

layerVars == <<lane, holder, status, staged, lock, told>>

-----------------------------------------------------------------------------
\* A thread gets the layer's lock, an RLock.
Free(t, l) == lock[l] \in {Nobody, t}

\* hold() and activate() succeed: the lane is this layer's, or can be claimed.
Wakeable(l) == holder[AgentOf(l)] \in {Nobody, l}

Wake(l) ==
    /\ Wakeable(l)
    /\ holder' = [holder EXCEPT ![AgentOf(l)] = l]
    /\ status' = [status EXCEPT ![l] = "up"]

\* The records a layer knows to be its own, committed or staged.
Mine(l) == lane[AgentOf(l)] \cup staged[l]

\* What other lanes have committed; a layer knows some of it.
Peers(l) == UNION {lane[a] : a \in Agent \ {AgentOf(l)}}

\* _maybe_flush.
MustFlush(l, records) ==
    /\ lock[l] = Nobody
    /\ IF FlushEvery = 0 THEN Durable ELSE Cardinality(records) >= FlushEvery

\* The call answers for durability when it returns.
Answers(l) == lock[l] = Nobody /\ Durable /\ FlushEvery = 0

Tell(l, ids) ==
    told' = IF Answers(l) THEN told \cup ({AgentOf(l)} \X ids) ELSE told

Commit(l, records) ==
    /\ lane' = [lane EXCEPT ![AgentOf(l)] = @ \cup records]
    /\ staged' = [staged EXCEPT ![l] = {}]

Keep(l, records) ==
    /\ staged' = [staged EXCEPT ![l] = records]
    /\ UNCHANGED lane

\* stage() and _maybe_flush(); ids is what the call returns.  If the flush
\* raises the records stay staged.
StageAll(l, records, ids) ==
    LET all == staged[l] \cup records
    IN  \/ MustFlush(l, all) /\ Commit(l, all) /\ Tell(l, ids)
        \/ MustFlush(l, all) /\ StoreFails /\ Keep(l, all) /\ UNCHANGED told
        \/ ~MustFlush(l, all) /\ Keep(l, all) /\ UNCHANGED told

-----------------------------------------------------------------------------
(* remember(), remember_many(), forget()                                   *)

\* The id of text x for a layer that knows `peers` of the other lanes: the
\* first revision that is not forgotten.
IsIdOf(l, x, peers, i) ==
    /\ i[1] = x /\ Forget(i) \notin Mine(l) \cup peers
    /\ \A rev \in 0..(i[2] - 1) : Forget(<<x, rev>>) \in Mine(l) \cup peers

Remember(t, l, x) ==
    /\ Free(t, l) /\ Wake(l)
    /\ \E peers \in {{}, Peers(l)} : \E i \in Id :
          /\ IsIdOf(l, x, peers, i)
          /\ IF Put(i) \in Mine(l)
             THEN Tell(l, {i}) /\ UNCHANGED <<lane, staged>>    \* a repeat is free
             ELSE StageAll(l, {Put(i)}, {i})
    /\ UNCHANGED lock

\* All texts as one commit, which is made though each may be a repeat.
RememberMany(t, l) ==
    /\ Free(t, l) /\ Wake(l)
    /\ \E peers \in {{}, Peers(l)} :
          LET ids == {i \in Id : IsIdOf(l, i[1], peers, i)}
          IN  /\ Cardinality(ids) = Cardinality(Text)
              /\ StageAll(l, {Put(i) : i \in ids} \ Mine(l), ids)
    /\ UNCHANGED lock

\* A text cannot be encoded: what was staged before it stays.
RememberManyRaises(t, l) ==
    /\ Free(t, l) /\ Wake(l)
    /\ \E peers \in {{}, Peers(l)} :
          \E ids \in SUBSET {i \in Id : IsIdOf(l, i[1], peers, i)} :
              Keep(l, staged[l] \cup ({Put(i) : i \in ids} \ Mine(l)))
    /\ UNCHANGED <<lock, told>>

ForgetMemory(t, l, i) ==
    /\ Free(t, l) /\ Wake(l)
    /\ \/ Put(i) \in staged[l]
       \/ Put(i) \in lane[AgentOf(l)] \cup Peers(l) /\ Forget(i) \notin lane[AgentOf(l)]
    /\ StageAll(l, {Forget(i)}, {})
    /\ UNCHANGED lock

-----------------------------------------------------------------------------
(* flush(), batch(), reads                                                 *)

\* Space.flush of a layer that is up, or will be for it.
FlushStaged(l) ==
    /\ Wake(l)
    /\ Commit(l, staged[l]) \/ (StoreFails /\ Keep(l, staged[l]))

\* Held or Fenced: somebody else has the lane.
LosesLane(l) ==
    /\ ~Wakeable(l)
    /\ \E s \in IF status[l] = "up" THEN {"off", "fenced"} ELSE {"off"} :
          status' = [status EXCEPT ![l] = s]
    /\ UNCHANGED <<lane, holder, staged>>

\* An explicit flush() of an active layer (of another it returns None), or the
\* one in checkpoint() and compact(), which wakes it.
Flush(t, l) ==
    /\ Free(t, l)
    /\ FlushStaged(l)
    /\ UNCHANGED <<lock, told>>

BatchEnter(t, l) ==
    /\ lock[l] = Nobody /\ Cardinality({m \in Handle : lock[m] # Nobody}) < MaxBatches
    /\ lock' = [lock EXCEPT ![l] = t]
    /\ UNCHANGED <<lane, holder, status, staged, told>>

BatchDone(t, l) == lock[l] = t /\ lock' = [lock EXCEPT ![l] = Nobody]

\* A batch that ends commits.  On a layer that is not up, or has lost its lane,
\* its flush raises.
BatchExit(t, l) ==
    /\ BatchDone(t, l)
    /\ \/ status[l] = "up" /\ FlushStaged(l)
       \/ status[l] = "up" /\ LosesLane(l)
       \/ status[l] # "up" /\ UNCHANGED <<lane, holder, status, staged>>
    /\ UNCHANGED told

\* An exception in the body: what was staged stays.
BatchAborts(t, l) ==
    /\ BatchDone(t, l)
    /\ UNCHANGED <<lane, holder, status, staged, told>>

BatchEnds(t, l) == BatchExit(t, l) \/ BatchAborts(t, l)

\* recall(), get(), history() and the other reads hold the lane too.
Read(t, l) ==
    /\ Free(t, l) /\ Wake(l)
    /\ UNCHANGED <<lane, staged, lock, told>>

\* Any call on a lane that somebody else holds raises Held or Fenced, and one
\* on a failing store its error; a layer that was up may stay so.
CallRaises(t, l) ==
    /\ Free(t, l)
    /\ \/ LosesLane(l)
       \/ /\ StoreFails
          /\ status' \in {status, [status EXCEPT ![l] = "off"]}
          /\ UNCHANGED <<lane, holder, staged>>
    /\ UNCHANGED <<lock, told>>

-----------------------------------------------------------------------------
(* hibernate(), and the world outside                                      *)

Unclaim(l) ==
    holder' = IF holder[AgentOf(l)] = l
              THEN [holder EXCEPT ![AgentOf(l)] = Nobody] ELSE holder

Hibernated_NoFlush(l) ==
    /\ status' = [status EXCEPT ![l] = "off"]
    /\ Unclaim(l)
    /\ staged' = [staged EXCEPT ![l] = {}]
    /\ UNCHANGED lane

\* Space.deactivate on a layer, with its lock held.  Without resident state
\* nothing is flushed; a flush that is Fenced loses what was staged, without a
\* word; any other error leaves the layer as it is.
Hibernated(l) ==
    /\ status' = [status EXCEPT ![l] = "off"]
    /\ Unclaim(l)
    /\ \/ status[l] = "off" /\ UNCHANGED <<lane, staged>>
       \/ status[l] = "up" /\ Wakeable(l) /\ Commit(l, staged[l])
       \/ /\ status[l] = "fenced" \/ (status[l] = "up" /\ ~Wakeable(l))
          /\ staged' = [staged EXCEPT ![l] = {}]
          /\ UNCHANGED lane

HibernateRaises(l) ==
    /\ StoreFails /\ status[l] = "up"
    /\ UNCHANGED <<lane, holder, status, staged>>

Hibernate(t, l) ==
    /\ Free(t, l)
    /\ Hibernated(l) \/ HibernateRaises(l)
    /\ UNCHANGED <<lock, told>>

\* A lease runs out, and the lane is free for any session; the layer does not
\* know until it looks.
LeaseEnds(a) ==
    /\ LeasesEnd /\ holder[a] # Nobody
    /\ holder' = [holder EXCEPT ![a] = Nobody]
    /\ UNCHANGED <<lane, status, staged, lock, told>>

LayerInit ==
    /\ lane = [a \in Agent |-> {}]
    /\ holder = [a \in Agent |-> Nobody]
    /\ status = [l \in Handle |-> "off"]
    /\ staged = [l \in Handle |-> {}]
    /\ lock = [l \in Handle |-> Nobody]
    /\ told = {}

\* A call of thread t on layer l.
LayerCall(t, l) ==
    \/ /\ AgentOf(l) \notin Quiet
       /\ \/ \E x \in Text : Remember(t, l, x)
          \/ RememberMany(t, l) \/ RememberManyRaises(t, l)
          \/ \E i \in Id : ForgetMemory(t, l, i)
          \/ BatchEnter(t, l)
    \/ BatchEnds(t, l) \/ Flush(t, l)
    \/ Read(t, l) \/ CallRaises(t, l) \/ Hibernate(t, l)
-----------------------------------------------------------------------------
\* What remember() has returned as durable is in the lane: README, "Writes are
\* durable before they return", and the docstring of remember().
ToldIsDurable == \A a \in Agent, i \in Id : <<a, i>> \in told => Put(i) \in lane[a]

\* A record that a layer has staged leaves its memory into the lane, however
\* hibernate(), evictions, batches and failures come together.  Only a
\* hibernate() of a layer that has lost its lane drops it.
StagedReachesLane ==
    [][\A l \in Handle : \A r \in staged[l] \ staged'[l] :
          \/ r \in lane'[AgentOf(l)]
          \/ status[l] = "fenced" \/ holder[AgentOf(l)] \notin {l, Nobody}]_layerVars
=============================================================================
