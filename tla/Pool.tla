-------------------------------- MODULE Pool --------------------------------
(***************************************************************************)
(* MemoryPool of memory.py: the layers of many agents in one process, used *)
(* by several threads.  agent() and evict() hold the pool's lock while     *)
(* they wait for the lock of a layer; drain() only while it empties the    *)
(* pool.  Whoever was given a layer may go on using it when the pool has   *)
(* long shed it.                                                           *)
(***************************************************************************)
EXTENDS Layer

CONSTANTS
    MaxResident,    \* max_resident
    PoolInBatch     \* environment: the pool may be called inside a batch()

ASSUME PoolAssumption ==
    /\ MaxResident \in Nat \ {0} /\ PoolInBatch \in BOOLEAN
    /\ Nobody \notin Thread \cup Handle
    /\ Agent \cap Handle = {}         \* a name is not a layer

VARIABLES
    resident,       \* agent -> its layer in the pool, or Nobody
    made,           \* agent -> how many layers have been made for it
    poolLock,       \* the thread that holds the pool's lock, or Nobody
    doing,          \* thread -> where in a call of the pool it is
    target,         \* thread -> the agent that agent() serves, or the layers
                    \* that are to be hibernated
    strays          \* history: layers used while they were not resident, or
                    \* put away by a hibernate() that raised, and up ever since

poolVars == <<layerVars, resident, made, poolLock, doing, target, strays>>
residency == <<resident, made, poolLock, doing, target, strays>>

Resident == {a \in Agent : resident[a] # Nobody}
InBatch(t) == \E l \in Handle : lock[l] = t

-----------------------------------------------------------------------------
\* A call of the pool that takes its lock, and keeps it.
Enter(t, where, what) ==
    /\ doing[t] = "idle" /\ poolLock = Nobody
    /\ PoolInBatch \/ ~InBatch(t)
    /\ doing' = [doing EXCEPT ![t] = where]
    /\ target' = [target EXCEPT ![t] = what]

Leave_KeepsLock(t) ==
    /\ doing' = [doing EXCEPT ![t] = "idle"]
    /\ target' = [target EXCEPT ![t] = {}]
    /\ UNCHANGED poolLock

\* The end of the call of t.
Leave(t) ==
    /\ doing' = [doing EXCEPT ![t] = "idle"]
    /\ target' = [target EXCEPT ![t] = {}]
    /\ poolLock' = IF poolLock = t THEN Nobody ELSE poolLock

AgentEnter_NoLookup(t, a) ==
    /\ Enter(t, "serving", {a}) /\ poolLock' = t
    /\ made[a] < MaxLayers[a]
    /\ made' = [made EXCEPT ![a] = @ + 1]
    /\ resident' = [resident EXCEPT ![a] = <<a, made[a] + 1>>]
    /\ UNCHANGED <<layerVars, strays>>

\* agent(name): the resident layer, or a new one with a session of its own.
AgentEnter(t, a) ==
    /\ Enter(t, "serving", {a}) /\ poolLock' = t
    /\ \/ resident[a] # Nobody /\ UNCHANGED <<resident, made>>
       \/ /\ resident[a] = Nobody /\ made[a] < MaxLayers[a]
          /\ made' = [made EXCEPT ![a] = @ + 1]
          /\ resident' = [resident EXCEPT ![a] = <<a, made[a] + 1>>]
    /\ UNCHANGED <<layerVars, strays>>

\* Its layer.activate(), and last_used.  When that raises the layer stays
\* resident, and nothing is shed.
AgentActivate(t, a) ==
    /\ doing[t] = "serving" /\ target[t] = {a}
    /\ Free(t, resident[a])
    /\ \/ /\ Wake(resident[a]) /\ UNCHANGED <<lane, staged>>
          /\ doing' = [doing EXCEPT ![t] = "shedding"]
          /\ UNCHANGED <<target, poolLock>>
       \/ LosesLane(resident[a]) /\ Leave(t)
       \/ /\ StoreFails /\ Leave(t)
          /\ UNCHANGED <<lane, holder, status, staged>>
    /\ UNCHANGED <<lock, told, resident, made, strays>>

\* Lanes that _shed(keep) may evict: seen without their locks.
Idle(keep) == {a \in Resident \ keep : staged[resident[a]] = {}}

\* _shed evicts one more.  Which one last_used says: any.
ShedOne(t, a) ==
    /\ doing[t] = "shedding"
    /\ Cardinality(Resident) > MaxResident /\ a \in Idle(target[t])
    /\ resident' = [resident EXCEPT ![a] = Nobody]
    /\ doing' = [doing EXCEPT ![t] = "evicting"]
    /\ target' = [target EXCEPT ![t] = @ \cup {resident[a]}]
    /\ UNCHANGED <<layerVars, made, poolLock, strays>>

ShedDone_Insists(t) ==
    /\ doing[t] = "shedding"
    /\ Cardinality(Resident) <= MaxResident
    /\ Leave(t)
    /\ UNCHANGED <<layerVars, resident, made, strays>>

\* Under the cap, or nothing to drop: agent() returns its layer.
ShedDone(t) ==
    /\ doing[t] = "shedding"
    /\ Cardinality(Resident) <= MaxResident \/ Idle(target[t]) = {}
    /\ Leave(t)
    /\ UNCHANGED <<layerVars, resident, made, strays>>

EvictEnter(t, a) ==
    /\ resident[a] # Nobody
    /\ Enter(t, "evicting", {resident[a]}) /\ poolLock' = t
    /\ resident' = [resident EXCEPT ![a] = Nobody]
    /\ UNCHANGED <<layerVars, made, strays>>

\* drain() takes every layer out and lets go of the pool.
DrainEnter(t) ==
    /\ Resident # {}
    /\ Enter(t, "draining", {resident[a] : a \in Resident})
    /\ resident' = [a \in Agent |-> Nobody]
    /\ UNCHANGED <<layerVars, made, poolLock, strays>>

\* The eviction's or the drain's hibernate(), which needs the layer's lock.
\* A drain hibernates on threads of its own.
MayLock(t, l) == IF doing[t] = "draining" THEN lock[l] = Nobody ELSE Free(t, l)

\* What a call goes on with when it is done with layer l.
After(t, l) ==
    LET rest == target[t] \ {l}
    IN  IF rest = {} THEN Leave(t)
        ELSE /\ target' = [target EXCEPT ![t] = rest]
             /\ doing' = [doing EXCEPT ![t] = IF @ = "evicting" THEN "shedding" ELSE @]
             /\ UNCHANGED poolLock

PutAway(t, l) ==
    /\ doing[t] \in {"evicting", "draining"} /\ l \in target[t] \cap Handle
    /\ MayLock(t, l)
    /\ \/ Hibernated(l) /\ After(t, l) /\ strays' = strays \ {l}
       \/ /\ HibernateRaises(l) /\ strays' = strays \cup {l}
          /\ IF doing[t] = "evicting" THEN Leave(t) ELSE After(t, l)
    /\ UNCHANGED <<lock, told, resident, made>>

-----------------------------------------------------------------------------
\* A thread that is in no call of the pool uses a layer it was given once.
InHand(t, l) == doing[t] = "idle" /\ l[2] <= made[AgentOf(l)]

\* The pool's side of it.
Unseen(l) ==
    /\ strays' = IF status'[l] # "up" THEN strays \ {l}
                 ELSE IF resident[AgentOf(l)] # l THEN strays \cup {l} ELSE strays
    /\ UNCHANGED <<resident, made, poolLock, doing, target>>

Use(t, l) == InHand(t, l) /\ LayerCall(t, l) /\ Unseen(l)

EndBatch(t, l) == InHand(t, l) /\ BatchEnds(t, l) /\ Unseen(l)

Outside == \E a \in Agent : LeaseEnds(a) /\ UNCHANGED residency

PoolInit ==
    /\ LayerInit
    /\ resident = [a \in Agent |-> Nobody]
    /\ made = [a \in Agent |-> 0]
    /\ poolLock = Nobody
    /\ doing = [t \in Thread |-> "idle"]
    /\ target = [t \in Thread |-> {}]
    /\ strays = {}

\* What thread t does next of a call that it is in.
Progress(t) ==
    \/ \E a \in Agent : AgentActivate(t, a) \/ ShedOne(t, a)
    \/ ShedDone(t)
    \/ \E l \in Handle : PutAway(t, l)

PoolNext ==
    \/ \E t \in Thread :
          \/ \E a \in Agent : AgentEnter(t, a) \/ EvictEnter(t, a)
          \/ DrainEnter(t) \/ Progress(t)
          \/ \E l \in Handle : Use(t, l)
    \/ Outside

\* A thread goes on with a call of the pool, gets a lock that is free again and
\* again, and comes to the end of its batches.
PoolSpec ==
    /\ PoolInit /\ [][PoolNext]_poolVars
    /\ \A t \in Thread : SF_poolVars(Progress(t))
    /\ \A t \in Thread : WF_poolVars(\E l \in Handle : EndBatch(t, l))

-----------------------------------------------------------------------------
\* The state of the pool; whoever is inside a call that keeps the pool's lock
\* has it and nobody else, and a layer in the pool is one of its agent's.
PoolTypeOK ==
    /\ lane \in [Agent -> SUBSET Record]
    /\ holder \in [Agent -> Handle \cup {Nobody}]
    /\ status \in [Handle -> {"off", "up", "fenced"}]
    /\ staged \in [Handle -> SUBSET Record]
    /\ lock \in [Handle -> Thread \cup {Nobody}]
    /\ told \subseteq Agent \X Id
    /\ \A a \in Agent : made[a] \in 0..MaxLayers[a]
    /\ \A a \in Agent : resident[a] \in {Nobody} \cup ({a} \X (1..made[a]))
    /\ strays \subseteq Handle
    /\ \A t \in Thread :
          /\ doing[t] \in {"idle", "serving", "shedding", "evicting", "draining"}
          /\ poolLock = t <=> doing[t] \in {"serving", "shedding", "evicting"}
          /\ target[t] = {} <=> doing[t] = "idle"

\* Every lane that this process holds can be found: its layer is in the pool,
\* or a call is putting it away.  Except the layers that somebody uses behind
\* the pool's back, or that could not be put away.
ClaimsAreResident ==
    \A l \in Handle \ strays :
        status[l] = "up" /\ holder[AgentOf(l)] = l =>
            resident[AgentOf(l)] = l \/ \E t \in Thread : l \in target[t]

\* agent(), evict() and drain() return, though they wait for each other and for
\* the batches of other threads.
CallsReturn == \A t \in Thread : doing[t] # "idle" ~> doing[t] = "idle"
=============================================================================
