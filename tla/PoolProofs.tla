----------------------------- MODULE PoolProofs -----------------------------
(***************************************************************************)
(* The layers of one process, with or without the pool's knowledge: staged *)
(* records leave for the lane only, and a lane that is held can be found.  *)
(* For any number of agents, layers, threads and texts, any commit policy  *)
(* and any cap on what is resident.                                        *)
(***************************************************************************)
EXTENDS Pool, TLAPS

LayerTypeOK ==
    /\ lane \in [Agent -> SUBSET Record]
    /\ holder \in [Agent -> Handle \cup {Nobody}]
    /\ status \in [Handle -> {"off", "up", "fenced"}]
    /\ staged \in [Handle -> SUBSET Record]
    /\ lock \in [Handle -> Thread \cup {Nobody}]
    /\ told \subseteq Agent \X Id

\* A record that leaves the memory of l is in the lane, unless l lost the lane.
NothingDropped(l) ==
    \A r \in staged[l] \ staged'[l] :
        \/ r \in lane'[AgentOf(l)]
        \/ status[l] = "fenced" \/ holder[AgentOf(l)] \notin {l, Nobody}

\* What a step of layer l leaves alone.
Touches(l) ==
    /\ \A m \in Handle \ {l} : status'[m] = status[m] /\ staged'[m] = staged[m]
    /\ \A a \in Agent : holder'[a] \in {holder[a], l, Nobody}

LayerStep(l) == LayerTypeOK' /\ Touches(l) /\ NothingDropped(l)

-----------------------------------------------------------------------------
LEMMA HandleParts ==
    ASSUME NEW l \in Handle
    PROVE  /\ AgentOf(l) \in Agent
           /\ l[2] \in 1..MaxLayers[AgentOf(l)]
           /\ l = <<AgentOf(l), l[2]>>
BY DEF Handle, AgentOf

LEMMA PartsHandle ==
    ASSUME NEW a \in Agent, NEW n \in 1..MaxLayers[a]
    PROVE  <<a, n>> \in Handle /\ AgentOf(<<a, n>>) = a
BY DEF Handle, AgentOf

LEMMA RecordsOfIds ==
    ASSUME NEW ids \in SUBSET Id
    PROVE  {Put(i) : i \in ids} \subseteq Record /\ {Forget(i) : i \in ids} \subseteq Record
BY DEF Record

\* Waking a layer, with whatever it does to its records.
LEMMA Waking ==
    ASSUME LayerTypeOK, NEW l \in Handle, Wake(l)
    PROVE  /\ holder' \in [Agent -> Handle \cup {Nobody}]
           /\ status' \in [Handle -> {"off", "up", "fenced"}]
           /\ \A m \in Handle \ {l} : status'[m] = status[m]
           /\ \A a \in Agent : holder'[a] \in {holder[a], l, Nobody}
BY HandleParts DEF Wake, LayerTypeOK

\* stage() and _maybe_flush(), however they end.
LEMMA Staging ==
    ASSUME LayerTypeOK, NEW l \in Handle, NEW records \in SUBSET Record,
           NEW ids \in SUBSET Id, StageAll(l, records, ids)
    PROVE  /\ lane' \in [Agent -> SUBSET Record]
           /\ staged' \in [Handle -> SUBSET Record]
           /\ told' \subseteq Agent \X Id
           /\ \A m \in Handle \ {l} : staged'[m] = staged[m]
           /\ NothingDropped(l)
<1> DEFINE all == staged[l] \cup records
<1>0. AgentOf(l) \in Agent /\ all \in SUBSET Record
  BY HandleParts DEF LayerTypeOK
<1>1. CASE Commit(l, all) /\ Tell(l, ids)
  BY <1>0, <1>1 DEF Commit, Tell, LayerTypeOK, NothingDropped
<1>2. CASE Keep(l, all) /\ UNCHANGED told
  BY <1>0, <1>2 DEF Keep, LayerTypeOK, NothingDropped
<1> QED
  BY <1>1, <1>2 DEF StageAll

LEMMA WakeAndStage ==
    ASSUME LayerTypeOK, NEW l \in Handle, NEW records \in SUBSET Record,
           NEW ids \in SUBSET Id, Wake(l), StageAll(l, records, ids), UNCHANGED lock
    PROVE  LayerStep(l)
BY Waking, Staging DEF LayerStep, LayerTypeOK, Touches

LEMMA Flushing ==
    ASSUME LayerTypeOK, NEW l \in Handle, FlushStaged(l)
    PROVE  /\ lane' \in [Agent -> SUBSET Record]
           /\ staged' \in [Handle -> SUBSET Record]
           /\ Touches(l) /\ NothingDropped(l)
           /\ holder' \in [Agent -> Handle \cup {Nobody}]
           /\ status' \in [Handle -> {"off", "up", "fenced"}]
<1>0. AgentOf(l) \in Agent /\ Wake(l)
  BY HandleParts DEF FlushStaged
<1>1. CASE Commit(l, staged[l])
  BY <1>0, <1>1, Waking DEF Commit, LayerTypeOK, NothingDropped, Touches
<1>2. CASE Keep(l, staged[l])
  BY <1>0, <1>2, Waking DEF Keep, LayerTypeOK, NothingDropped, Touches
<1> QED
  BY <1>1, <1>2 DEF FlushStaged

LEMMA Losing ==
    ASSUME LayerTypeOK, NEW l \in Handle, LosesLane(l)
    PROVE  /\ status' \in [Handle -> {"off", "up", "fenced"}]
           /\ Touches(l) /\ NothingDropped(l)
BY DEF LosesLane, LayerTypeOK, Touches, NothingDropped

LEMMA Hibernating ==
    ASSUME LayerTypeOK, NEW l \in Handle, Hibernated(l) \/ HibernateRaises(l),
           UNCHANGED <<lock, told>>
    PROVE  LayerStep(l)
<1>0. AgentOf(l) \in Agent
  BY HandleParts
<1>1. CASE HibernateRaises(l)
  BY <1>1 DEF HibernateRaises, LayerStep, LayerTypeOK, Touches, NothingDropped
<1>2. CASE Hibernated(l)
  <2>1. /\ status' \in [Handle -> {"off", "up", "fenced"}]
        /\ holder' \in [Agent -> Handle \cup {Nobody}]
        /\ \A m \in Handle \ {l} : status'[m] = status[m]
        /\ \A a \in Agent : holder'[a] \in {holder[a], l, Nobody}
    BY <1>0, <1>2 DEF Hibernated, Unclaim, LayerTypeOK
  <2>2. CASE UNCHANGED <<lane, staged>>
    BY <2>1, <2>2 DEF LayerStep, LayerTypeOK, Touches, NothingDropped
  <2>3. CASE Commit(l, staged[l])
    BY <1>0, <2>1, <2>3 DEF Commit, LayerStep, LayerTypeOK, Touches, NothingDropped
  <2>4. CASE /\ status[l] = "fenced" \/ ~Wakeable(l)
             /\ staged' = [staged EXCEPT ![l] = {}]
             /\ UNCHANGED lane
    BY <1>0, <2>1, <2>4 DEF Wakeable, LayerStep, LayerTypeOK, Touches, NothingDropped
  <2> QED
    BY <1>2, <2>2, <2>3, <2>4 DEF Hibernated
<1> QED
  BY <1>1, <1>2

-----------------------------------------------------------------------------
(* Every call on a layer.                                                  *)

LEMMA Remembering ==
    ASSUME LayerTypeOK, NEW t \in Thread, NEW l \in Handle, NEW x \in Text, Remember(t, l, x)
    PROVE  LayerStep(l)
<1>1. PICK peers \in {{}, Peers(l)} : \E i \in Id :
          /\ IsIdOf(l, x, peers, i)
          /\ IF Put(i) \in Mine(l)
             THEN Tell(l, {i}) /\ UNCHANGED <<lane, staged>>
             ELSE StageAll(l, {Put(i)}, {i})
  BY DEF Remember
<1>2. PICK i \in Id : IF Put(i) \in Mine(l)
             THEN Tell(l, {i}) /\ UNCHANGED <<lane, staged>>
             ELSE StageAll(l, {Put(i)}, {i})
  BY <1>1
<1>3. Wake(l) /\ UNCHANGED lock
  BY DEF Remember
<1>4. CASE Tell(l, {i}) /\ UNCHANGED <<lane, staged>>
  BY <1>3, <1>4, Waking, HandleParts DEF Tell, LayerStep, LayerTypeOK, Touches, NothingDropped
<1>5. CASE StageAll(l, {Put(i)}, {i})
  <2>1. {Put(i)} \in SUBSET Record
    BY DEF Record
  <2> QED
    BY <1>3, <1>5, <2>1, WakeAndStage
<1> QED
  BY <1>2, <1>4, <1>5

LEMMA RememberingMany ==
    ASSUME LayerTypeOK, NEW t \in Thread, NEW l \in Handle,
           RememberMany(t, l) \/ RememberManyRaises(t, l)
    PROVE  LayerStep(l)
<1>1. CASE RememberMany(t, l)
  <2>1. PICK peers \in {{}, Peers(l)} :
           StageAll(l, {Put(i) : i \in {i \in Id : IsIdOf(l, i[1], peers, i)}} \ Mine(l),
                       {i \in Id : IsIdOf(l, i[1], peers, i)})
    BY <1>1 DEF RememberMany
  <2> DEFINE ids == {i \in Id : IsIdOf(l, i[1], peers, i)}
  <2>2. ids \in SUBSET Id
    OBVIOUS
  <2> HIDE DEF ids
  <2>3. {Put(i) : i \in ids} \ Mine(l) \in SUBSET Record
    BY <2>2, RecordsOfIds
  <2>4. StageAll(l, {Put(i) : i \in ids} \ Mine(l), ids)
    BY <2>1 DEF ids
  <2>5. Wake(l) /\ UNCHANGED lock
    BY <1>1 DEF RememberMany
  <2> QED
    BY <2>2, <2>3, <2>4, <2>5, WakeAndStage
<1>2. CASE RememberManyRaises(t, l)
  <2>1. PICK peers \in {{}, Peers(l)} :
           \E ids \in SUBSET {i \in Id : IsIdOf(l, i[1], peers, i)} :
              Keep(l, staged[l] \cup ({Put(i) : i \in ids} \ Mine(l)))
    BY <1>2 DEF RememberManyRaises
  <2>2. PICK ids \in SUBSET Id : Keep(l, staged[l] \cup ({Put(i) : i \in ids} \ Mine(l)))
    BY <2>1
  <2>3. {Put(i) : i \in ids} \ Mine(l) \in SUBSET Record
    BY RecordsOfIds
  <2>4. Wake(l) /\ UNCHANGED <<lock, told>>
    BY <1>2 DEF RememberManyRaises
  <2> QED
    BY <2>2, <2>3, <2>4, Waking DEF Keep, LayerStep, LayerTypeOK, Touches, NothingDropped
<1> QED
  BY <1>1, <1>2

\* What a call of a thread on a layer does to the layers.
LEMMA CallIsLayerStep ==
    ASSUME LayerTypeOK, NEW t \in Thread, NEW l \in Handle, LayerCall(t, l)
    PROVE  LayerStep(l)
<1>1. ASSUME NEW i \in Id, ForgetMemory(t, l, i)  PROVE LayerStep(l)
  <2>1. {Forget(i)} \in SUBSET Record
    BY DEF Record
  <2> QED
    BY <1>1, <2>1, WakeAndStage DEF ForgetMemory
<1>2. CASE BatchEnter(t, l)
  BY <1>2 DEF BatchEnter, LayerStep, LayerTypeOK, Touches, NothingDropped
<1>3. CASE BatchEnds(t, l)
  <2>1. lock' \in [Handle -> Thread \cup {Nobody}] /\ UNCHANGED told
    BY <1>3 DEF BatchEnds, BatchExit, BatchAborts, BatchDone, LayerTypeOK
  <2>2. CASE FlushStaged(l)
    BY <2>1, <2>2, Flushing DEF LayerStep, LayerTypeOK
  <2>3. CASE LosesLane(l)
    BY <2>1, <2>3, Losing DEF LosesLane, LayerStep, LayerTypeOK
  <2>4. CASE UNCHANGED <<lane, holder, status, staged>>
    BY <2>1, <2>4 DEF LayerStep, LayerTypeOK, Touches, NothingDropped
  <2> QED
    BY <1>3, <2>2, <2>3, <2>4 DEF BatchEnds, BatchExit, BatchAborts
<1>4. CASE Flush(t, l)
  BY <1>4, Flushing DEF Flush, LayerStep, LayerTypeOK
<1>5. CASE Read(t, l)
  BY <1>5, Waking DEF Read, LayerStep, LayerTypeOK, Touches, NothingDropped
<1>6. CASE CallRaises(t, l)
  <2>1. CASE LosesLane(l)
    BY <1>6, <2>1, Losing DEF CallRaises, LosesLane, LayerStep, LayerTypeOK
  <2>2. CASE /\ status' \in {status, [status EXCEPT ![l] = "off"]}
             /\ UNCHANGED <<lane, holder, staged>>
    BY <1>6, <2>2 DEF CallRaises, LayerStep, LayerTypeOK, Touches, NothingDropped
  <2> QED
    BY <1>6, <2>1, <2>2 DEF CallRaises
<1>7. CASE Hibernate(t, l)
  BY <1>7, Hibernating DEF Hibernate
<1> QED
  BY <1>1, <1>2, <1>3, <1>4, <1>5, <1>6, <1>7, Remembering, RememberingMany DEF LayerCall

-----------------------------------------------------------------------------
(* The pool.                                                               *)

\* PoolTypeOK is not inductive by itself: agent() is about to wake a layer that
\* must still be there.
ServesResident ==
    \A t \in Thread, a \in Agent :
        doing[t] = "serving" /\ target[t] = {a} => resident[a] # Nobody

\* Whoever is in a call has a target, and the pool's lock if the call keeps it.
CallsTypeOK ==
    /\ doing \in [Thread -> {"idle", "serving", "shedding", "evicting", "draining"}]
    /\ target \in [Thread -> SUBSET (Agent \cup Handle)]
    /\ \A t \in Thread :
          /\ poolLock = t <=> doing[t] \in {"serving", "shedding", "evicting"}
          /\ target[t] = {} <=> doing[t] = "idle"

\* The layers that the pool has made and has.
ResidencyTypeOK ==
    /\ made \in [Agent -> Nat] /\ resident \in [Agent -> Handle \cup {Nobody}]
    /\ \A a \in Agent : made[a] <= MaxLayers[a]
    /\ \A a \in Agent : resident[a] \in {Nobody} \cup ({a} \X (1..made[a]))
    /\ strays \subseteq Handle

\* A call puts the layers away that it has taken out of the pool before it
\* returns or looks for the next: an eviction has one in hand, a shed none.
OneAtATime ==
    \A t \in Thread :
        /\ doing[t] \in {"serving", "shedding"} => target[t] \cap Handle = {}
        /\ doing[t] = "evicting" => \A l, m \in target[t] \cap Handle : l = m

PoolInv ==
    /\ LayerTypeOK /\ CallsTypeOK /\ ResidencyTypeOK
    /\ ServesResident /\ OneAtATime /\ ClaimsAreResident

LEMMA PoolInvTypes == PoolInv => PoolTypeOK
BY LayerAssumption DEF PoolInv, LayerTypeOK, CallsTypeOK, ResidencyTypeOK, PoolTypeOK

LEMMA ResidentIsHandle ==
    ASSUME ResidencyTypeOK, NEW a \in Agent, resident[a] # Nobody
    PROVE  resident[a] \in Handle /\ AgentOf(resident[a]) = a
<1>1. resident[a] \in {a} \X (1..made[a]) /\ made[a] <= MaxLayers[a]
  BY DEF ResidencyTypeOK
<1>2. PICK n \in 1..made[a] : resident[a] = <<a, n>>
  BY <1>1
<1>3. n \in 1..MaxLayers[a]
  BY <1>1, LayerAssumption DEF ResidencyTypeOK
<1> QED
  BY <1>2, <1>3, PartsHandle

LEMMA PoolInitInv == PoolInit => PoolInv
<1> SUFFICES ASSUME PoolInit PROVE PoolInv
  OBVIOUS
<1>1. LayerTypeOK /\ CallsTypeOK /\ ResidencyTypeOK
  BY PoolAssumption, LayerAssumption
     DEF PoolInit, LayerInit, LayerTypeOK, CallsTypeOK, ResidencyTypeOK
<1>2. ClaimsAreResident /\ ServesResident /\ OneAtATime
  BY PoolAssumption DEF PoolInit, LayerInit, ClaimsAreResident, ServesResident, OneAtATime
<1> QED
  BY <1>1, <1>2 DEF PoolInv

\* A call begins, takes the pool's lock, and may take a layer out of the pool or
\* put a new one in.
LEMMA AgentEnterInv ==
    ASSUME PoolInv, NEW t \in Thread, NEW a \in Agent, AgentEnter(t, a)
    PROVE  PoolInv'
<1> USE DEF PoolInv, AgentEnter, Enter, layerVars
<1>1. LayerTypeOK'
  BY DEF LayerTypeOK
<1>2. CallsTypeOK'
  BY PoolAssumption DEF CallsTypeOK
<1>3. ResidencyTypeOK' /\ resident'[a] # Nobody
      /\ \A b \in Agent : resident[b] # Nobody => resident'[b] = resident[b]
  <2>1. CASE resident[a] # Nobody /\ UNCHANGED <<resident, made>>
    BY <2>1 DEF ResidencyTypeOK
  <2>2. CASE /\ resident[a] = Nobody /\ made[a] < MaxLayers[a]
             /\ made' = [made EXCEPT ![a] = @ + 1]
             /\ resident' = [resident EXCEPT ![a] = <<a, made[a] + 1>>]
    <3>1. made[a] + 1 \in 1..MaxLayers[a] /\ MaxLayers[a] \in Nat
      <4>1. made[a] \in Nat /\ MaxLayers[a] \in Nat
        BY LayerAssumption DEF ResidencyTypeOK
      <4> QED
        BY <2>2, <4>1
    <3>2. <<a, made[a] + 1>> \in Handle
      BY <3>1, PartsHandle
    <3> QED
      BY <2>2, <3>1, <3>2, PoolAssumption DEF ResidencyTypeOK
  <2> QED
    BY <2>1, <2>2
<1>4. ServesResident' /\ OneAtATime'
  BY <1>3, PoolAssumption DEF ServesResident, OneAtATime, CallsTypeOK
<1>5. ClaimsAreResident'
  <2> SUFFICES ASSUME NEW l \in Handle \ strays', status'[l] = "up",
                      holder'[AgentOf(l)] = l
               PROVE  resident'[AgentOf(l)] = l \/ \E u \in Thread : l \in target'[u]
    BY DEF ClaimsAreResident
  <2>1. resident[AgentOf(l)] = l \/ \E u \in Thread : l \in target[u]
    BY DEF ClaimsAreResident
  <2>2. AgentOf(l) \in Agent /\ l # Nobody
    BY HandleParts, PoolAssumption
  <2> QED
    BY <1>3, <2>1, <2>2 DEF CallsTypeOK
<1> QED
  BY <1>1, <1>2, <1>3, <1>4, <1>5

LEMMA EvictEnterInv ==
    ASSUME PoolInv, NEW t \in Thread, NEW a \in Agent, EvictEnter(t, a)
    PROVE  PoolInv'
<1> USE DEF PoolInv, EvictEnter, Enter, layerVars
<1>0. resident[a] \in Handle /\ AgentOf(resident[a]) = a
  BY ResidentIsHandle
<1>1. LayerTypeOK'
  BY DEF LayerTypeOK
<1>2. CallsTypeOK'
  BY <1>0, PoolAssumption DEF CallsTypeOK
<1>3. ResidencyTypeOK'
  BY DEF ResidencyTypeOK
<1>4. ServesResident' /\ OneAtATime'
  BY PoolAssumption DEF ServesResident, OneAtATime, CallsTypeOK
<1>5. ClaimsAreResident'
  <2> SUFFICES ASSUME NEW l \in Handle \ strays', status'[l] = "up",
                      holder'[AgentOf(l)] = l
               PROVE  resident'[AgentOf(l)] = l \/ \E u \in Thread : l \in target'[u]
    BY DEF ClaimsAreResident
  <2>1. resident[AgentOf(l)] = l \/ \E u \in Thread : l \in target[u]
    BY DEF ClaimsAreResident
  <2>2. AgentOf(l) \in Agent
    BY HandleParts
  <2>3. target'[t] = {resident[a]} /\ target[t] = {}
        /\ \A u \in Thread \ {t} : target'[u] = target[u]
    BY DEF CallsTypeOK
  <2>4. CASE AgentOf(l) = a
    BY <2>1, <2>2, <2>3, <2>4
  <2>5. CASE AgentOf(l) # a
    BY <2>1, <2>2, <2>3, <2>5 DEF ResidencyTypeOK
  <2> QED
    BY <2>4, <2>5
<1> QED
  BY <1>1, <1>2, <1>3, <1>4, <1>5

LEMMA DrainEnterInv ==
    ASSUME PoolInv, NEW t \in Thread, DrainEnter(t)
    PROVE  PoolInv'
<1> USE DEF PoolInv, DrainEnter, Enter, layerVars
<1>1. LayerTypeOK'
  BY DEF LayerTypeOK
<1>2. CallsTypeOK'
  <2>1. {resident[b] : b \in Resident} \subseteq Handle /\ {resident[b] : b \in Resident} # {}
    BY ResidentIsHandle DEF Resident
  <2> QED
    BY <2>1, PoolAssumption DEF CallsTypeOK
<1>3. ResidencyTypeOK'
  BY DEF ResidencyTypeOK
<1>4. ServesResident' /\ OneAtATime'
  BY PoolAssumption DEF ServesResident, OneAtATime, CallsTypeOK
<1>5. ClaimsAreResident'
  <2> SUFFICES ASSUME NEW l \in Handle \ strays', status'[l] = "up",
                      holder'[AgentOf(l)] = l
               PROVE  \E u \in Thread : l \in target'[u]
    BY DEF ClaimsAreResident
  <2>1. resident[AgentOf(l)] = l \/ \E u \in Thread : l \in target[u]
    BY DEF ClaimsAreResident
  <2>2. AgentOf(l) \in Agent /\ l # Nobody
    BY HandleParts, PoolAssumption
  <2>3. target'[t] = {resident[b] : b \in Resident} /\ target[t] = {}
        /\ \A u \in Thread \ {t} : target'[u] = target[u]
    BY DEF CallsTypeOK
  <2> QED
    BY <2>1, <2>2, <2>3 DEF Resident
<1> QED
  BY <1>1, <1>2, <1>3, <1>4, <1>5

-----------------------------------------------------------------------------
(* The steps of a call, and of whoever uses a layer.                       *)

\* A step of layer l, in or out of the pool: what remains to be shown of the
\* lanes that are held.
LEMMA ClaimsKept ==
    ASSUME ClaimsAreResident, NEW l \in Handle, Touches(l), UNCHANGED resident,
           \A u \in Thread : (target[u] \cap Handle) \ {l} \subseteq target'[u],
           strays \ {l} \subseteq strays',
           l \notin strays' /\ status'[l] = "up" /\ holder'[AgentOf(l)] = l =>
               resident[AgentOf(l)] = l \/ \E u \in Thread : l \in target'[u]
    PROVE  ClaimsAreResident'
<1> SUFFICES ASSUME NEW m \in Handle \ strays', status'[m] = "up",
                    holder'[AgentOf(m)] = m, m # l
             PROVE  resident[AgentOf(m)] = m \/ \E u \in Thread : m \in target'[u]
  BY DEF ClaimsAreResident
<1>1. m \notin strays /\ status[m] = "up" /\ holder[AgentOf(m)] = m
  BY HandleParts, PoolAssumption DEF Touches
<1>2. resident[AgentOf(m)] = m \/ \E u \in Thread : m \in target[u]
  BY <1>1 DEF ClaimsAreResident
<1> QED
  BY <1>2

\* The end of a call.
LEMMA Leaving ==
    ASSUME CallsTypeOK, NEW t \in Thread, Leave(t)
    PROVE  /\ CallsTypeOK'
           /\ \A u \in Thread : doing'[u] = "serving" =>
                 doing[u] = "serving" /\ target'[u] = target[u]
           /\ \A u \in Thread \ {t} : target'[u] = target[u]
           /\ OneAtATime => OneAtATime'
BY PoolAssumption DEF CallsTypeOK, OneAtATime, Leave

LEMMA AgentActivateInv ==
    ASSUME PoolInv, NEW t \in Thread, NEW a \in Agent, AgentActivate(t, a)
    PROVE  PoolInv'
<1> DEFINE l == resident[a]
<1> USE DEF PoolInv
<1>1. /\ doing[t] = "serving" /\ target[t] = {a} /\ l # Nobody
      /\ UNCHANGED <<lock, told, resident, made, strays>>
  BY DEF AgentActivate, ServesResident
<1>2. l \in Handle /\ AgentOf(l) = a
  BY <1>1, ResidentIsHandle
<1> HIDE DEF l
<1>3. ResidencyTypeOK'
  BY <1>1 DEF ResidencyTypeOK
<1>4. LayerTypeOK' /\ Touches(l) /\ CallsTypeOK' /\ ServesResident' /\ OneAtATime'
      /\ \A u \in Thread : target[u] \cap Handle \subseteq target'[u]
  <2>1. CASE /\ Wake(l) /\ UNCHANGED <<lane, staged>>
             /\ doing' = [doing EXCEPT ![t] = "shedding"]
             /\ UNCHANGED <<target, poolLock>>
    <3>1. LayerTypeOK' /\ Touches(l)
      BY <1>1, <1>2, <2>1, Waking DEF LayerTypeOK, Touches
    <3>2. CallsTypeOK' /\ ServesResident' /\ OneAtATime'
      BY <1>1, <2>1 DEF CallsTypeOK, ServesResident, OneAtATime
    <3> QED
      BY <2>1, <3>1, <3>2
  <2>2. CASE LosesLane(l) /\ Leave(t)
    <3>1. LayerTypeOK' /\ Touches(l)
      BY <1>1, <1>2, <2>2, Losing DEF LosesLane, LayerTypeOK
    <3> QED
      BY <1>1, <2>2, <3>1, Leaving, PoolAssumption DEF ServesResident
  <2>3. CASE Leave(t) /\ UNCHANGED <<lane, holder, status, staged>>
    <3>1. LayerTypeOK' /\ Touches(l)
      BY <1>1, <2>3 DEF LayerTypeOK, Touches
    <3> QED
      BY <1>1, <2>3, <3>1, Leaving, PoolAssumption DEF ServesResident
  <2> QED
    BY <2>1, <2>2, <2>3 DEF AgentActivate, l
<1>5. ClaimsAreResident'
  BY <1>1, <1>2, <1>4, ClaimsKept DEF l
<1> QED
  BY <1>3, <1>4, <1>5

LEMMA ShedInv ==
    ASSUME PoolInv, NEW t \in Thread, ShedDone(t) \/ \E a \in Agent : ShedOne(t, a)
    PROVE  PoolInv'
<1> USE DEF PoolInv
<1>1. CASE ShedDone(t)
  <2>1. /\ doing[t] = "shedding" /\ Leave(t)
        /\ UNCHANGED <<layerVars, resident, made, strays>>
    BY <1>1 DEF ShedDone
  <2>2. LayerTypeOK' /\ ResidencyTypeOK'
    BY <2>1 DEF layerVars, LayerTypeOK, ResidencyTypeOK
  <2>3. CallsTypeOK' /\ OneAtATime'
    BY <2>1, Leaving
  <2>4. ServesResident'
    BY <2>1, Leaving DEF ServesResident
  <2>5. ClaimsAreResident'
    <3> SUFFICES ASSUME NEW l \in Handle \ strays, status[l] = "up", holder[AgentOf(l)] = l
                 PROVE  resident[AgentOf(l)] = l \/ \E u \in Thread : l \in target'[u]
      BY <2>1 DEF ClaimsAreResident, layerVars
    <3>1. resident[AgentOf(l)] = l \/ \E u \in Thread : l \in target[u]
      BY DEF ClaimsAreResident
    <3>2. l \notin target[t] /\ \A u \in Thread \ {t} : target'[u] = target[u]
      BY <2>1, Leaving DEF OneAtATime
    <3> QED
      BY <3>1, <3>2
  <2> QED
    BY <2>2, <2>3, <2>4, <2>5
<1>2. ASSUME NEW a \in Agent, ShedOne(t, a)  PROVE PoolInv'
  <2> USE <1>2 DEF ShedOne, layerVars
  <2>0. resident[a] \in Handle /\ AgentOf(resident[a]) = a
    BY ResidentIsHandle DEF Idle, Resident
  <2>1. LayerTypeOK'
    BY DEF LayerTypeOK
  <2>2. CallsTypeOK'
    BY <2>0 DEF CallsTypeOK
  <2>3. ResidencyTypeOK'
    BY DEF ResidencyTypeOK
  <2>4. ServesResident' /\ OneAtATime'
    BY <2>0 DEF ServesResident, OneAtATime, CallsTypeOK
  <2>5. ClaimsAreResident'
    <3> SUFFICES ASSUME NEW l \in Handle \ strays', status'[l] = "up",
                        holder'[AgentOf(l)] = l
                 PROVE  resident'[AgentOf(l)] = l \/ \E u \in Thread : l \in target'[u]
      BY DEF ClaimsAreResident
    <3>1. resident[AgentOf(l)] = l \/ \E u \in Thread : l \in target[u]
      BY DEF ClaimsAreResident
    <3>2. AgentOf(l) \in Agent
      BY HandleParts
    <3>3. resident[a] \in target'[t] /\ \A u \in Thread : target[u] \subseteq target'[u]
      BY DEF CallsTypeOK
    <3> QED
      BY <3>1, <3>2, <3>3 DEF ResidencyTypeOK
  <2> QED
    BY <2>1, <2>2, <2>3, <2>4, <2>5
<1> QED
  BY <1>1, <1>2

\* What After and Leave make of the calls: the layer that was put away leaves the
\* call's hands, the others stay in them.
LEMMA GoesOn ==
    ASSUME CallsTypeOK, OneAtATime, NEW t \in Thread, NEW l \in target[t] \cap Handle,
           doing[t] \in {"evicting", "draining"},
           After(t, l) \/ (doing[t] = "evicting" /\ Leave(t))
    PROVE  /\ CallsTypeOK' /\ OneAtATime'
           /\ \A u \in Thread : doing'[u] = "serving" =>
                 doing[u] = "serving" /\ target'[u] = target[u]
           /\ \A u \in Thread : (target[u] \cap Handle) \ {l} \subseteq target'[u]
<1>1. CASE Leave(t) /\ target[t] \cap Handle \subseteq {l}
  BY <1>1, Leaving
<1>2. CASE After(t, l) /\ target[t] \ {l} # {}
  <2> DEFINE rest == target[t] \ {l}
  <2>1. /\ target' = [target EXCEPT ![t] = rest]
        /\ doing' = [doing EXCEPT ![t] = IF @ = "evicting" THEN "shedding" ELSE @]
        /\ UNCHANGED poolLock
    BY <1>2 DEF After
  <2>2. CallsTypeOK'
    BY <1>2, <2>1 DEF CallsTypeOK
  <2>3. doing[t] = "evicting" => rest \cap Handle = {}
    BY DEF OneAtATime
  <2>4. OneAtATime'
    BY <2>1, <2>3 DEF OneAtATime, CallsTypeOK
  <2> QED
    BY <2>1, <2>2, <2>4 DEF CallsTypeOK
<1>3. CASE After(t, l) /\ target[t] \ {l} = {}
  BY <1>1, <1>3 DEF After
<1>4. CASE doing[t] = "evicting" /\ Leave(t)
  BY <1>1, <1>4 DEF OneAtATime
<1> QED
  BY <1>2, <1>3, <1>4

LEMMA PutAwayInv ==
    ASSUME PoolInv, NEW t \in Thread, NEW l \in Handle, PutAway(t, l)
    PROVE  PoolInv' /\ NothingDropped(l) /\ Touches(l)
<1> USE DEF PoolInv
<1>1. /\ doing[t] \in {"evicting", "draining"} /\ l \in target[t]
      /\ UNCHANGED <<lock, told, resident, made>>
      /\ Hibernated(l) \/ HibernateRaises(l)
      /\ After(t, l) \/ (doing[t] = "evicting" /\ Leave(t))
      /\ strays' \in {strays \ {l}, strays \cup {l}}
      /\ l \in strays' \/ Hibernated(l)
  BY DEF PutAway
<1>2. LayerStep(l)
  BY <1>1, Hibernating
<1>3. /\ CallsTypeOK' /\ OneAtATime'
      /\ \A u \in Thread : doing'[u] = "serving" =>
            doing[u] = "serving" /\ target'[u] = target[u]
      /\ \A u \in Thread : (target[u] \cap Handle) \ {l} \subseteq target'[u]
  BY <1>1, GoesOn
<1>4. ResidencyTypeOK' /\ ServesResident'
  BY <1>1, <1>3 DEF ResidencyTypeOK, ServesResident
<1>5. Hibernated(l) => status'[l] = "off"
  BY DEF Hibernated, LayerTypeOK
<1>6. ClaimsAreResident'
  BY <1>1, <1>2, <1>3, <1>5, ClaimsKept DEF LayerStep
<1> QED
  BY <1>2, <1>3, <1>4, <1>6 DEF LayerStep

LEMMA UseInv ==
    ASSUME PoolInv, NEW t \in Thread, NEW l \in Handle, Use(t, l)
    PROVE  PoolInv' /\ NothingDropped(l) /\ Touches(l)
<1> USE DEF PoolInv
<1>1. LayerStep(l)
  BY CallIsLayerStep DEF Use
<1>2. UNCHANGED <<resident, made, poolLock, doing, target>>
  BY DEF Use, Unseen
<1>3. strays' = IF status'[l] # "up" THEN strays \ {l}
                ELSE IF resident[AgentOf(l)] # l THEN strays \cup {l} ELSE strays
  BY DEF Use, Unseen
<1>4. CallsTypeOK' /\ ResidencyTypeOK' /\ ServesResident' /\ OneAtATime'
  BY <1>2, <1>3 DEF CallsTypeOK, ResidencyTypeOK, ServesResident, OneAtATime
<1>5. ClaimsAreResident'
  BY <1>1, <1>2, <1>3, ClaimsKept DEF LayerStep
<1> QED
  BY <1>1, <1>4, <1>5 DEF LayerStep

LEMMA OutsideInv == PoolInv /\ Outside => PoolInv' /\ UNCHANGED <<status, staged>>
<1> SUFFICES ASSUME PoolInv, NEW a \in Agent, LeaseEnds(a), UNCHANGED residency
             PROVE  PoolInv' /\ UNCHANGED <<status, staged>>
  BY DEF Outside
<1> USE DEF PoolInv, LeaseEnds, residency
<1>1. LayerTypeOK'
  BY DEF LayerTypeOK
<1>2. CallsTypeOK' /\ ResidencyTypeOK' /\ ServesResident' /\ OneAtATime'
  BY DEF CallsTypeOK, ResidencyTypeOK, ServesResident, OneAtATime
<1>3. ClaimsAreResident'
  BY HandleParts, PoolAssumption DEF ClaimsAreResident, LayerTypeOK
<1> QED
  BY <1>1, <1>2, <1>3

LEMMA PoolNextInv == PoolInv /\ [PoolNext]_poolVars => PoolInv'
<1> SUFFICES ASSUME PoolInv, [PoolNext]_poolVars PROVE PoolInv'
  OBVIOUS
<1>1. ASSUME NEW t \in Thread, NEW a \in Agent,
             AgentEnter(t, a) \/ EvictEnter(t, a) \/ AgentActivate(t, a) \/ ShedOne(t, a)
      PROVE  PoolInv'
  BY <1>1, AgentEnterInv, EvictEnterInv, AgentActivateInv, ShedInv
<1>2. ASSUME NEW t \in Thread, DrainEnter(t) \/ ShedDone(t)  PROVE PoolInv'
  BY <1>2, DrainEnterInv, ShedInv
<1>3. ASSUME NEW t \in Thread, NEW l \in Handle, PutAway(t, l) \/ Use(t, l)  PROVE PoolInv'
  BY <1>3, PutAwayInv, UseInv
<1>4. CASE UNCHANGED poolVars
  BY <1>4 DEF poolVars, layerVars, PoolInv, LayerTypeOK, CallsTypeOK, ResidencyTypeOK,
              ServesResident, OneAtATime, ClaimsAreResident
<1> QED
  BY <1>1, <1>2, <1>3, <1>4, OutsideInv DEF PoolNext, Progress

\* Every state that the pool reaches satisfies the inductive invariant.
THEOREM PoolAlways == PoolSpec => []PoolInv
BY PoolInitInv, PoolNextInv, PTL DEF PoolSpec

\* The pool's state keeps its shape, whoever is in a call that keeps the pool's
\* lock has it and nobody else, and no agent has more layers than were made.
THEOREM PoolTypes == PoolSpec => []PoolTypeOK
BY PoolAlways, PoolInvTypes, PTL

\* Every lane that this process holds can be found: its layer is in the pool or
\* in the hands of a call that puts it away, however agent(), evict(), drain()
\* and the calls of other threads on their layers come together.
THEOREM ClaimsFound == PoolSpec => []ClaimsAreResident
<1>1. PoolInv => ClaimsAreResident
  BY DEF PoolInv
<1> QED
  BY <1>1, PoolAlways, PTL

\* Staged records leave a layer's memory into its lane only, through every call
\* and every eviction, unless the layer has lost the lane.
THEOREM StagedSafe == PoolSpec => StagedReachesLane
<1> DEFINE Kept == \A l \in Handle : NothingDropped(l)
<1>1. ASSUME PoolInv, PoolNext  PROVE Kept
  <2>1. ASSUME NEW l \in Handle, Touches(l) /\ NothingDropped(l)  PROVE Kept
    BY <2>1 DEF Touches, NothingDropped
  <2>2. ASSUME UNCHANGED staged  PROVE Kept
    BY <2>2 DEF NothingDropped
  <2>3. ASSUME NEW t \in Thread, NEW l \in Handle, PutAway(t, l) \/ Use(t, l)  PROVE Kept
    BY <1>1, <2>1, <2>3, PutAwayInv, UseInv
  <2>4. ASSUME NEW t \in Thread, NEW a \in Agent,
               AgentEnter(t, a) \/ EvictEnter(t, a) \/ ShedOne(t, a)
        PROVE  UNCHANGED staged
    BY <2>4 DEF AgentEnter, EvictEnter, ShedOne, layerVars
  <2>5. ASSUME NEW t \in Thread, DrainEnter(t) \/ ShedDone(t)  PROVE UNCHANGED staged
    BY <2>5 DEF DrainEnter, ShedDone, layerVars
  <2>6. ASSUME NEW t \in Thread, NEW a \in Agent, AgentActivate(t, a)  PROVE UNCHANGED staged
    BY <2>6 DEF AgentActivate, LosesLane
  <2> QED
    BY <1>1, <2>2, <2>3, <2>4, <2>5, <2>6, OutsideInv DEF PoolNext, Progress
<1>2. PoolInv /\ [PoolNext]_poolVars =>
        [\A l \in Handle : \A r \in staged[l] \ staged'[l] :
          \/ r \in lane'[AgentOf(l)]
          \/ status[l] = "fenced" \/ holder[AgentOf(l)] \notin {l, Nobody}]_layerVars
  BY <1>1 DEF poolVars, NothingDropped
<1> QED
  BY <1>2, PoolAlways, PTL DEF PoolSpec, StagedReachesLane
=============================================================================
