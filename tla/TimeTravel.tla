----------------------------- MODULE TimeTravel -----------------------------
(***************************************************************************)
(* A space of several lanes over time: what a reader makes of them, where  *)
(* it says each lane had got to (head, HEAD~n), checkpoints, and what      *)
(* state_at() replays of a checkpoint after the lanes have been compacted, *)
(* restarted and collected.                                                *)
(*                                                                         *)
(* How one lane is written is the matter of module Lane; here a flush is   *)
(* one step, and so is a refresh.  The lanes' clocks are not synchronised. *)
(***************************************************************************)
EXTENDS LaneChain, Merge

CONSTANTS
    Me,             \* the agent whose Space reads, tags and travels
    Name,           \* checkpoint names
    KeepEpochs,     \* gc's keep_epochs
    GcFails,        \* environment: some deletions of a gc() may fail
    MaxTime, MaxEpoch, MaxSeq,      \* bounds: clocks, epochs, segments
    MaxFlushes,     \* bound: flushes of all lanes together
    MaxCompactions  \* bound: L1 objects in all lanes together

ASSUME TimeTravelAssumption ==
    /\ IsFiniteSet(Agent) /\ Me \in Agent /\ GcFails \in BOOLEAN
    /\ {KeepEpochs, MaxEpoch} \subseteq Nat \ {0}
    /\ {MaxTime, MaxSeq, MaxFlushes, MaxCompactions} \subseteq Nat

VARIABLES
    clock,          \* time.time() where the lane is written
    lanes,          \* the objects: agent -> key -> [body, at]
    epoch, nextSeq, \* of each lane's Space
    own,            \* Space.own and Space.own_tombstones, as records
    reader,         \* what Me has read: its PeerLanes, log and SharedState,
                    \* and (history) the records heard
    tags,           \* checkpoints: name -> [cut, seen (history)]
    past,           \* history: agent -> <<epoch, seq>> -> own at that commit
    collected       \* history: the <<agent, epoch>> that gc() deleted from

laneVars == <<clock, lanes, epoch, nextSeq, own, past, collected>>
travelVars == <<laneVars, reader, tags>>

\* f, with y at x.
With(f, x, y) == [z \in DOMAIN f \cup {x} |-> IF z = x THEN y ELSE f[z]]

LogEntry == [agent : Agent, at : Nat, epoch : Nat, seq : Nat]

-----------------------------------------------------------------------------
(* build_chain                                                             *)

Low(k) == IF k.level = 1 THEN 0 ELSE k.hi

Widest_Narrowest(E) ==
    CHOOSE k \in E : \A j \in E : j.hi > k.hi \/ (j.hi = k.hi /\ j.level <= k.level)

\* Widest coverage first, on equal coverage the L1 object.
Widest(E) ==
    CHOOSE k \in E : \A j \in E : j.hi < k.hi \/ (j.hi = k.hi /\ j.level <= k.level)

Eligible_Overshoots(K, pos, until) ==
    {k \in K : Low(k) = pos /\ pos <= until /\ (k.level = 1 \/ k.hi <= until)}

\* An object that overshoots the cut cannot be replayed halfway.
Eligible(K, pos, until) ==
    {k \in K : Low(k) = pos /\ pos <= until /\ k.hi <= until}

\* The greedy cover, over the keys of one epoch.
BuildChain(K, until) ==
    LET chain[pos \in Nat] ==
            LET E == Eligible(K, pos, until)
            IN  IF E = {} THEN {} ELSE {Widest(E)} \cup chain[Widest(E).hi + 1]
    IN  chain[0]

-----------------------------------------------------------------------------
(* Objects, their records and their log entries                            *)

Contents(a, K) == UNION {lanes[a][k].body : k \in K}

Entries(a, K) ==
    {[agent |-> a, at |-> lanes[a][k].at, epoch |-> k.epoch, seq |-> k.hi] : k \in K}

\* The records of one lane, replayed.
LaneReplay(S) == {r \in S : r.op = "put" => ForgetRecord(r.frag) \notin S}

\* The reader has fetched and applied the objects K of lane a.
Heard(rd, a, K) ==
    LET H == Contents(a, K) \X {a}
    IN  [rd EXCEPT !.log = @ \cup Entries(a, K),
                   !.state = ApplyAll(@, H),
                   !.heard = @ \cup H]

-----------------------------------------------------------------------------
(* Writing                                                                 *)

Fragments(S) == {r.frag : r \in S}

\* A record that agent a may stage now: remember() passes over what is its own
\* and renames what it knows to be forgotten; forget() wants it known, and Me
\* knows what its state says.
MayStage(a, r) ==
    IF r.op = "put"
    THEN /\ r.frag \notin Fragments(own[a])
         /\ a = Me => r.frag \notin reader.state.tombstones
    ELSE /\ ForgetRecord(r.frag) \notin own[a]
         /\ IF a = Me THEN reader.state.origins[r.frag] # None
            ELSE \E b \in Agent : r.frag \in Fragments(own[b])

\* What one flush commits: a record, or the base alone.
Staged(a, t) ==
    {{}} \cup
    {{r} : r \in {s \in {PutRecord(f, t) : f \in Fragment} \cup
                        {ForgetRecord(f) : f \in Fragment} : MayStage(a, s)}}

Body_NoBase(a, R) == R

Body(a, R) == IF nextSeq[a] = 0 THEN own[a] \cup R ELSE R

Write(a, k, object) == lanes' = [lanes EXCEPT ![a] = With(@, k, object)]

\* A flush that is acknowledged.
Flush(a) ==
    \E t \in {clock[a], clock[a] + 1} \cap 0..MaxTime : \E R \in Staged(a, t) :
        /\ R # {} \/ (nextSeq[a] = 0 /\ own[a] # {})
        /\ nextSeq[a] <= MaxSeq
        /\ MapThenSumSet(LAMBDA b : Cardinality(DOMAIN past[b]), Agent) < MaxFlushes
        /\ Write(a, Segment(epoch[a], nextSeq[a]), [body |-> Body(a, R), at |-> t])
        /\ own' = [own EXCEPT ![a] = LaneReplay(@ \cup R)]
        /\ past' = [past EXCEPT ![a] = With(@, <<epoch[a], nextSeq[a]>>, own'[a])]
        /\ nextSeq' = [nextSeq EXCEPT ![a] = @ + 1]
        /\ clock' = [clock EXCEPT ![a] = t]
        /\ reader' =
              IF a # Me THEN reader
              ELSE [reader EXCEPT
                       !.log = @ \cup {[agent |-> a, at |-> t, epoch |-> epoch[a],
                                        seq |-> nextSeq[a]]},
                       !.state = ApplyAll(@, R \X {a}),
                       !.heard = @ \cup (R \X {a})]
        /\ UNCHANGED <<epoch, tags, collected>>

Compactions ==
    MapThenSumSet(LAMBDA b : Cardinality({k \in DOMAIN lanes[b] : k.level = 1}), Agent)

Compact_PastEnd(a) ==
    \E t \in {clock[a], clock[a] + 1} \cap 0..MaxTime :
        /\ nextSeq[a] > 0 /\ Compactions < MaxCompactions
        /\ Write(a, Compaction(epoch[a], nextSeq[a]), [body |-> own[a], at |-> t])
        /\ clock' = [clock EXCEPT ![a] = t]
        /\ UNCHANGED <<epoch, nextSeq, own, reader, tags, past, collected>>

\* compact(), of a single segment when the vectors get narrower.
Compact(a) ==
    \E t \in {clock[a], clock[a] + 1} \cap 0..MaxTime :
        /\ nextSeq[a] > 0 /\ Compactions < MaxCompactions
        /\ Write(a, Compaction(epoch[a], nextSeq[a] - 1), [body |-> own[a], at |-> t])
        /\ clock' = [clock EXCEPT ![a] = t]
        /\ UNCHANGED <<epoch, nextSeq, own, reader, tags, past, collected>>

\* gc().
Gc(a) ==
    \E D \in SUBSET Doomed(DOMAIN lanes[a], KeepEpochs) \ {{}} :
        /\ GcFails \/ D = Doomed(DOMAIN lanes[a], KeepEpochs)
        /\ lanes' = [lanes EXCEPT ![a] = [k \in DOMAIN @ \ D |-> @[k]]]
        /\ collected' = collected \cup ({a} \X {k.epoch : k \in D})
        /\ UNCHANGED <<clock, epoch, nextSeq, own, reader, tags, past>>

-----------------------------------------------------------------------------
(* Reading                                                                 *)

ListedChain(a) == SelectChain(DOMAIN lanes[a], epoch[a] + 1)
ListedEpoch(a) == (CHOOSE k \in ListedChain(a) : TRUE).epoch

\* What Me has applied of the epoch it finds in lane a, and what it wants of it.
Applied(rd, a) == IF ListedEpoch(a) = rd.peerEpoch[a] THEN rd.applied[a] ELSE {}
Wanted(rd, a) ==
    {k \in ListedChain(a) \ Applied(rd, a) : ~SpansCover(Applied(rd, a), k)}

\* refresh(): one LIST of all lanes, then what is wanted of any of them.
Refreshed(rd) ==
    LET peers == {a \in Agent \ {Me} : ListedChain(a) # {}}
        H == UNION {Contents(a, Wanted(rd, a)) \X {a} : a \in peers}
    IN  [rd EXCEPT
            !.peerEpoch = [a \in Agent |-> IF a \in peers THEN ListedEpoch(a) ELSE @[a]],
            !.applied = [a \in Agent |->
                            IF a \in peers THEN Applied(rd, a) \cup ListedChain(a) ELSE @[a]],
            !.log = @ \cup UNION {Entries(a, Wanted(rd, a)) : a \in peers},
            !.state = ApplyAll(@, H),
            !.heard = @ \cup H]

Refresh ==
    /\ reader' = Refreshed(reader)
    /\ UNCHANGED <<laneVars, tags>>

Unread ==
    [peerEpoch |-> [a \in Agent |-> 0], applied |-> [a \in Agent |-> {}],
     log |-> {}, state |-> Blank, heard |-> {}]

\* The lane is given up or its process dies, and it is activated at the next
\* epoch.
Restart(a) ==
    /\ epoch[a] < MaxEpoch
    /\ epoch' = [epoch EXCEPT ![a] = @ + 1]
    /\ nextSeq' = [nextSeq EXCEPT ![a] = 0]
    /\ LET chain == SelectChain(DOMAIN lanes[a], epoch[a] + 1)
       IN  /\ own' = [own EXCEPT ![a] = LaneReplay(Contents(a, chain))]
           /\ reader' = IF a = Me THEN Refreshed(Heard(Unread, a, chain)) ELSE reader
    /\ UNCHANGED <<clock, lanes, tags, past, collected>>

-----------------------------------------------------------------------------
(* Cuts                                                                    *)

Before_SeqFirst(x, y) ==
    \/ x.at < y.at
    \/ x.at = y.at /\ x.agent < y.agent
    \/ x.at = y.at /\ x.agent = y.agent /\ x.seq < y.seq
    \/ x.at = y.at /\ x.agent = y.agent /\ x.seq = y.seq /\ x.epoch < y.epoch

\* The order of sorted_log().
Before(x, y) ==
    \/ x.at < y.at
    \/ x.at = y.at /\ x.agent < y.agent
    \/ x.at = y.at /\ x.agent = y.agent /\ x.epoch < y.epoch
    \/ x.at = y.at /\ x.agent = y.agent /\ x.epoch = y.epoch /\ x.seq < y.seq

\* The first entries of the log, up to entry x: HEAD~n for some n.
UpTo(x) == {e \in reader.log : ~Before(x, e)}

\* Later entries overwrite a lane's position.
CutOf(E) ==
    [a \in {e.agent : e \in E} |->
        LET last == CHOOSE e \in E : /\ e.agent = a
                                     /\ \A d \in E : d.agent = a => ~Before(e, d)
        IN  <<last.epoch, last.seq>>]

\* checkpoint(): a conditional create.
Tag(n) ==
    /\ reader.log # {} /\ n \notin DOMAIN tags
    /\ tags' = With(tags, n, [cut |-> CutOf(reader.log), seen |-> reader.state])
    /\ UNCHANGED <<laneVars, reader>>

\* What state_at() replays of a lane, up to a position.
ChainAt(a, p) == BuildChain({k \in DOMAIN lanes[a] : k.epoch = p[1]}, p[2])

\* It raises ChainBroken.
Broken(cut) == \E a \in DOMAIN cut : ChainAt(a, cut[a]) = {}

StateAt(cut) ==
    ApplyAll(Blank, UNION {Contents(a, ChainAt(a, cut[a])) \X {a} : a \in DOMAIN cut})

-----------------------------------------------------------------------------
TravelInit ==
    /\ clock = [a \in Agent |-> 0]
    /\ lanes = [a \in Agent |-> <<>>]
    /\ epoch = [a \in Agent |-> 1]
    /\ nextSeq = [a \in Agent |-> 0]
    /\ own = [a \in Agent |-> {}]
    /\ reader = Unread
    /\ tags = <<>>
    /\ past = [a \in Agent |-> <<>>]
    /\ collected = {}

TravelNext ==
    \/ \E a \in Agent : Flush(a) \/ Compact(a) \/ Gc(a) \/ Restart(a)
    \/ Refresh
    \/ \E n \in Name : Tag(n)

TravelSpec == TravelInit /\ [][TravelNext]_travelVars

-----------------------------------------------------------------------------
(* Properties                                                              *)

\* Every object and every log entry is at a position that was committed.
TravelTypeOK ==
    /\ clock \in [Agent -> Nat]
    /\ epoch \in [Agent -> Nat] /\ nextSeq \in [Agent -> Nat]
    /\ own \in [Agent -> SUBSET RecordSet]
    /\ reader.state \in StateSet /\ reader.heard \subseteq RecordSet \X Agent
    /\ reader.applied \in [Agent -> SUBSET Key] /\ reader.peerEpoch \in [Agent -> Nat]
    /\ \A a \in Agent : \A k \in DOMAIN lanes[a] :
          k \in Key /\ <<k.epoch, k.hi>> \in DOMAIN past[a]
    /\ \A e \in reader.log : e \in LogEntry /\ <<e.epoch, e.seq>> \in DOMAIN past[e.agent]

\* build_chain's greedy cover is the closed form that module Lane is built on:
\* for every epoch of every lane, with and without a cut.
ChainIsGreedy ==
    \A a \in Agent, e \in 1..MaxEpoch, until \in 0..(MaxSeq + 1) :
        LET K == {k \in DOMAIN lanes[a] : k.epoch = e}
            B == {k \in K : k.hi <= until}
        IN  BuildChain(K, until) = {k \in B : InChain(B, k)}

\* "Two agents that have seen the same lanes therefore hold identical state"
\* (space.py:238): the reader's state is the merge of the records it has
\* heard, in whatever order and however often segments, compactions, restarts
\* and its own flushes brought them.
MergeIsUnion == IsMerge(reader.state, reader.heard)

\* Time travel never shows the future: whatever gc() has left of a lane, what
\* is replayed up to a committed position is the lane as it was then or
\* earlier, or ChainBroken.
PastIsReal ==
    \A a \in Agent : \A p \in DOMAIN past[a] :
        LET chain == ChainAt(a, p)
        IN  chain = {} \/ \E s \in 0..p[2] :
                LaneReplay(Contents(a, chain)) = past[a][<<p[1], s>>]

\* head, and HEAD~n for every n, names the newest position of each lane among
\* the entries it covers, though entries are ordered by clocks that are not
\* synchronised (space.py:839) and several of a lane may bear one time.
HeadIsNewest ==
    \A x \in reader.log :
        LET cut == CutOf(UpTo(x))
        IN  \A e \in UpTo(x) :
                \/ e.epoch < cut[e.agent][1]
                \/ e.epoch = cut[e.agent][1] /\ e.seq <= cut[e.agent][2]

\* "What did the team know then?" (README.md:316): a checkpoint of lanes that
\* gc() has not been through replays exactly what its author knew: through
\* compactions and restarts of the lanes since, and though that author had
\* read those lanes in pieces and in another order.
CheckpointHolds ==
    \A n \in DOMAIN tags :
        LET cut == tags[n].cut
        IN  (\A a \in DOMAIN cut : <<a, cut[a][1]>> \notin collected)
                => ~Broken(cut) /\ StateAt(cut) = tags[n].seen

\* After gc() too, a checkpoint replays what its author knew or raises
\* ChainBroken ("can make old checkpoints unreachable", memory.py:677).
CheckpointReplays ==
    \A n \in DOMAIN tags :
        Broken(tags[n].cut) \/ StateAt(tags[n].cut) = tags[n].seen
=============================================================================
