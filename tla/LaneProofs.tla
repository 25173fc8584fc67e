---------------------------- MODULE LaneProofs ----------------------------
(***************************************************************************)
(* Type correctness of Lane, for any handles, records and bounds, and what *)
(* the proofs about it need to know of sets of records, of sets of keys    *)
(* and of the lineages in a bucket.                                        *)
(***************************************************************************)
EXTENDS LaneInvariant, TLAPS, FiniteSetTheorems, WellFoundedInduction

-----------------------------------------------------------------------------
(***************************************************************************)
(* Type correctness.                                                       *)
(***************************************************************************)

TypeInv == TypeOK /\ \A h \in Handle : based[h] => nextSeq[h] > 0

LEMMA KeysAreKeys ==
    ASSUME NEW e \in Nat, NEW s \in Nat
    PROVE  Segment(e, s) \in Key /\ Compaction(e, s) \in Key
BY DEF Segment, Compaction, Key

\* A PUT keeps the bucket a function from keys to sets of records.
LEMMA PutTypes ==
    ASSUME DOMAIN bucket \subseteq Key, bucket \in [DOMAIN bucket -> SUBSET Record],
           NEW k \in Key, NEW body \in SUBSET Record, Put(k, body)
    PROVE  /\ DOMAIN bucket' = DOMAIN bucket \cup {k}
           /\ DOMAIN bucket' \subseteq Key
           /\ bucket' \in [DOMAIN bucket' -> SUBSET Record]
           /\ bucket'[k] = body
           /\ \A j \in DOMAIN bucket : j # k => bucket'[j] = bucket[j]
BY DEF Put

LEMMA ContentsAreRecords ==
    ASSUME bucket \in [DOMAIN bucket -> SUBSET Record],
           NEW K \in SUBSET DOMAIN bucket
    PROVE  Contents(K) \subseteq Record
BY DEF Contents

LEMMA LaneTypeStep ==
    ASSUME TypeInv, [Next]_laneVars
    PROVE  TypeInv'
<1> USE LaneAssumption DEF TypeInv, TypeOK
<1>1. CASE UNCHANGED laneVars
  BY <1>1 DEF laneVars, ownerVars, localVars
<1>2. ASSUME NEW h \in Handle, HandleStep(h)
      PROVE  TypeInv'
  <2> USE DEF ownerVars, localVars, Phase
  <2>1. CASE ClaimLane(h)
    BY <2>1 DEF ClaimLane, Reset, Tokens!Issue
  <2>2. CASE Rejoin(h)
    BY <2>2 DEF Rejoin, Reset
  <2>3. CASE ReclaimFails(h)
    BY <2>3 DEF ReclaimFails, Reset
  <2>4. CASE ListLane(h)
    BY <2>4 DEF ListLane, SelectChain
  <2>5. CASE FetchLane(h)
    <3>1. BeforeHole(plan[h], DOMAIN bucket) \subseteq DOMAIN bucket
      BY DEF BeforeHole, Key
    <3>2. Contents(BeforeHole(plan[h], DOMAIN bucket)) \subseteq Record
      BY <3>1, ContentsAreRecords
    <3> QED
      BY <3>2, <2>5 DEF FetchLane, Replay
  <2>6. CASE WakeFails(h)
    BY <2>6 DEF WakeFails
  <2>7. CASE FlushPut(h)
    <3>1. Segment(epoch[h], nextSeq[h]) \in Key /\ Body(h) \in SUBSET Record
      BY KeysAreKeys DEF Body
    <3>2. Put(Segment(epoch[h], nextSeq[h]), Body(h))
      BY <2>7 DEF FlushPut
    <3>3. DOMAIN bucket' \subseteq Key /\ bucket' \in [DOMAIN bucket' -> SUBSET Record]
      BY <3>1, <3>2, PutTypes
    <3> QED
      BY <3>3, <2>7 DEF FlushPut
  <2>8. CASE FlushAck(h)
    BY <2>8 DEF FlushAck, Acknowledge, Replay
  <2>9. CASE FlushFails(h)
    BY <2>9 DEF FlushFails
  <2>10. CASE CompactPut(h)
    <3>1. Compaction(epoch[h], nextSeq[h] - 1) \in Key
      BY <2>10, KeysAreKeys DEF CompactPut
    <3>2. Put(Compaction(epoch[h], nextSeq[h] - 1), own[h])
      BY <2>10 DEF CompactPut
    <3>3. DOMAIN bucket' \subseteq Key /\ bucket' \in [DOMAIN bucket' -> SUBSET Record]
      BY <3>1, <3>2, PutTypes
    <3> QED
      BY <3>3, <2>10 DEF CompactPut
  <2>11. CASE CompactEnds(h)
    BY <2>11 DEF CompactEnds
  <2>12. CASE GcList(h)
    BY <2>12 DEF GcList, Doomed
  <2>13. CASE Renew(h)
    BY <2>13 DEF Renew
  <2>14. CASE RenewReplyLost(h)
    BY <2>14 DEF RenewReplyLost
  <2>15. CASE RenewFenced(h)
    BY <2>15 DEF RenewFenced
  <2>16. CASE Deactivate(h)
    BY <2>16 DEF Deactivate, Reset
  <2>17. CASE ReleaseReplyLost(h)
    BY <2>17 DEF ReleaseReplyLost
  <2>18. CASE Crash(h)
    BY <2>18 DEF Crash, Reset
  <2>19. ASSUME NEW r \in Record, Stage(h, r)  PROVE TypeInv'
    BY <2>19 DEF Stage
  <2>20. ASSUME NEW k \in doomed[h], GcDelete(h, k)  PROVE TypeInv'
    BY <2>20 DEF GcDelete
  <2> QED
    BY <1>2, <2>1, <2>2, <2>3, <2>4, <2>5, <2>6, <2>7, <2>8, <2>9, <2>10, <2>11, <2>12, <2>13, <2>14, <2>15, <2>16, <2>17, <2>18, <2>19, <2>20 DEF HandleStep
<1> QED
  BY <1>1, <1>2 DEF Next

\* Every variable keeps its type in every behaviour.
THEOREM LaneTypeCorrect == Spec => []TypeOK
<1>1. Init => TypeInv
  BY LaneAssumption DEF Init, TypeInv, TypeOK, Tokens!Init, Phase
<1>2. TypeInv /\ [Next]_laneVars => TypeInv'
  BY LaneTypeStep
<1>3. TypeInv => TypeOK
  BY DEF TypeInv
<1> QED
  BY <1>1, <1>2, <1>3, PTL DEF Spec

-----------------------------------------------------------------------------
(***************************************************************************)
(* What the safety proof needs to know of sets of records and of keys.     *)
(***************************************************************************)

\* Covering is reflexive and transitive, and a replay covers what it replays.
LEMMA CoversSubset ==
    ASSUME NEW S, NEW T, T \subseteq S
    PROVE  Covers(S, T)
BY DEF Covers

LEMMA CoversTrans ==
    ASSUME NEW S, NEW T, NEW U, Covers(S, T), Covers(T, U)
    PROVE  Covers(S, U)
<1> SUFFICES ASSUME NEW r \in U  PROVE r \in S \/ Killed(S, r)
  BY DEF Covers
<1>1. CASE r \in T
  BY <1>1 DEF Covers
<1>2. CASE Killed(T, r)
  <2>1. PICK k \in T : <<k, r>> \in Kills
    BY <1>2 DEF Killed
  <2>2. ~Killed(S, k)
    BY <2>1, LaneAssumption DEF Killed
  <2>3. k \in S
    BY <2>1, <2>2 DEF Covers
  <2> QED
    BY <2>1, <2>3 DEF Killed
<1> QED
  BY <1>1, <1>2 DEF Covers

LEMMA CoversReplay ==
    ASSUME NEW S
    PROVE  Covers(Replay(S), S)
<1> SUFFICES ASSUME NEW r \in S, Killed(S, r)  PROVE Killed(Replay(S), r)
  BY DEF Covers, Replay
<1>1. PICK k \in S : <<k, r>> \in Kills
  BY DEF Killed
<1>2. ~Killed(S, k)
  BY <1>1, LaneAssumption DEF Killed
<1> QED
  BY <1>1, <1>2 DEF Killed, Replay

LEMMA CoversUnion ==
    ASSUME NEW S, NEW T, NEW U, Covers(S, T), Covers(S, U)
    PROVE  Covers(S, T \cup U)
BY DEF Covers

\* A bounded set of numbers that is not empty has a greatest element.
LEMMA MaxExists ==
    ASSUME NEW T \in SUBSET Nat, T # {}, NEW b \in Nat, \A t \in T : t <= b
    PROVE  \E m \in T : \A t \in T : t <= m
<1> DEFINE D == {b - t : t \in T}
           Less == {p \in Nat \X Nat : p[1] < p[2]}
<1> HIDE DEF Less
<1>1. D \subseteq Nat /\ D # {}
  <2>1. \A t \in T : t \in Nat /\ b - t \in Nat
    OBVIOUS
  <2>2. PICK t \in T : TRUE
    OBVIOUS
  <2>3. b - t \in D
    OBVIOUS
  <2> QED
    BY <2>1, <2>3
<1>2. \A t \in T : b - t \in D
  OBVIOUS
<1>3. \A d \in D : \E t \in T : d = b - t
  OBVIOUS
<1> HIDE DEF D
<1>4. IsWellFoundedOn(Less, Nat)
  BY NatLessThanWellFounded DEF OpToRel, Less
<1>5. PICK d \in D : \A c \in D : <<c, d>> \notin Less
  BY <1>1, <1>4, WFMin, Zenon
<1>6. ASSUME NEW c \in D  PROVE d <= c
  <2>1. c \in Nat /\ d \in Nat
    BY <1>1
  <2>2. ~(c < d)
    BY <2>1, <1>5 DEF Less
  <2> QED
    BY <2>1, <2>2
<1>7. PICK m \in T : d = b - m
  BY <1>3
<1> QED
  BY <1>2, <1>6, <1>7

\* An epoch with an object that starts at zero has a head.
LEMMA HeadExists ==
    ASSUME NEW K \in SUBSET Key, \A k \in K : k.hi <= MaxSeq,
           NEW w \in K, HeadKey(w)
    PROVE  \E head \in K : IsHead(K, head) /\ head.epoch = w.epoch
<1> DEFINE Rank(k) == 2 * k.hi + k.level
           T == {Rank(k) : k \in Heads(K, w.epoch)}
<1>1. \A k \in Heads(K, w.epoch) : /\ k \in K /\ k \in Key
                                   /\ Rank(k) \in Nat /\ Rank(k) <= 2 * MaxSeq + 1
  BY LaneAssumption DEF Heads, Key
<1>2. w \in Heads(K, w.epoch)
  BY DEF Heads, HeadKey
<1>3. T \subseteq Nat /\ T # {} /\ \A t \in T : t <= 2 * MaxSeq + 1
  BY <1>1, <1>2
<1>4. 2 * MaxSeq + 1 \in Nat
  BY LaneAssumption
<1>5. PICK m \in T : \A t \in T : t <= m
  <2> HIDE DEF T
  <2> QED
    BY <1>3, <1>4, MaxExists
<1>6. PICK head \in Heads(K, w.epoch) : m = Rank(head)
  OBVIOUS
<1>7. \A j \in Heads(K, w.epoch) : Rank(j) <= Rank(head)
  BY <1>5, <1>6
<1>8. \A j \in Heads(K, w.epoch) :
         j.hi < head.hi \/ (j.hi = head.hi /\ j.level <= head.level)
  BY <1>1, <1>7 DEF Key
<1>9. head.epoch = w.epoch /\ head \in K
  BY DEF Heads
<1> QED
  BY <1>8, <1>9 DEF IsHead
=============================================================================
