----------------------------- MODULE LaneSafety -----------------------------
(***************************************************************************)
(* Whatever a lane has acknowledged survives: LaneInv is inductive, and it *)
(* implies AckedSurvives.                                                  *)
(***************************************************************************)
EXTENDS LaneProofs

-----------------------------------------------------------------------------
(***************************************************************************)
(* What the invariant says of one state.                                   *)
(***************************************************************************)

\* No lineage is newer than the newest.
LEMMA NewestHead ==
    ASSUME TypeInv, TokensInv, NEW w \in Objects, HeadKey(w)
    PROVE  \E v \in Objects : HeadKey(v) /\ w.epoch <= v.epoch /\ ~Superseded(v.epoch)
<1> DEFINE T == {k.epoch : k \in {j \in Objects : HeadKey(j)}}
<1>1. top \in Nat /\ \A k \in Objects : k.epoch \in Nat /\ k.epoch <= top
  BY DEF TypeInv, TypeOK, TokensInv, Objects, Key
<1>2. T \in SUBSET Nat /\ T # {} /\ \A t \in T : t <= top
  BY <1>1
<1>3. PICK m \in T : \A t \in T : t <= m
  <2> HIDE DEF T
  <2> QED
    BY <1>1, <1>2, MaxExists
<1>4. PICK v \in Objects : HeadKey(v) /\ v.epoch = m
  BY <1>3
<1>5. \A k \in Objects : HeadKey(k) => k.epoch <= v.epoch
  BY <1>3, <1>4
<1> QED
  BY <1>1, <1>4, <1>5 DEF Superseded

\* Whoever listed a key of a chain: its epoch has a head.
LEMMA ChainHasHead ==
    ASSUME NEW K, NEW k, InChain(K, k)
    PROVE  \E w \in K : w.epoch = k.epoch /\ HeadKey(w)
BY DEF InChain, IsHead, Follows, Heads, HeadKey

\* The chain of the newest lineage is the one that a reader selects.
LEMMA ChainSelected ==
    ASSUME TypeInv, NEW e \in Nat, ~Superseded(e), NEW hint \in Nat, e < hint
    PROVE  EpochChain(e) \subseteq SelectChain(Objects, hint)
BY DEF EpochChain, SelectChain, Superseded, Heads, HeadKey

LEMMA SelectedIsNewest ==
    ASSUME TypeInv, LineageInv, NEW hint \in Nat,
           \A j \in Objects : HeadKey(j) => j.epoch < hint,
           NEW k \in SelectChain(Objects, hint)
    PROVE  ~Superseded(k.epoch) /\ AckedRecords \subseteq AckedUpTo(k.epoch)
<1>1. ~Superseded(k.epoch)
  BY DEF SelectChain, Superseded, Heads, HeadKey
<1>2. ASSUME NEW a \in acked  PROVE a[1] <= k.epoch
  <2>1. PICK w \in Objects : a[1] <= w.epoch /\ HeadKey(w)
    BY DEF LineageInv
  <2>2. w.epoch <= k.epoch
    BY <1>1, <2>1 DEF Superseded, SelectChain, TypeInv, TypeOK, Objects, Key
  <2> QED
    BY <2>1, <2>2 DEF TypeInv, TypeOK, Objects, Key, SelectChain
<1>3. AckedRecords \subseteq Record
  BY DEF AckedRecords, TypeInv, TypeOK
<1> QED
  BY <1>1, <1>2, <1>3 DEF AckedRecords, AckedUpTo

\* If all lineages are older than hint, what is selected below it is complete.
LEMMA SelectedIsComplete ==
    ASSUME TypeInv, TokensInv, LineageInv, CompleteInv, NEW hint \in Nat,
           \A j \in Objects : HeadKey(j) => j.epoch < hint
    PROVE  Covers(Contents(SelectChain(Objects, hint)), AckedRecords)
<1>1. CASE acked = {}
  BY <1>1 DEF AckedRecords, Covers
<1>2. CASE acked # {}
  <2>1. PICK w \in Objects : HeadKey(w)
    BY <1>2 DEF LineageInv
  <2>2. PICK v \in Objects : HeadKey(v) /\ ~Superseded(v.epoch)
    BY <2>1, NewestHead
  <2>3. v.epoch \in Nat /\ v.epoch < hint
    BY <2>2 DEF TypeInv, TypeOK, Objects, Key
  <2>4. EpochChain(v.epoch) \subseteq SelectChain(Objects, hint)
    BY <2>2, <2>3, ChainSelected
  <2>5. Covers(Contents(EpochChain(v.epoch)), AckedUpTo(v.epoch))
    BY <2>2 DEF CompleteInv
  <2>6. Contents(EpochChain(v.epoch)) \subseteq Contents(SelectChain(Objects, hint))
    BY <2>4 DEF Contents
  <2>7. AckedRecords \subseteq AckedUpTo(v.epoch)
    <3>1. ASSUME NEW a \in acked  PROVE a[1] <= v.epoch
      <4>1. PICK u \in Objects : a[1] <= u.epoch /\ HeadKey(u)
        BY DEF LineageInv
      <4> QED
        BY <4>1, <2>2, <2>3 DEF Superseded, TypeInv, TypeOK, Objects, Key
    <3> QED
      BY <3>1 DEF AckedRecords, AckedUpTo, TypeInv, TypeOK
  <2> QED
    BY <2>5, <2>6, <2>7, CoversSubset, CoversTrans
<1> QED
  BY <1>1, <1>2

LEMMA InvImpliesSafety ==
    ASSUME TypeInv, LaneInv
    PROVE  AckedSurvives
<1> USE DEF LaneInv
<1>1. \A j \in Objects : j.epoch \in Nat /\ 1 <= j.epoch /\ j.epoch <= top
  BY DEF TypeInv, TypeOK, TokensInv, Objects, Key
<1>2. Covers(Restorable, AckedRecords)
  <2>1. top + 1 \in Nat /\ \A j \in Objects : HeadKey(j) => j.epoch < top + 1
    BY <1>1 DEF TypeInv, TypeOK
  <2> QED
    BY <2>1, SelectedIsComplete DEF Restorable, Objects
<1>3. ASSUME NEW h \in Handle, Named(h), phase[h] \notin {"off", "claimed", "reading"}
      PROVE  Covers(own[h], AckedRecords)
  <2>1. AckedRecords \subseteq AckedUpTo(top)
    BY DEF AckedRecords, AckedUpTo, TokensInv, TypeInv, TypeOK
  <2>2. CASE epoch[h] = 0
    <3>1. acked = {}
      BY <1>1, <1>3, <2>2 DEF LineageInv, Named, TypeInv, TypeOK
    <3> QED
      BY <3>1 DEF AckedRecords, Covers
  <2>3. CASE epoch[h] # 0
    <3>1. phase[h] \in Phase /\ phase[h] # "gone"
      BY <2>3 DEF TokensInv, TypeInv, TypeOK
    <3>2. Up(h)
      BY <1>3, <2>3, <3>1 DEF Up, Phase
    <3>3. ~Superseded(epoch[h])
      BY <1>1, <1>3 DEF Superseded, Named, TypeInv, TypeOK
    <3>4. Covers(own[h], AckedUpTo(top))
      BY <1>3, <3>2, <3>3 DEF WriterInv, Named
    <3> QED
      BY <2>1, <3>4, CoversSubset, CoversTrans
  <2> QED
    BY <2>2, <2>3
<1> QED
  BY <1>2, <1>3 DEF AckedSurvives

-----------------------------------------------------------------------------
(***************************************************************************)
(* Steps that leave the bucket and the acknowledgements alone.             *)
(***************************************************************************)

\* The local state of g.
Local(g) == <<phase[g], epoch[g], own[g], staged[g], nextSeq[g], based[g], plan[g]>>

LEMMA SameLineages ==
    ASSUME bucket' = bucket, acked' = acked
    PROVE  /\ Objects' = Objects
           /\ \A e : Superseded(e)' <=> Superseded(e)
           /\ \A e : EpochChain(e)' = EpochChain(e)
           /\ \A e : AckedUpTo(e)' = AckedUpTo(e)
           /\ \A e, n : Present(e, n)' <=> Present(e, n)
           /\ \A K : Contents(K)' = Contents(K)
BY DEF Objects, Superseded, EpochChain, AckedUpTo, Present, Contents

\* A step of h alone, in which h starts to write under no epoch in use and
\* gc() lists nothing, keeps what is said of the lineages and of all other handles.
LEMMA QuietStep ==
    ASSUME TypeInv, LaneInv, NEW h \in Handle,
           bucket' = bucket, acked' = acked,
           \A g \in Handle \ {h} : Local(g)' = Local(g),
           \A g \in Handle : doomed'[g] \subseteq doomed[g],
           Up(h)' => \/ Up(h) /\ epoch'[h] = epoch[h] /\ own'[h] = own[h]
                     \/ \A k \in Objects : k.epoch # epoch'[h]
    PROVE  /\ DoomedInv' /\ LineageInv' /\ CompleteInv'
           /\ \A g \in Handle \ {h} : WakingInv(g)' /\ ReadingInv(g)' /\ WriterInv(g)'
<1> USE DEF LaneInv
<1>1. LineageInv'
  BY SameLineages DEF LineageInv
<1>2. CompleteInv'
  BY SameLineages DEF CompleteInv
<1>3. DoomedInv'
  BY SameLineages DEF DoomedInv
<1>4. ASSUME NEW g \in Handle \ {h}
      PROVE  WakingInv(g)' /\ ReadingInv(g)' /\ WriterInv(g)'
  <2> USE DEF Local
  <2>1. WakingInv(g)'
    BY SameLineages DEF WakingInv, Waking
  <2>2. WriterInv(g)'
    <3>1. Up(g)' <=> Up(g)
      BY DEF Up
    <3>2. Body(g)' = Body(g)
      BY DEF Body
    <3>3. CASE Up(g)
      <4>1. Superseded(epoch[g])' <=> Superseded(epoch[g])
        BY SameLineages DEF Superseded
      <4>2. Covers(own[g], AckedUpTo(epoch[g]))' <=> Covers(own[g], AckedUpTo(epoch[g]))
        BY DEF AckedUpTo, Covers, Killed
      <4>3. \A n : Present(epoch[g], n)' <=> Present(epoch[g], n)
        BY DEF Present, Objects
      <4> QED
        BY <3>2, <3>3, <4>1, <4>2, <4>3 DEF WriterInv, Objects
    <3> QED
      BY <3>1, <3>3 DEF WriterInv
  <2>3. ReadingInv(g)'
    <3> SUFFICES ASSUME phase[g] = "reading", ~Superseded(epoch[g])
                 PROVE  ReadingInv(g)'
      BY SameLineages DEF ReadingInv
    <3>1. \A f \in Handle :
             Up(f)' => \/ Up(f) /\ epoch'[f] = epoch[f] /\ own'[f] = own[f]
                       \/ \A k \in Objects : k.epoch # epoch'[f]
      BY DEF Up
    <3> QED
      <4>1. /\ plan[g] \subseteq Objects
            /\ \A k \in plan[g] : k.epoch < epoch[g]
            /\ Covers(Contents(plan[g]), AckedUpTo(epoch[g]))
            /\ \A f \in Handle : plan[g] \cap doomed[f] = {}
            /\ \A f \in Handle, k \in plan[g] :
                  Up(f) /\ epoch[f] = k.epoch => Covers(own[f], AckedUpTo(epoch[g]))
        BY DEF ReadingInv
      <4>2. plan'[g] = plan[g] /\ epoch'[g] = epoch[g] /\ Objects' = Objects
        BY SameLineages
      <4>3. Covers(Contents(plan[g])', AckedUpTo(epoch[g])')
        BY <4>1, SameLineages
      <4>4. \A f \in Handle : plan[g] \cap doomed'[f] = {}
        BY <4>1
      <4>5. \A f \in Handle, k \in plan[g] :
               Up(f)' /\ epoch'[f] = k.epoch => Covers(own'[f], AckedUpTo(epoch[g])')
        BY <3>1, <4>1, SameLineages
      <4> QED
        BY <4>1, <4>2, <4>3, <4>4, <4>5 DEF ReadingInv, Contents, AckedUpTo
  <2> QED
    BY <2>1, <2>2, <2>3
<1> QED
  BY <1>1, <1>2, <1>3, <1>4

\* A step of h that claims nothing, writes nothing and reads nothing: h stays
\* as it was, with more to write perhaps, or gives something up.
Quiet(h) ==
    /\ UNCHANGED <<top, issued, bucket, acked>>
    /\ \A g \in Handle \ {h} : Local(g)' = Local(g)
    /\ \A g \in Handle : doomed'[g] \subseteq doomed[g]
    /\ lagging' \subseteq lagging
    /\ phase'[h] \in {"off", "claimed", "ready", "gone"}
    /\ epoch'[h] \in {epoch[h], 0}
    /\ phase'[h] = "claimed" => epoch'[h] # 0
    /\ phase'[h] = "gone" => epoch'[h] = 0
    /\ nextSeq'[h] \in {nextSeq[h], 0}
    /\ phase'[h] = "ready" /\ epoch'[h] # 0 =>
          /\ Up(h) /\ staged[h] \subseteq staged'[h]
          /\ own'[h] = own[h] /\ nextSeq'[h] = nextSeq[h] /\ based'[h] = based[h]
    /\ phase'[h] \in {"off", "claimed"} /\ epoch'[h] # 0 =>
          Waking(h) /\ own'[h] = {} /\ nextSeq'[h] = 0 /\ ~based'[h]

LEMMA QuietInv ==
    ASSUME TypeInv, LaneInv, NEW h \in Handle, Quiet(h)
    PROVE  LaneInv'
<1> USE DEF LaneInv, Quiet
<1>1. Up(h)' => /\ Up(h) /\ epoch'[h] = epoch[h] /\ own'[h] = own[h]
                /\ phase'[h] = "ready" /\ staged[h] \subseteq staged'[h]
                /\ nextSeq'[h] = nextSeq[h] /\ based'[h] = based[h]
  BY DEF Up
<1>2. /\ DoomedInv' /\ LineageInv' /\ CompleteInv'
      /\ \A g \in Handle \ {h} : WakingInv(g)' /\ ReadingInv(g)' /\ WriterInv(g)'
  BY <1>1, QuietStep
<1>3. TokensInv'
  <2>1. \A g \in Handle \ {h} : epoch'[g] = epoch[g] /\ phase'[g] = phase[g]
    BY DEF Local
  <2> QED
    BY <2>1 DEF TokensInv, Objects
<1>4. SizeInv'
  <2>1. \A g \in Handle \ {h} : nextSeq'[g] = nextSeq[g] /\ phase'[g] = phase[g]
    BY DEF Local
  <2> QED
    BY <2>1, LaneAssumption DEF SizeInv, Objects
<1>5. lagging' = {}
  OBVIOUS
<1>6. WakingInv(h)'
  BY DEF WakingInv, Waking, Objects
<1>7. ReadingInv(h)'
  BY DEF ReadingInv
<1>8. WriterInv(h)'
  <2> SUFFICES ASSUME Up(h)'  PROVE WriterInv(h)'
    BY DEF WriterInv
  <2>1. Up(h) /\ WriterInv(h)
    BY <1>1
  <2>2. Body(h) \subseteq Body(h)'
    BY <1>1 DEF Body
  <2>3. Superseded(epoch[h])' <=> Superseded(epoch[h])
    BY <1>1 DEF Superseded, Objects
  <2>4. Covers(own[h], AckedUpTo(epoch[h]))' <=> Covers(own[h], AckedUpTo(epoch[h]))
    BY <1>1 DEF AckedUpTo, Covers, Killed
  <2>5. \A n : Present(epoch[h], n)' <=> Present(epoch[h], n)
    BY <1>1 DEF Present, Objects
  <2> QED
    BY <1>1, <2>1, <2>2, <2>3, <2>4, <2>5 DEF WriterInv, Objects
<1> QED
  BY <1>2, <1>3, <1>4, <1>5, <1>6, <1>7, <1>8

\* All the steps that are quiet.
LEMMA QuietActions ==
    ASSUME TypeInv, LaneInv, ~EarlyWakes, NEW h \in Handle,
           \/ Rejoin(h) \/ ReclaimFails(h) \/ WakeFails(h)
           \/ \E r \in Record : Stage(h, r)
           \/ FlushFails(h) \/ CompactEnds(h)
           \/ Renew(h) \/ RenewReplyLost(h) \/ RenewFenced(h)
           \/ Deactivate(h) \/ ReleaseReplyLost(h) \/ Crash(h)
    PROVE  Quiet(h)
<1> USE DEF LaneInv, TypeInv, TypeOK, TokensInv, Quiet, Local, ownerVars, localVars
<1>1. CASE Rejoin(h)
  BY <1>1 DEF Rejoin, Reset, Waking
<1>2. CASE ReclaimFails(h)
  BY <1>2 DEF ReclaimFails, Reset, Active
<1>3. CASE WakeFails(h)
  BY <1>3 DEF WakeFails, WakingInv, Waking
<1>4. ASSUME NEW r \in Record, Stage(h, r)  PROVE Quiet(h)
  BY <1>4 DEF Stage, Active, Up
<1>5. CASE FlushFails(h)
  BY <1>5 DEF FlushFails, Up
<1>6. CASE CompactEnds(h)
  BY <1>6 DEF CompactEnds, Up
<1>7. CASE Renew(h)
  BY <1>7 DEF Renew, Active, Up
<1>8. CASE RenewReplyLost(h)
  BY <1>8 DEF RenewReplyLost, Active, Up
<1>9. CASE RenewFenced(h)
  BY <1>9 DEF RenewFenced, Active, Up
<1>10. CASE Deactivate(h)
  BY <1>10 DEF Deactivate, Reset
<1>11. CASE ReleaseReplyLost(h)
  BY <1>11 DEF ReleaseReplyLost, Active, Up
<1>12. CASE Crash(h)
  BY <1>12 DEF Crash, Reset
<1> QED
  BY <1>1, <1>2, <1>3, <1>4, <1>5, <1>6, <1>7, <1>8, <1>9, <1>10, <1>11, <1>12

-----------------------------------------------------------------------------
(***************************************************************************)
(* Waking up.                                                              *)
(***************************************************************************)

\* A claim is at an epoch that nothing has been written under.
LEMMA ClaimLaneInv ==
    ASSUME TypeInv, LaneInv, NEW h \in Handle, ClaimLane(h)
    PROVE  LaneInv'
<1> USE DEF LaneInv, ClaimLane, Reset, ownerVars, localVars, Tokens!Issue
<1> USE DEF TypeInv, TypeOK
<1>1. /\ DoomedInv' /\ LineageInv' /\ CompleteInv'
      /\ \A g \in Handle \ {h} : WakingInv(g)' /\ ReadingInv(g)' /\ WriterInv(g)'
  <2>1. ~Up(h)'
    BY DEF Up
  <2>2. \A g \in Handle \ {h} : Local(g)' = Local(g)
    BY DEF Local
  <2> QED
    BY <2>1, <2>2, QuietStep
<1>2. TokensInv'
  <2>1. /\ top' = top + 1 /\ issued' = issued \cup {<<top + 1, h>>}
        /\ epoch' = [epoch EXCEPT ![h] = top + 1]
        /\ phase' = [phase EXCEPT ![h] = "claimed"]
        /\ Objects' = Objects /\ acked' = acked
    BY DEF Objects
  <2>2. \A g \in issued : g[1] \in Nat /\ 1 <= g[1] /\ g[1] <= top
    BY DEF TokensInv
  <2>3. \A g \in issued' : 1 <= g[1] /\ g[1] <= top'
    BY <2>1, <2>2
  <2>4. \A g1, g2 \in issued' : g1[1] = g2[1] => g1[2] = g2[2]
    BY <2>1, <2>2 DEF TokensInv
  <2>5. \A g \in Handle : epoch'[g] # 0 => <<epoch'[g], g>> \in issued'
    BY <2>1 DEF TokensInv
  <2>6. \A k \in Objects' : 1 <= k.epoch /\ k.epoch <= top'
    BY <2>1 DEF TokensInv, Objects, Key
  <2>7. \A a \in acked' : a[1] <= top'
    BY <2>1 DEF TokensInv
  <2>8. \A g \in Handle :
           phase'[g] \in {"claimed", "reading", "put", "compacting", "folded"}
               => epoch'[g] # 0
    BY <2>1 DEF TokensInv
  <2>9. \A g \in Handle : phase'[g] = "gone" => epoch'[g] = 0
    BY <2>1 DEF TokensInv
  <2> QED
    BY <2>3, <2>4, <2>5, <2>6, <2>7, <2>8, <2>9 DEF TokensInv
<1>3. SizeInv' /\ lagging' = {}
  BY LaneAssumption DEF SizeInv, Objects
<1>4. WakingInv(h)'
  BY DEF WakingInv, Waking, Objects, TokensInv
<1>5. ReadingInv(h)' /\ WriterInv(h)'
  BY DEF ReadingInv, WriterInv, Up
<1> QED
  BY <1>1, <1>2, <1>3, <1>4, <1>5

\* A chain depends on the objects of its epoch and no others.
LEMMA ChainLocal ==
    ASSUME NEW K, NEW L, NEW k, InChain(K, k),
           \A j : j.epoch = k.epoch => (j \in K <=> j \in L)
    PROVE  InChain(L, k)
<1>1. Heads(K, k.epoch) = Heads(L, k.epoch)
  BY DEF Heads
<1>2. \A j : j.epoch = k.epoch /\ IsHead(K, j) => IsHead(L, j)
  BY <1>1 DEF IsHead
<1>3. Follows(K, k) => Follows(L, k)
  <2> SUFFICES ASSUME Follows(K, k)  PROVE Follows(L, k)
    OBVIOUS
  <2>1. PICK head \in K :
           /\ IsHead(K, head) /\ head.epoch = k.epoch /\ head.hi < k.hi
           /\ \A s \in (head.hi + 1)..k.hi : Segment(k.epoch, s) \in K
    BY DEF Follows
  <2>2. \A s \in (head.hi + 1)..k.hi : Segment(k.epoch, s) \in L
    BY <2>1 DEF Segment
  <2>3. head \in L /\ IsHead(L, head)
    BY <1>2, <2>1
  <2> QED
    BY <2>1, <2>2, <2>3 DEF Follows
<1> QED
  BY <1>2, <1>3 DEF InChain

\* The parts of the chain of an epoch are not what an L1 object covers.
LEMMA CoveredNotInChain ==
    ASSUME NEW K \in SUBSET Key, NEW k \in K, k.level = 0 \/ k.hi = 0,
           NEW w \in K, w.epoch = k.epoch, w.level = 1, w.hi > 0, k.hi <= w.hi
    PROVE  ~InChain(K, k)
<1>1. w \in Heads(K, k.epoch)
  BY DEF Heads
<1>2. ~IsHead(K, k)
  BY <1>1 DEF IsHead, Key
<1>3. ~Follows(K, k)
  BY <1>1 DEF Follows, IsHead, Key
<1> QED
  BY <1>2, <1>3 DEF InChain

\* The LIST of a wake finds the newest lineage whole, unless a newer one is
\* there already.
LEMMA ListLaneInv ==
    ASSUME TypeInv, LaneInv, NEW h \in Handle, ListLane(h)
    PROVE  LaneInv'
<1> USE DEF LaneInv, ListLane, ownerVars, localVars
<1> USE DEF TypeInv, TypeOK
<1>1. /\ DoomedInv' /\ LineageInv' /\ CompleteInv'
      /\ \A g \in Handle \ {h} : WakingInv(g)' /\ ReadingInv(g)' /\ WriterInv(g)'
  <2>1. ~Up(h)'
    BY DEF Up
  <2>2. \A g \in Handle \ {h} : Local(g)' = Local(g)
    BY DEF Local
  <2> QED
    BY <2>1, <2>2, QuietStep
<1>2. TokensInv' /\ SizeInv' /\ lagging' = {}
  BY DEF TokensInv, SizeInv, Objects
<1>3. WakingInv(h)' /\ WriterInv(h)'
  BY DEF WakingInv, Waking, WriterInv, Up, Objects, TokensInv
<1>4. ReadingInv(h)'
  <2> DEFINE e == epoch[h]
             chain == SelectChain(Objects, e)
  <2> SUFFICES ASSUME ~Superseded(e)  PROVE ReadingInv(h)'
    BY DEF ReadingInv, Superseded, Objects
  <2>1. e \in Nat /\ \A j \in Objects : HeadKey(j) => j.epoch < e
    <3>1. \A j \in Objects : j.epoch # e
      BY DEF WakingInv, Waking, TokensInv
    <3> QED
      BY <3>1 DEF Superseded, Objects, Key
  <2>2. plan'[h] = chain /\ epoch'[h] = e /\ phase'[h] = "reading"
    BY DEF Objects
  <2>3. chain \subseteq Objects /\ \A k \in chain : k.epoch < e /\ InChain(Objects, k)
    BY DEF SelectChain
  <2>4. AckedUpTo(e) \subseteq AckedRecords
    BY DEF AckedUpTo, AckedRecords
  <2>5. Covers(Contents(chain), AckedUpTo(e))
    <3>1. Covers(Contents(chain), AckedRecords)
      BY <2>1, SelectedIsComplete
    <3> QED
      BY <3>1, <2>4, CoversSubset, CoversTrans
  <2>6. \A k \in chain : ~Superseded(k.epoch) /\ AckedUpTo(e) \subseteq AckedUpTo(k.epoch)
    BY <2>1, <2>4, SelectedIsNewest
  <2>7. ASSUME NEW g \in Handle, NEW k \in chain  PROVE k \notin doomed[g]
    <3> SUFFICES ASSUME k \in doomed[g]  PROVE FALSE
      OBVIOUS
    <3>1. PICK w \in Objects : /\ k.level = 0 \/ k.hi = 0
                               /\ w.epoch = k.epoch /\ w.level = 1
                               /\ w.hi > 0 /\ k.hi <= w.hi
      BY <2>6 DEF DoomedInv
    <3> QED
      BY <3>1, <2>3, CoveredNotInChain DEF Objects
  <2>8. ASSUME NEW g \in Handle, NEW k \in chain, Up(g), epoch[g] = k.epoch
        PROVE  Covers(own[g], AckedUpTo(e))
    <3>1. Covers(own[g], AckedUpTo(k.epoch))
      BY <2>6, <2>8 DEF WriterInv
    <3> QED
      BY <3>1, <2>6, CoversSubset, CoversTrans
  <2>9. \A g \in Handle : (Up(g)' <=> Up(g)) \/ g = h
    BY DEF Up
  <2>10. ~Up(h)'
    BY DEF Up
  <2> HIDE DEF chain, e
  <2>11. /\ Contents(plan[h])' = Contents(chain) /\ AckedUpTo(epoch[h])' = AckedUpTo(e)
         /\ Objects' = Objects /\ doomed' = doomed /\ own' = own /\ epoch' = epoch
    BY <2>2 DEF Contents, AckedUpTo, Objects
  <2>12. Covers(Contents(plan[h])', AckedUpTo(epoch[h])')
    BY <2>5, <2>11
  <2>13. \A g \in Handle, k \in plan'[h] :
            Up(g)' /\ epoch'[g] = k.epoch => Covers(own'[g], AckedUpTo(epoch[h])')
    BY <2>2, <2>8, <2>9, <2>10, <2>11
  <2>14. \A g \in Handle : plan'[h] \cap doomed'[g] = {}
    BY <2>2, <2>7, <2>11
  <2> QED
    BY <2>2, <2>3, <2>11, <2>12, <2>13, <2>14 DEF ReadingInv, Contents, AckedUpTo
<1> QED
  BY <1>1, <1>2, <1>3, <1>4

\* The GETs of a wake end it with all that the lane has acknowledged.
LEMMA FetchLaneInv ==
    ASSUME TypeInv, TypeInv', LaneInv, NEW h \in Handle, FetchLane(h)
    PROVE  LaneInv'
<1> USE DEF LaneInv, FetchLane, ownerVars, localVars
<1> USE DEF TypeInv, TypeOK
<1>1. Waking(h) /\ \A k \in Objects : k.epoch # epoch[h]
  BY DEF Waking, WakingInv, TokensInv
<1>2. /\ DoomedInv' /\ LineageInv' /\ CompleteInv'
      /\ \A g \in Handle \ {h} : WakingInv(g)' /\ ReadingInv(g)' /\ WriterInv(g)'
  <2>1. \A g \in Handle \ {h} : Local(g)' = Local(g)
    BY DEF Local
  <2> QED
    BY <1>1, <2>1, QuietStep
<1>3. TokensInv' /\ SizeInv' /\ lagging' = {}
  BY DEF TokensInv, SizeInv, Objects
<1>4. WakingInv(h)' /\ ReadingInv(h)'
  BY DEF WakingInv, Waking, ReadingInv
<1>5. WriterInv(h)'
  <2>1. /\ nextSeq'[h] = 0 /\ ~based'[h] /\ phase'[h] = "ready"
        /\ epoch'[h] = epoch[h] /\ Objects' = Objects
    BY <1>1 DEF WakingInv, Objects
  <2>2. Segment(epoch[h], 0) \notin Objects
    BY <1>1 DEF Segment
  <2>3. CASE Superseded(epoch[h])
    <3>1. Superseded(epoch[h])'
      BY <2>1, <2>3 DEF Superseded
    <3> QED
      BY <1>1, <2>1, <2>2, <3>1 DEF WriterInv
  <2>4. CASE ~Superseded(epoch[h])
    <3>1. plan[h] \subseteq Objects /\ Covers(Contents(plan[h]), AckedUpTo(epoch[h]))
      BY <2>4 DEF ReadingInv
    <3>2. BeforeHole(plan[h], DOMAIN bucket) = plan[h]
      BY <3>1 DEF BeforeHole, Objects
    <3>3. Covers(own'[h], AckedUpTo(epoch[h]))
      BY <3>1, <3>2, CoversReplay, CoversTrans
    <3>4. AckedUpTo(epoch[h])' = AckedUpTo(epoch[h])
      BY DEF AckedUpTo
    <3>5. 0..(nextSeq'[h] - 1) = {}
      BY <2>1
    <3> QED
      BY <1>1, <2>1, <2>2, <3>3, <3>4, <3>5 DEF WriterInv, AckedUpTo
  <2> QED
    BY <2>3, <2>4
<1> QED
  BY <1>2, <1>3, <1>4, <1>5

-----------------------------------------------------------------------------
(***************************************************************************)
(* gc()                                                                    *)
(***************************************************************************)

\* What gc() lists is covered by an L1 object or belongs to an old lineage.
LEMMA GcListInv ==
    ASSUME TypeInv, LaneInv, ~OverlappingGc, NEW h \in Handle, GcList(h)
    PROVE  LaneInv'
<1> USE DEF LaneInv, GcList, ownerVars, localVars
<1>1. TokensInv' /\ SizeInv' /\ lagging' = {} /\ LineageInv' /\ CompleteInv'
  BY SameLineages DEF TokensInv, SizeInv, LineageInv, CompleteInv
<1>2. ASSUME NEW g \in Handle
      PROVE  WakingInv(g)' /\ ReadingInv(g)' /\ WriterInv(g)'
  <2>1. WakingInv(g)'
    BY DEF WakingInv, Waking, Objects
  <2>2. ReadingInv(g)'
    BY DEF ReadingInv
  <2>3. WriterInv(g)'
    BY DEF WriterInv, Up, Body, Superseded, Covers, Killed, AckedUpTo, Present, Objects
  <2> QED
    BY <2>1, <2>2, <2>3
<1>3. DoomedInv'
  <2> SUFFICES ASSUME NEW g \in Handle, NEW k \in doomed'[g]
               PROVE  \/ Superseded(k.epoch)
                      \/ /\ k.level = 0 \/ k.hi = 0
                         /\ \E w \in Objects : /\ w.epoch = k.epoch /\ w.level = 1
                                               /\ w.hi > 0 /\ k.hi <= w.hi
    BY SameLineages DEF DoomedInv
  <2>1. CASE k \in doomed[g]
    BY <2>1 DEF DoomedInv
  <2>2. CASE k \in Doomed(Objects, KeepEpochs)
    <3>1. CASE Cardinality(Newer(Objects, k.epoch)) < KeepEpochs
      BY <2>2, <3>1 DEF Doomed
    <3>2. CASE ~(Cardinality(Newer(Objects, k.epoch)) < KeepEpochs)
      <4>1. Newer(Objects, k.epoch) # {}
        BY <3>2, FS_EmptySet, LaneAssumption
      <4>2. PICK j \in Objects : j.epoch > k.epoch
        BY <4>1 DEF Newer
      <4>3. PICK w \in Objects : HeadKey(w) /\ w.epoch >= j.epoch
        BY DEF LineageInv, Superseded, TypeInv, TypeOK, Objects, Key
      <4>4. k \in Objects
        BY <2>2 DEF Doomed
      <4>5. w.epoch > k.epoch
        BY <4>2, <4>3, <4>4 DEF TypeInv, TypeOK, Objects, Key
      <4> QED
        BY <4>3, <4>5 DEF Superseded
    <3> QED
      BY <3>1, <3>2
  <2> QED
    BY <2>1, <2>2 DEF TypeInv, TypeOK, Objects
<1> QED
  BY <1>1, <1>2, <1>3

\* Deleting what gc() listed leaves the newest lineage whole and every other
\* one superseded.
LEMMA GcDeleteInv ==
    ASSUME TypeInv, LaneInv, NEW h \in Handle, NEW k0 \in doomed[h], GcDelete(h, k0)
    PROVE  LaneInv'
<1> USE DEF LaneInv, ownerVars, localVars
<1>1. /\ Objects' = Objects \ {k0}
      /\ \A k \in Objects' : bucket'[k] = bucket[k]
      /\ \A g \in Handle : Local(g)' = Local(g) /\ doomed'[g] \subseteq doomed[g]
      /\ UNCHANGED <<top, issued, holder, phase, epoch, own, staged, nextSeq,
                    based, plan, lagging, acked>>
  BY DEF GcDelete, Objects, Local, TypeInv, TypeOK
<1>2. Objects \subseteq Key /\ k0 \in Key
  BY DEF TypeInv, TypeOK, Objects
<1>3. \/ Superseded(k0.epoch)
      \/ /\ k0.level = 0 \/ k0.hi = 0
         /\ \E w \in Objects' : /\ w.epoch = k0.epoch /\ w.level = 1
                                /\ w.hi > 0 /\ k0.hi <= w.hi
  BY <1>1, <1>2 DEF DoomedInv, Key
\* Every lineage has a head left, or a newer one has.
<1>4. ASSUME NEW w \in Objects, HeadKey(w)
      PROVE  \E v \in Objects' : HeadKey(v) /\ v.epoch >= w.epoch
  <2>1. PICK v \in Objects : HeadKey(v) /\ v.epoch >= w.epoch /\ ~Superseded(v.epoch)
    BY <1>2, <1>4, NewestHead DEF Key
  <2>2. CASE v # k0
    BY <1>1, <2>1, <2>2
  <2>3. CASE v = k0
    BY <1>3, <2>1, <2>3 DEF HeadKey
  <2> QED
    BY <2>2, <2>3
<1>5. \A e \in Nat : Superseded(e)' <=> Superseded(e)
  <2> SUFFICES ASSUME NEW e \in Nat  PROVE Superseded(e)' <=> Superseded(e)
    OBVIOUS
  <2>1. Superseded(e)' => Superseded(e)
    BY <1>1 DEF Superseded
  <2>2. ASSUME Superseded(e)  PROVE Superseded(e)'
    <3>1. PICK w \in Objects : w.epoch > e /\ HeadKey(w)
      BY <2>2 DEF Superseded
    <3>2. PICK v \in Objects' : HeadKey(v) /\ v.epoch >= w.epoch
      BY <1>4, <3>1
    <3>3. v.epoch > e
      BY <1>1, <1>2, <3>1, <3>2 DEF Key
    <3> QED
      BY <3>2, <3>3 DEF Superseded
  <2> QED
    BY <2>1, <2>2
<1>6. \A e : AckedUpTo(e)' = AckedUpTo(e)
  BY <1>1 DEF AckedUpTo
<1>7. TokensInv' /\ SizeInv' /\ lagging' = {}
  BY <1>1 DEF TokensInv, SizeInv
<1>8. DoomedInv'
  <2> SUFFICES ASSUME NEW g \in Handle, NEW k \in doomed[g], ~Superseded(k.epoch)
               PROVE  /\ k.level = 0 \/ k.hi = 0
                      /\ \E w \in Objects' : /\ w.epoch = k.epoch /\ w.level = 1
                                             /\ w.hi > 0 /\ k.hi <= w.hi
    BY <1>1, <1>5 DEF DoomedInv, TypeInv, TypeOK, Key
  <2>1. PICK w \in Objects : /\ k.level = 0 \/ k.hi = 0
                             /\ w.epoch = k.epoch /\ w.level = 1
                             /\ w.hi > 0 /\ k.hi <= w.hi
    BY DEF DoomedInv
  <2>2. w # k0
    BY <1>2, <1>3, <2>1 DEF Key
  <2> QED
    BY <1>1, <2>1, <2>2
<1>9. LineageInv'
  <2>1. ASSUME NEW k \in Objects'
        PROVE  Superseded(k.epoch)' \/ \E w \in Objects' : w.epoch = k.epoch /\ HeadKey(w)
    <3>1. k \in Objects /\ k.epoch \in Nat
      BY <1>1, <1>2 DEF Key
    <3>2. CASE Superseded(k.epoch)
      BY <1>5, <3>1, <3>2
    <3>3. CASE ~Superseded(k.epoch)
      <4>1. PICK w \in Objects : w.epoch = k.epoch /\ HeadKey(w)
        BY <3>1, <3>3 DEF LineageInv
      <4>2. CASE w # k0
        BY <1>1, <4>1, <4>2
      <4>3. CASE w = k0
        BY <1>3, <3>3, <4>1, <4>3 DEF HeadKey
      <4> QED
        BY <4>2, <4>3
    <3> QED
      BY <3>2, <3>3
  <2>2. ASSUME NEW a \in acked
        PROVE  \E w \in Objects' : a[1] <= w.epoch /\ HeadKey(w)
    <3>1. PICK w \in Objects : a[1] <= w.epoch /\ HeadKey(w)
      BY DEF LineageInv
    <3>2. PICK v \in Objects' : HeadKey(v) /\ v.epoch >= w.epoch
      BY <1>4, <3>1
    <3> QED
      BY <1>1, <1>2, <3>1, <3>2 DEF Key, TypeInv, TypeOK
  <2> QED
    BY <1>1, <2>1, <2>2 DEF LineageInv
<1>10. CompleteInv'
  <2> SUFFICES ASSUME NEW k \in Objects', HeadKey(k), ~Superseded(k.epoch)
               PROVE  Covers(Contents(EpochChain(k.epoch))', AckedUpTo(k.epoch))
    BY <1>1, <1>2, <1>5, <1>6 DEF CompleteInv, Key
  <2>1. Covers(Contents(EpochChain(k.epoch)), AckedUpTo(k.epoch))
    BY <1>1 DEF CompleteInv
  <2>2. EpochChain(k.epoch) \subseteq EpochChain(k.epoch)'
    <3> SUFFICES ASSUME NEW j \in Objects, j.epoch = k.epoch, InChain(Objects, j)
                 PROVE  j \in Objects' /\ InChain(Objects', j)
      BY DEF EpochChain
    <3>1. CASE k0.epoch # k.epoch
      <4>1. \A i : i.epoch = j.epoch => (i \in Objects <=> i \in Objects')
        BY <1>1, <3>1
      <4> QED
        BY <4>1, ChainLocal
    <3>2. CASE k0.epoch = k.epoch
      <4>1. PICK w \in Objects' : /\ k0.level = 0 \/ k0.hi = 0
                                  /\ w.epoch = k0.epoch /\ w.level = 1
                                  /\ w.hi > 0 /\ k0.hi <= w.hi
        BY <1>3, <3>2
      <4>2. w \in Heads(Objects, k.epoch)
        BY <1>1, <3>2, <4>1 DEF Heads
      <4>3. CASE IsHead(Objects, j)
        <5>1. j # k0
          <6>1. w \in Key /\ w \in Objects
            BY <1>1, <1>2
          <6> QED
            BY <1>2, <3>2, <4>1, <6>1, CoveredNotInChain
        <5>2. j \in Objects' /\ Heads(Objects', j.epoch) \subseteq Heads(Objects, j.epoch)
          BY <1>1, <5>1 DEF Heads
        <5>3. j \in Heads(Objects', j.epoch)
          BY <4>3, <5>2 DEF IsHead, Heads
        <5> QED
          BY <4>3, <5>2, <5>3 DEF InChain, IsHead
      <4>4. CASE Follows(Objects, j)
        <5>1. PICK head \in Objects :
                 /\ IsHead(Objects, head) /\ head.epoch = j.epoch /\ head.hi < j.hi
                 /\ \A s \in (head.hi + 1)..j.hi : Segment(j.epoch, s) \in Objects
          BY <4>4 DEF Follows
        <5>2. k0.hi <= head.hi /\ head # k0
          BY <1>1, <1>2, <4>1, <4>2, <5>1 DEF IsHead, Key
        <5>3. head \in Objects' /\ IsHead(Objects', head)
          BY <1>1, <5>1, <5>2 DEF IsHead, Heads
        <5>4. \A s \in (head.hi + 1)..j.hi : Segment(j.epoch, s) \in Objects'
          BY <1>1, <1>2, <5>1, <5>2 DEF Segment, Key
        <5>5. j \in Objects'
          BY <1>1, <1>2, <5>1, <5>2 DEF Key
        <5> QED
          BY <4>4, <5>1, <5>3, <5>4, <5>5 DEF InChain, Follows
      <4> QED
        BY <4>3, <4>4 DEF InChain
    <3> QED
      BY <3>1, <3>2
  <2>3. Contents(EpochChain(k.epoch)) \subseteq Contents(EpochChain(k.epoch))'
    <3>1. \A j \in EpochChain(k.epoch) : j \in Objects'
      BY <2>2 DEF EpochChain
    <3> QED
      BY <1>1, <2>2, <3>1 DEF Contents
  <2> QED
    BY <2>1, <2>3, CoversSubset, CoversTrans
<1>11. ASSUME NEW g \in Handle
       PROVE  WakingInv(g)' /\ ReadingInv(g)' /\ WriterInv(g)'
  <2>1. WakingInv(g)'
    BY <1>1 DEF WakingInv, Waking
  <2>2. epoch[g] \in Nat /\ nextSeq[g] \in Nat
    BY DEF TypeInv, TypeOK
  <2>3. Superseded(epoch[g])' <=> Superseded(epoch[g])
    BY <1>1, <1>5, <2>2 DEF Superseded
  <2>4. ReadingInv(g)'
    <3> SUFFICES ASSUME phase[g] = "reading", ~Superseded(epoch[g])
                 PROVE  ReadingInv(g)'
      BY <1>1, <2>3 DEF ReadingInv
    <3>1. /\ plan[g] \subseteq Objects
          /\ \A k \in plan[g] : k.epoch < epoch[g]
          /\ Covers(Contents(plan[g]), AckedUpTo(epoch[g]))
          /\ \A f \in Handle : plan[g] \cap doomed[f] = {}
          /\ \A f \in Handle, k \in plan[g] :
                Up(f) /\ epoch[f] = k.epoch => Covers(own[f], AckedUpTo(epoch[g]))
      BY DEF ReadingInv
    <3>2. plan[g] \subseteq Objects'
      BY <1>1, <3>1
    <3>3. Contents(plan[g])' = Contents(plan[g]) /\ AckedUpTo(epoch[g])' = AckedUpTo(epoch[g])
      BY <1>1, <3>2 DEF Contents, AckedUpTo
    <3>4. Covers(Contents(plan[g])', AckedUpTo(epoch[g])')
      BY <3>1, <3>3
    <3>5. \A f \in Handle : plan'[g] \cap doomed'[f] = {}
      BY <1>1, <3>1
    <3>6. \A f \in Handle, k \in plan'[g] :
             Up(f)' /\ epoch'[f] = k.epoch => Covers(own'[f], AckedUpTo(epoch[g])')
      BY <1>1, <3>1, <3>3 DEF Up
    <3> QED
      BY <1>1, <3>1, <3>2, <3>4, <3>5, <3>6 DEF ReadingInv, Contents, AckedUpTo
  <2>5. WriterInv(g)'
    <3> SUFFICES ASSUME Up(g)  PROVE WriterInv(g)'
      BY <1>1 DEF WriterInv, Up
    <3> DEFINE next == Segment(epoch[g], nextSeq[g])
    <3>1. WriterInv(g)
      OBVIOUS
    <3>2. next \in Objects => next # k0 \/ Superseded(epoch[g])
      <4> SUFFICES ASSUME next \in Objects, next = k0, ~Superseded(epoch[g])  PROVE FALSE
        OBVIOUS
      <4>1. k0.epoch = epoch[g] /\ k0.hi = nextSeq[g]
        BY DEF Segment
      <4>2. PICK w \in Objects' : w.epoch = k0.epoch /\ w.level = 1 /\ k0.hi <= w.hi
        BY <1>3, <4>1
      <4>3. w.hi < nextSeq[g]
        BY <1>1, <3>1, <4>1, <4>2 DEF WriterInv
      <4> QED
        BY <1>1, <1>2, <2>2, <4>1, <4>2, <4>3 DEF Key
    <3>3. ASSUME ~Superseded(epoch[g]), NEW s \in 0..(nextSeq[g] - 1)
          PROVE  Present(epoch[g], s)'
      <4>1. CASE k0.epoch # epoch[g]
        <5>1. Present(epoch[g], s)
          BY <3>1, <3>3 DEF WriterInv
        <5> QED
          BY <1>1, <4>1, <5>1 DEF Present, Segment
      <4>2. CASE k0.epoch = epoch[g]
        <5>1. PICK w \in Objects' : /\ k0.level = 0 \/ k0.hi = 0
                                    /\ w.epoch = k0.epoch /\ w.level = 1
                                    /\ w.hi > 0 /\ k0.hi <= w.hi
          BY <1>3, <3>3, <4>2
        <5>2. Present(epoch[g], s)
          BY <3>1, <3>3 DEF WriterInv
        <5>3. CASE Segment(epoch[g], s) \in Objects
          BY <1>1, <4>2, <5>1, <5>3 DEF Present, Segment
        <5>4. CASE \E u \in Objects : u.epoch = epoch[g] /\ u.level = 1 /\ s <= u.hi
          BY <1>1, <1>2, <4>2, <5>1, <5>4 DEF Present, Key
        <5> QED
          BY <5>2, <5>3, <5>4 DEF Present
      <4> QED
        BY <4>1, <4>2
    <3>4. Body(g)' = Body(g)
      BY <1>1 DEF Body
    <3>5. Covers(own[g], AckedUpTo(epoch[g]))' <=> Covers(own[g], AckedUpTo(epoch[g]))
      BY <1>1 DEF Covers, Killed, AckedUpTo
    <3>6. next' = next /\ (next \in Objects' => next \in Objects /\ bucket'[next] = bucket[next])
      BY <1>1
    <3>7. based'[g] <=> nextSeq'[g] > 0
      BY <1>1, <3>1 DEF WriterInv
    <3>8. \A k \in Objects' : k.epoch = epoch'[g] =>
             IF k.level = 0 THEN k.hi <= nextSeq'[g] ELSE k.hi < nextSeq'[g]
      BY <1>1, <3>1 DEF WriterInv
    <3>9. next \in Objects' => bucket'[next] \subseteq Body(g)'
      BY <3>1, <3>4, <3>6 DEF WriterInv
    <3>10. \/ Superseded(epoch[g])'
           \/ /\ Covers(own[g], AckedUpTo(epoch[g]))'
              /\ \A s \in 0..(nextSeq'[g] - 1) : Present(epoch[g], s)'
      BY <1>1, <2>3, <3>1, <3>3, <3>5 DEF WriterInv
    <3>11. phase'[g] = "put" =>
              \/ Superseded(epoch[g])'
              \/ next \in Objects' /\ bucket'[next] = Body(g)'
      BY <1>1, <2>3, <3>1, <3>2, <3>4 DEF WriterInv
    <3>12. phase'[g] \in {"compacting", "folded"} => based'[g]
      BY <1>1, <3>1 DEF WriterInv
    <3> QED
      BY <3>6, <3>7, <3>8, <3>9, <3>10, <3>11, <3>12 DEF WriterInv
  <2> QED
    BY <2>1, <2>4, <2>5
<1> QED
  BY <1>7, <1>8, <1>9, <1>10, <1>11

-----------------------------------------------------------------------------
(***************************************************************************)
(* Writing: flush() and compact().                                         *)
(***************************************************************************)

\* h writes `body` at a key of its own epoch, and changes nothing else but
\* its phase.
Writes(h, k0, body) ==
    /\ Up(h) /\ k0.epoch = epoch[h]
    /\ Put(k0, body)
    /\ UNCHANGED <<ownerVars, epoch, own, staged, nextSeq, based, plan, lagging, doomed, acked>>
    /\ phase' \in [Handle -> Phase]
    /\ \A g \in Handle \ {h} : phase'[g] = phase[g]
    /\ phase'[h] \in {"ready", "put", "compacting", "folded"}

\* No two handles have one epoch.
LEMMA EpochsDiffer ==
    ASSUME TypeInv, TokensInv, NEW h \in Handle, NEW g \in Handle \ {h}, epoch[h] # 0
    PROVE  epoch[g] # epoch[h]
<1> SUFFICES ASSUME epoch[g] = epoch[h]  PROVE FALSE
  OBVIOUS
<1> DEFINE a == <<epoch[g], g>>
           b == <<epoch[h], h>>
<1>1. a \in issued /\ b \in issued
  BY DEF TokensInv
<1>2. a[1] = b[1] => a[2] = b[2]
  BY <1>1 DEF TokensInv
<1> QED
  BY <1>2

\* A write concerns its own epoch only.  It either adds to what was at the key
\* or says all that h knows, so that no wake loses by it.
LEMMA WriteStep ==
    ASSUME TypeInv, LaneInv, NEW h \in Handle, NEW k0 \in Key,
           NEW body \in SUBSET Record, Writes(h, k0, body),
           (k0 \in Objects => bucket[k0] \subseteq body) \/ own[h] \subseteq body
    PROVE  /\ Objects' = Objects \cup {k0}
           /\ bucket'[k0] = body
           /\ \A j \in Objects : j # k0 => bucket'[j] = bucket[j]
           /\ \A e : Superseded(e) => Superseded(e)'
           /\ TokensInv' /\ DoomedInv'
           /\ \A k \in Objects' :
                 HeadKey(k) /\ k.epoch # epoch[h] /\ ~Superseded(k.epoch)'
                     => Covers(Contents(EpochChain(k.epoch))', AckedUpTo(k.epoch))
           /\ \A g \in Handle \ {h} : WakingInv(g)' /\ ReadingInv(g)' /\ WriterInv(g)'
<1> USE DEF LaneInv, Writes, ownerVars
<1>1. /\ Objects' = Objects \cup {k0} /\ bucket'[k0] = body
      /\ \A j \in Objects : j # k0 => bucket'[j] = bucket[j]
  BY PutTypes DEF TypeInv, TypeOK, Objects
<1>2. \A e : Superseded(e) => Superseded(e)'
  BY <1>1 DEF Superseded
<1>3. epoch[h] # 0 /\ <<epoch[h], h>> \in issued
  BY DEF Up, TokensInv
<1>4. TokensInv'
  <2>1. 1 <= k0.epoch /\ k0.epoch <= top
    BY <1>3 DEF TokensInv
  <2>2. \A k \in Objects' : 1 <= k.epoch /\ k.epoch <= top
    BY <1>1, <2>1 DEF TokensInv
  <2>3. \A g \in Handle :
           /\ phase'[g] \in {"claimed", "reading", "put", "compacting", "folded"}
                 => epoch[g] # 0
           /\ phase'[g] = "gone" => epoch[g] = 0
    BY <1>3 DEF TokensInv
  <2> QED
    BY <2>2, <2>3 DEF TokensInv
<1>5. DoomedInv'
  BY <1>1, <1>2 DEF DoomedInv
<1>6. ASSUME NEW k \in Objects', HeadKey(k), k.epoch # epoch[h], ~Superseded(k.epoch)'
      PROVE  Covers(Contents(EpochChain(k.epoch))', AckedUpTo(k.epoch))
  <2>1. k \in Objects /\ ~Superseded(k.epoch)
    BY <1>1, <1>2, <1>6
  <2>2. Covers(Contents(EpochChain(k.epoch)), AckedUpTo(k.epoch))
    BY <1>6, <2>1 DEF CompleteInv
  <2>3. ASSUME NEW j \in EpochChain(k.epoch)
        PROVE  j \in EpochChain(k.epoch)' /\ bucket'[j] = bucket[j]
    <3>1. j \in Objects /\ j.epoch = k.epoch /\ InChain(Objects, j)
      BY DEF EpochChain
    <3>2. \A i : i.epoch = j.epoch => (i \in Objects <=> i \in Objects')
      BY <1>1, <1>6, <3>1
    <3>3. InChain(Objects', j)
      BY <3>1, <3>2, ChainLocal
    <3> QED
      BY <1>1, <1>6, <3>1, <3>3 DEF EpochChain
  <2>4. Contents(EpochChain(k.epoch)) \subseteq Contents(EpochChain(k.epoch))'
    BY <2>3 DEF Contents
  <2> QED
    BY <2>2, <2>4, CoversSubset, CoversTrans
<1>7. ASSUME NEW g \in Handle \ {h}
      PROVE  WakingInv(g)' /\ ReadingInv(g)' /\ WriterInv(g)'
  <2>1. epoch[g] # epoch[h]
    BY <1>3, EpochsDiffer
  <2>2. WakingInv(g)'
    BY <1>1, <2>1 DEF WakingInv, Waking
  <2>3. ReadingInv(g)'
    <3> SUFFICES ASSUME phase[g] = "reading", ~Superseded(epoch[g])
                 PROVE  ReadingInv(g)'
      BY <1>2 DEF ReadingInv, Superseded
    <3>1. /\ plan[g] \subseteq Objects
          /\ \A k \in plan[g] : k.epoch < epoch[g]
          /\ Covers(Contents(plan[g]), AckedUpTo(epoch[g]))
          /\ \A f \in Handle : plan[g] \cap doomed[f] = {}
          /\ \A f \in Handle, k \in plan[g] :
                Up(f) /\ epoch[f] = k.epoch => Covers(own[f], AckedUpTo(epoch[g]))
      BY DEF ReadingInv
    <3>2. Covers(Contents(plan[g])', AckedUpTo(epoch[g]))
      <4>1. CASE k0 \notin plan[g]
        <5>1. Contents(plan[g])' = Contents(plan[g])
          BY <1>1, <3>1, <4>1 DEF Contents
        <5> QED
          BY <3>1, <5>1
      <4>2. CASE k0 \in plan[g] /\ own[h] \subseteq body
        <5>1. body \subseteq Contents(plan[g])'
          BY <1>1, <4>2 DEF Contents
        <5>2. Covers(own[h], AckedUpTo(epoch[g]))
          BY <3>1, <4>2
        <5> QED
          BY <4>2, <5>1, <5>2, CoversSubset, CoversTrans
      <4>3. CASE k0 \in plan[g] /\ bucket[k0] \subseteq body
        <5>1. \A k \in plan[g] : bucket[k] \subseteq bucket'[k]
          BY <1>1, <3>1, <4>3
        <5>2. Contents(plan[g]) \subseteq Contents(plan[g])'
          BY <5>1 DEF Contents
        <5> QED
          BY <3>1, <5>2, CoversSubset, CoversTrans
      <4> QED
        BY <3>1, <4>1, <4>2, <4>3
    <3>3. \A f \in Handle : Up(f)' => Up(f)
      BY DEF Up
    <3>4. \A f \in Handle, k \in plan'[g] :
             Up(f)' /\ epoch'[f] = k.epoch => Covers(own'[f], AckedUpTo(epoch[g])')
      BY <3>1, <3>3 DEF AckedUpTo
    <3>5. Covers(Contents(plan[g])', AckedUpTo(epoch[g])')
      BY <3>2 DEF AckedUpTo
    <3> QED
      BY <1>1, <3>1, <3>4, <3>5 DEF ReadingInv, Contents, AckedUpTo
  <2>4. WriterInv(g)'
    <3> SUFFICES ASSUME Up(g)  PROVE WriterInv(g)'
      BY DEF WriterInv, Up
    <3>1. WriterInv(g)
      OBVIOUS
    <3>2. Body(g)' = Body(g)
      BY DEF Body
    <3>3. Segment(epoch[g], nextSeq[g]) # k0
      BY <2>1 DEF Segment
    <3>4. Superseded(epoch[g]) => Superseded(epoch[g])'
      BY <1>2 DEF Superseded
    <3>5. Covers(own[g], AckedUpTo(epoch[g]))' <=> Covers(own[g], AckedUpTo(epoch[g]))
      BY DEF Covers, Killed, AckedUpTo
    <3>6. \A n : Present(epoch[g], n) => Present(epoch[g], n)'
      BY <1>1 DEF Present
    <3> QED
      BY <1>1, <2>1, <3>1, <3>2, <3>3, <3>4, <3>5, <3>6 DEF WriterInv
  <2> QED
    BY <2>2, <2>3, <2>4
<1> QED
  BY <1>1, <1>2, <1>4, <1>5, <1>6, <1>7

\* A segment behind the first lengthens a chain and changes nothing else in it.
LEMMA ChainGrows ==
    ASSUME NEW K, NEW e, NEW n \in Nat \ {0}, NEW k, InChain(K, k)
    PROVE  InChain(K \cup {Segment(e, n)}, k)
<1> DEFINE L == K \cup {Segment(e, n)}
<1>1. \A f : Heads(L, f) = Heads(K, f)
  BY DEF Heads, Segment
<1>2. \A j : IsHead(K, j) => IsHead(L, j)
  BY <1>1 DEF IsHead
<1>3. Follows(K, k) => Follows(L, k)
  BY <1>2 DEF Follows
<1> QED
  BY <1>2, <1>3 DEF InChain

\* After the PUT of a flush, committed or not.
LEMMA FlushPutInv ==
    ASSUME TypeInv, TypeInv', LaneInv, NEW h \in Handle, FlushPut(h)
    PROVE  LaneInv'
<1>0. PICK e \in Nat, n \in Nat, body \in SUBSET Record :
         e = epoch[h] /\ n = nextSeq[h] /\ body = Body(h)
  BY DEF TypeInv, TypeOK, Body
<1> DEFINE k0 == Segment(e, n)
<1>1. /\ n <= MaxSeq /\ e # 0 /\ e = epoch[h] /\ n = nextSeq[h]
      /\ k0 \in Key /\ body = Body(h)
      /\ k0.epoch = e /\ k0.level = 0 /\ k0.hi = n
  BY <1>0 DEF FlushPut, Active, Segment, Key
<1>2. Writes(h, k0, body)
  BY <1>1 DEF FlushPut, Active, Writes, Up, Phase, TypeInv, TypeOK
<1>3. WriterInv(h) /\ Up(h)
  BY <1>2 DEF LaneInv, Writes
<1>4. k0 \in Objects => bucket[k0] \subseteq body
  BY <1>1, <1>3 DEF WriterInv
<1> HIDE DEF k0
<1>5. /\ Objects' = Objects \cup {k0}
      /\ bucket'[k0] = body
      /\ \A j \in Objects : j # k0 => bucket'[j] = bucket[j]
      /\ \A f : Superseded(f) => Superseded(f)'
      /\ TokensInv' /\ DoomedInv'
      /\ \A k \in Objects' :
            HeadKey(k) /\ k.epoch # epoch[h] /\ ~Superseded(k.epoch)'
                => Covers(Contents(EpochChain(k.epoch))', AckedUpTo(k.epoch))
      /\ \A g \in Handle \ {h} : WakingInv(g)' /\ ReadingInv(g)' /\ WriterInv(g)'
  BY <1>1, <1>2, <1>4, WriteStep
<1>6. /\ UNCHANGED <<epoch, own, staged, nextSeq, based, lagging, acked>>
      /\ phase'[h] \in {"ready", "put"}
      /\ \A g \in Handle \ {h} : phase'[g] = phase[g]
  BY DEF FlushPut, Active, TypeInv, TypeOK
\* A lane that has its base has a head.
<1>7. based[h] => Superseded(e) \/ \E w \in Objects : w.epoch = e /\ HeadKey(w)
  <2> SUFFICES ASSUME based[h], ~Superseded(e)
               PROVE  \E w \in Objects : w.epoch = e /\ HeadKey(w)
    OBVIOUS
  <2>1. Present(e, 0)
    BY <1>1, <1>3 DEF WriterInv
  <2> QED
    BY <2>1 DEF Present, HeadKey, Segment
<1>8. ~based[h] => n = 0 /\ HeadKey(k0)
  BY <1>1, <1>3 DEF WriterInv, HeadKey
<1>9. SizeInv' /\ lagging' = {}
  BY <1>1, <1>5, <1>6 DEF SizeInv, LaneInv
<1>10. LineageInv'
  <2>1. \A k \in Objects' : Superseded(k.epoch)' \/ \E w \in Objects' : w.epoch = k.epoch /\ HeadKey(w)
    BY <1>1, <1>5, <1>7, <1>8 DEF LineageInv, LaneInv
  <2> QED
    BY <1>5, <1>6, <2>1 DEF LineageInv, LaneInv
<1>11. CompleteInv'
  <2> SUFFICES ASSUME NEW k \in Objects', HeadKey(k), k.epoch = e, ~Superseded(e)'
               PROVE  Covers(Contents(EpochChain(e))', AckedUpTo(e))
    BY <1>1, <1>5, <1>6 DEF CompleteInv, AckedUpTo
  <2>1. ~Superseded(e)
    BY <1>5
  <2>2. CASE ~based[h]
    <3>1. \A j \in Objects' : j.epoch = e => j.level = 0 /\ j.hi = 0
      BY <1>1, <1>3, <1>5, <1>8, <2>2 DEF WriterInv, TypeInv, TypeOK, Objects, Key
    <3>2. k0 \in EpochChain(e)'
      BY <1>1, <1>5, <1>8, <2>2, <3>1 DEF EpochChain, InChain, IsHead, Heads
    <3>3. own[h] \subseteq Contents(EpochChain(e))'
      BY <1>1, <1>5, <2>2, <3>2 DEF Contents, EpochChain, Body
    <3>4. Covers(own[h], AckedUpTo(e))
      BY <1>1, <1>3, <2>1 DEF WriterInv
    <3> QED
      BY <3>3, <3>4, CoversSubset, CoversTrans
  <2>3. CASE based[h]
    <3>1. Covers(Contents(EpochChain(e)), AckedUpTo(e))
      BY <1>7, <2>1, <2>3 DEF CompleteInv, LaneInv
    <3>2. n \in Nat \ {0}
      BY <1>1, <1>3, <2>3 DEF WriterInv
    <3>3. EpochChain(e) \subseteq EpochChain(e)'
      BY <1>5, <3>2, ChainGrows DEF EpochChain, k0
    <3>4. \A j \in Objects : bucket[j] \subseteq bucket'[j]
      BY <1>4, <1>5
    <3>5. Contents(EpochChain(e)) \subseteq Contents(EpochChain(e))'
      BY <3>3, <3>4 DEF Contents, EpochChain
    <3> QED
      BY <3>1, <3>5, CoversSubset, CoversTrans
  <2> QED
    BY <2>2, <2>3
<1>12. WakingInv(h)' /\ ReadingInv(h)'
  BY <1>6 DEF WakingInv, Waking, ReadingInv
<1>13. WriterInv(h)'
  <2>1. Body(h)' = Body(h) /\ k0' = k0
    BY <1>6 DEF Body, k0
  <2>2. Superseded(e) => Superseded(epoch[h])'
    BY <1>1, <1>5, <1>6 DEF Superseded
  <2>3. Covers(own[h], AckedUpTo(epoch[h]))' <=> Covers(own[h], AckedUpTo(e))
    BY <1>1, <1>6 DEF Covers, Killed, AckedUpTo
  <2>4. \A s : Present(e, s) => Present(epoch[h], s)'
    BY <1>1, <1>5, <1>6 DEF Present
  <2>5. \A k \in Objects' : k.epoch = epoch'[h] =>
           IF k.level = 0 THEN k.hi <= nextSeq'[h] ELSE k.hi < nextSeq'[h]
    BY <1>1, <1>3, <1>5, <1>6 DEF WriterInv
  <2>6. Segment(epoch'[h], nextSeq'[h]) = k0
    BY <1>1, <1>6 DEF k0
  <2>7. k0 \in Objects' /\ bucket'[k0] = Body(h)'
    BY <1>1, <1>5, <2>1
  <2> QED
    BY <1>1, <1>3, <1>6, <2>2, <2>3, <2>4, <2>5, <2>6, <2>7 DEF WriterInv
<1> QED
  BY <1>5, <1>9, <1>10, <1>11, <1>12, <1>13 DEF LaneInv

\* After the PUT of a compaction, committed or not.
LEMMA CompactPutInv ==
    ASSUME TypeInv, LaneInv, NEW h \in Handle, CompactPut(h)
    PROVE  LaneInv'
<1>0. PICK e \in Nat, n \in Nat : e = epoch[h] /\ n = nextSeq[h]
  BY DEF TypeInv, TypeOK
<1> DEFINE k0 == Compaction(e, n - 1)
<1>1. WriterInv(h) /\ Up(h) /\ based[h] /\ e # 0 /\ own[h] \in SUBSET Record
  BY <1>0 DEF CompactPut, Up, LaneInv, TypeInv, TypeOK
<1>2. n - 1 \in Nat /\ n <= MaxSeq + 1
  BY <1>0, <1>1 DEF WriterInv, LaneInv, SizeInv
<1>3. k0 \in Key /\ k0.epoch = e /\ k0.level = 1 /\ k0.hi = n - 1
  BY <1>2 DEF Compaction, Key
<1>4. Writes(h, k0, own[h])
  BY <1>0, <1>1, <1>3 DEF CompactPut, Writes, Phase, TypeInv, TypeOK
<1> HIDE DEF k0
<1>5. /\ Objects' = Objects \cup {k0}
      /\ bucket'[k0] = own[h]
      /\ \A j \in Objects : j # k0 => bucket'[j] = bucket[j]
      /\ \A f : Superseded(f) => Superseded(f)'
      /\ TokensInv' /\ DoomedInv'
      /\ \A k \in Objects' :
            HeadKey(k) /\ k.epoch # epoch[h] /\ ~Superseded(k.epoch)'
                => Covers(Contents(EpochChain(k.epoch))', AckedUpTo(k.epoch))
      /\ \A g \in Handle \ {h} : WakingInv(g)' /\ ReadingInv(g)' /\ WriterInv(g)'
  BY <1>1, <1>3, <1>4, WriteStep
<1>6. /\ UNCHANGED <<epoch, own, staged, nextSeq, based, lagging, acked>>
      /\ phase'[h] = "folded"
      /\ \A g \in Handle \ {h} : phase'[g] = phase[g]
  BY DEF CompactPut, TypeInv, TypeOK
<1>7. SizeInv' /\ lagging' = {}
  BY <1>2, <1>3, <1>5, <1>6, LaneAssumption DEF SizeInv, LaneInv
<1>8. LineageInv'
  <2>1. HeadKey(k0)
    BY <1>3 DEF HeadKey
  <2> QED
    BY <1>5, <1>6, <2>1 DEF LineageInv, LaneInv
<1>9. CompleteInv'
  <2> SUFFICES ASSUME ~Superseded(e)'
               PROVE  Covers(Contents(EpochChain(e))', AckedUpTo(e))
    BY <1>0, <1>5, <1>6 DEF CompleteInv, AckedUpTo
  <2>1. \A j \in Objects' : j.epoch = e /\ HeadKey(j) =>
           j.hi < n - 1 \/ (j.hi = n - 1 /\ j.level <= 1)
    <3>1. \A j \in Objects' : j \in Key
      BY <1>3, <1>5 DEF Objects, TypeInv, TypeOK
    <3> QED
      BY <1>0, <1>1, <1>2, <1>3, <1>5, <3>1 DEF WriterInv, HeadKey, Key
  <2>2. k0 \in EpochChain(e)'
    BY <1>3, <1>5, <2>1 DEF EpochChain, InChain, IsHead, Heads, HeadKey
  <2>3. own[h] \subseteq Contents(EpochChain(e))'
    BY <1>5, <2>2 DEF Contents
  <2>4. Covers(own[h], AckedUpTo(e))
    BY <1>0, <1>1, <1>5 DEF WriterInv
  <2> QED
    BY <2>3, <2>4, CoversSubset, CoversTrans
<1>10. WakingInv(h)' /\ ReadingInv(h)'
  BY <1>6 DEF WakingInv, Waking, ReadingInv
<1>11. WriterInv(h)'
  <2>1. Body(h)' = Body(h)
    BY <1>6 DEF Body
  <2>2. Superseded(e) => Superseded(epoch[h])'
    BY <1>0, <1>5, <1>6 DEF Superseded
  <2>3. Covers(own[h], AckedUpTo(epoch[h]))' <=> Covers(own[h], AckedUpTo(e))
    BY <1>0, <1>6 DEF Covers, Killed, AckedUpTo
  <2>4. \A s : Present(e, s) => Present(epoch[h], s)'
    BY <1>0, <1>5, <1>6 DEF Present
  <2>5. \A k \in Objects' : k.epoch = epoch'[h] =>
           IF k.level = 0 THEN k.hi <= nextSeq'[h] ELSE k.hi < nextSeq'[h]
    BY <1>0, <1>1, <1>2, <1>3, <1>5, <1>6 DEF WriterInv
  <2>6. Segment(e, n) # k0
    BY <1>3 DEF Segment
  <2> QED
    BY <1>0, <1>1, <1>5, <1>6, <2>1, <2>2, <2>3, <2>4, <2>5, <2>6 DEF WriterInv
<1> QED
  BY <1>5, <1>7, <1>8, <1>9, <1>10, <1>11 DEF LaneInv

\* The segment that flush() has put is at the end of the chain of its epoch.
LEMMA PutIsInChain ==
    ASSUME NEW K \in SUBSET Key, \A k \in K : k.hi <= MaxSeq,
           NEW e \in Nat, NEW n \in Nat, Segment(e, n) \in K,
           \A k \in K : k.epoch = e => IF k.level = 0 THEN k.hi <= n ELSE k.hi < n,
           \A s \in 0..(n - 1) :
              \/ Segment(e, s) \in K
              \/ \E w \in K : w.epoch = e /\ w.level = 1 /\ s <= w.hi
    PROVE  InChain(K, Segment(e, n)) /\ \E w \in K : w.epoch = e /\ HeadKey(w)
<1>1. \E w \in K : w.epoch = e /\ HeadKey(w)
  <2>1. CASE n = 0
    BY <2>1 DEF Segment, HeadKey
  <2>2. CASE n # 0
    <3>1. 0 \in 0..(n - 1)
      BY <2>2
    <3> QED
      BY <3>1 DEF Segment, HeadKey
  <2> QED
    BY <2>1, <2>2
<1>2. PICK head \in K : IsHead(K, head) /\ head.epoch = e
  BY <1>1, HeadExists
<1>3. CASE head.hi < n
  <2>1. ASSUME NEW s \in (head.hi + 1)..n  PROVE Segment(e, s) \in K
    <3>1. CASE s = n
      BY <3>1
    <3>2. CASE s # n
      <4>1. s \in 0..(n - 1) /\ head.hi < s /\ head.hi \in Nat
        BY <3>2 DEF Key
      <4>2. \A w \in K : w.epoch = e /\ w.level = 1 => w.hi <= head.hi /\ w.hi \in Nat
        BY <1>2 DEF IsHead, Heads, Key
      <4> QED
        BY <4>1, <4>2
    <3> QED
      BY <3>1, <3>2
  <2>2. Segment(e, n).level = 0 /\ Segment(e, n).epoch = e /\ Segment(e, n).hi = n
    BY DEF Segment
  <2> QED
    BY <1>1, <1>2, <1>3, <2>1, <2>2 DEF InChain, Follows
<1>4. CASE ~(head.hi < n)
  <2>1. head.level = 0 /\ head.hi = n
    BY <1>2, <1>4 DEF Key
  <2>2. head = Segment(e, n)
    BY <1>2, <2>1 DEF Key, Segment
  <2> QED
    BY <1>1, <1>2, <2>2 DEF InChain
<1> QED
  BY <1>3, <1>4

\* After the acknowledgement: the handle that the record names has the newest
\* lineage, and the segment that it acknowledges is in its chain.
LEMMA FlushAckInv ==
    ASSUME TypeInv, LaneInv, NEW h \in Handle, FlushAck(h)
    PROVE  LaneInv'
<1>0. PICK e \in Nat, n \in Nat : e = epoch[h] /\ n = nextSeq[h]
  BY DEF TypeInv, TypeOK
<1> DEFINE k0 == Segment(e, n)
<1>1. /\ WriterInv(h) /\ Up(h) /\ phase[h] = "put" /\ e # 0 /\ top = e
      /\ n <= MaxSeq
  BY <1>0 DEF FlushAck, Up, Named, LaneInv, TokensInv, SizeInv
<1>2. /\ UNCHANGED <<ownerVars, bucket, epoch, plan, lagging, doomed>>
      /\ own'[h] = Replay(own[h] \cup staged[h])
      /\ acked' = acked \cup ({e} \X staged[h])
      /\ nextSeq'[h] = n + 1 /\ based'[h]
      /\ phase'[h] \in {"compacting", "ready"}
      /\ \A g \in Handle \ {h} : Local(g)' = Local(g)
      /\ Objects' = Objects
  BY <1>0 DEF FlushAck, Acknowledge, TypeInv, TypeOK, Local, Objects
<1>3. \A k \in Objects : k \in Key /\ k.hi <= MaxSeq /\ k.epoch <= e
  BY <1>1 DEF TypeInv, TypeOK, LaneInv, SizeInv, TokensInv, Objects
<1>4. ~Superseded(e)
  BY <1>3 DEF Superseded, Key
<1>5. /\ Covers(own[h], AckedUpTo(e))
      /\ \A s \in 0..(n - 1) : Present(e, s)
      /\ k0 \in Objects /\ bucket[k0] = Body(h)
      /\ \A k \in Objects : k.epoch = e =>
            IF k.level = 0 THEN k.hi <= n ELSE k.hi < n
  BY <1>0, <1>1, <1>4 DEF WriterInv
<1>6. InChain(Objects, k0) /\ \E w \in Objects : w.epoch = e /\ HeadKey(w)
  BY <1>3, <1>5, PutIsInChain DEF Present
<1>7. \A f \in Nat : f < e => Superseded(f)
  BY <1>6 DEF Superseded
<1>8. \A f : Superseded(f)' <=> Superseded(f)
  BY <1>2 DEF Superseded
<1>9. AckedUpTo(e)' = AckedUpTo(e) \cup staged[h]
  <2>1. staged[h] \subseteq Record
    BY DEF TypeInv, TypeOK
  <2>2. \A r \in staged[h] : <<e, r>> \in acked' /\ <<e, r>>[1] <= e /\ <<e, r>>[2] = r
    BY <1>2
  <2>3. \A a \in acked' : a \in acked \/ a[2] \in staged[h]
    BY <1>2
  <2>4. acked \subseteq acked'
    BY <1>2
  <2> QED
    BY <2>1, <2>2, <2>3, <2>4 DEF AckedUpTo
<1>10. TokensInv' /\ SizeInv' /\ lagging' = {}
  <2>1. \A g \in Handle \ {h} : phase'[g] = phase[g] /\ nextSeq'[g] = nextSeq[g]
    BY <1>2 DEF Local
  <2>2. \A a \in acked' : a[1] <= top
    <3>1. \A a \in acked' : a \in acked \/ a[1] = e
      BY <1>2
    <3> QED
      BY <1>1, <3>1 DEF LaneInv, TokensInv
  <2>3. \A g \in Handle :
           /\ phase'[g] \in {"claimed", "reading", "put", "compacting", "folded"}
                 => epoch[g] # 0
           /\ phase'[g] = "gone" => epoch[g] = 0
    BY <1>0, <1>1, <1>2, <2>1 DEF LaneInv, TokensInv
  <2>4. TokensInv'
    <3>1. TokensInv /\ UNCHANGED <<top, issued, epoch>> /\ Objects' = Objects
      BY <1>2 DEF LaneInv, ownerVars
    <3>2. \A g \in Handle : epoch'[g] # 0 => <<epoch'[g], g>> \in issued'
      BY <3>1 DEF TokensInv
    <3>3. \A k \in Objects' : 1 <= k.epoch /\ k.epoch <= top'
      BY <3>1 DEF TokensInv
    <3>4. /\ \A g \in issued' : 1 <= g[1] /\ g[1] <= top'
          /\ \A g1, g2 \in issued' : g1[1] = g2[1] => g1[2] = g2[2]
      BY <3>1 DEF TokensInv
    <3> QED
      BY <3>1, <2>2, <2>3, <3>2, <3>3, <3>4 DEF TokensInv
  <2>5. SizeInv'
    <3>1. n + 1 <= MaxSeq + 1
      BY <1>1, LaneAssumption
    <3>2. \A g \in Handle : nextSeq'[g] <= MaxSeq + 1
      BY <1>2, <2>1, <3>1 DEF LaneInv, SizeInv
    <3>3. \A g \in Handle : phase'[g] = "put" => nextSeq'[g] <= MaxSeq
      BY <1>2, <2>1 DEF LaneInv, SizeInv
    <3> QED
      BY <1>3, <1>2, <3>2, <3>3 DEF SizeInv
  <2> QED
    BY <1>2, <2>4, <2>5 DEF LaneInv
<1>11. DoomedInv'
  BY <1>2, <1>8 DEF LaneInv, DoomedInv
<1>12. LineageInv'
  <2>1. \A a \in acked' : \E w \in Objects : a[1] <= w.epoch /\ HeadKey(w)
    BY <1>2, <1>6 DEF LaneInv, LineageInv
  <2> QED
    BY <1>2, <1>8, <2>1 DEF LaneInv, LineageInv
<1>13. CompleteInv'
  <2> SUFFICES ASSUME NEW k \in Objects, HeadKey(k), ~Superseded(k.epoch)
               PROVE  Covers(Contents(EpochChain(k.epoch)), AckedUpTo(k.epoch)')
    BY <1>2, <1>8 DEF CompleteInv, Contents, EpochChain, Objects
  <2>1. k.epoch = e
    BY <1>3, <1>7 DEF Key
  <2>2. Covers(Contents(EpochChain(e)), AckedUpTo(e))
    BY <2>1 DEF LaneInv, CompleteInv
  <2>3. staged[h] \subseteq Contents(EpochChain(e))
    <3>1. k0 \in EpochChain(e)
      BY <1>5, <1>6 DEF EpochChain, Segment
    <3>2. staged[h] \subseteq bucket[k0]
      BY <1>5 DEF Body
    <3> QED
      BY <3>1, <3>2 DEF Contents
  <2> QED
    BY <1>9, <2>1, <2>2, <2>3, CoversSubset, CoversUnion
<1>14. WakingInv(h)' /\ ReadingInv(h)'
  BY <1>2 DEF WakingInv, Waking, ReadingInv
<1>15. WriterInv(h)'
  <2>1. Covers(own'[h], AckedUpTo(e)')
    <3>1. Covers(own'[h], own[h] \cup staged[h])
      BY <1>2, CoversReplay
    <3>2. Covers(own'[h], own[h]) /\ Covers(own'[h], staged[h])
      BY <3>1, CoversSubset, CoversTrans
    <3> QED
      BY <1>5, <1>9, <3>2, CoversTrans, CoversUnion
  <2>2. Covers(own[h], AckedUpTo(epoch[h]))'
    BY <1>0, <1>2, <2>1 DEF Covers, Killed, AckedUpTo
  <2>3. \A s \in 0..((n + 1) - 1) : Present(epoch[h], s)'
    BY <1>0, <1>2, <1>5 DEF Present
  <2>4. Segment(e, n + 1) \notin Objects
    BY <1>5 DEF Segment
  <2>5. \A k \in Objects : k.epoch = e =>
           IF k.level = 0 THEN k.hi <= n + 1 ELSE k.hi < n + 1
    BY <1>3, <1>5 DEF Key
  <2> QED
    BY <1>0, <1>2, <2>2, <2>3, <2>4, <2>5 DEF WriterInv
<1>16. ASSUME NEW g \in Handle \ {h}
       PROVE  WakingInv(g)' /\ ReadingInv(g)' /\ WriterInv(g)'
  <2>1. epoch[g] = 0 \/ Superseded(epoch[g])
    <3> SUFFICES ASSUME epoch[g] # 0  PROVE Superseded(epoch[g])
      OBVIOUS
    <3>1. epoch[g] \in Nat /\ epoch[g] <= e
      <4>1. <<epoch[g], g>> \in issued
        BY DEF LaneInv, TokensInv
      <4>2. <<epoch[g], g>>[1] <= top
        BY <4>1 DEF LaneInv, TokensInv
      <4> QED
        BY <1>1, <4>2 DEF TypeInv, TypeOK
    <3>2. epoch[g] # e
      BY <1>0, <1>1, EpochsDiffer DEF LaneInv
    <3> QED
      BY <1>7, <3>1, <3>2
  <2>2. WakingInv(g)'
    BY <1>2 DEF WakingInv, Waking, Local, LaneInv
  <2>3. ReadingInv(g)'
    BY <1>2, <1>8, <2>1 DEF ReadingInv, Local, LaneInv, TokensInv, Superseded
  <2>4. WriterInv(g)'
    <3> SUFFICES ASSUME Up(g)  PROVE WriterInv(g)'
      BY <1>2 DEF WriterInv, Up, Local
    <3>1. WriterInv(g) /\ Superseded(epoch[g])'
      BY <1>2, <1>8, <2>1 DEF LaneInv, Up, Superseded
    <3>2. Body(g)' = Body(g)
      BY <1>2 DEF Body, Local
    <3> QED
      BY <1>2, <3>1, <3>2 DEF WriterInv, Local
  <2> QED
    BY <2>2, <2>3, <2>4
<1> QED
  BY <1>10, <1>11, <1>12, <1>13, <1>14, <1>15, <1>16 DEF LaneInv

-----------------------------------------------------------------------------
(***************************************************************************)
(* The theorem.                                                            *)
(***************************************************************************)

LEMMA InitLaneInv ==
    ASSUME Init
    PROVE  LaneInv
<1>1. Objects = {}
  BY DEF Init, Objects
<1> QED
  BY <1>1, LaneAssumption DEF Init, LaneInv, TokensInv, SizeInv, WakingInv, Waking,
     ReadingInv, WriterInv, Up, DoomedInv, LineageInv, CompleteInv, Tokens!Init, Segment

LEMMA LaneInvStep ==
    ASSUME ~EarlyWakes, ~OverlappingGc, TypeInv, LaneInv, [Next]_laneVars
    PROVE  LaneInv'
<1>1. TypeInv'
  BY LaneTypeStep
<1>2. CASE UNCHANGED laneVars
  <2> USE <1>2 DEF LaneInv, laneVars, ownerVars, localVars
  <2>1. TokensInv' /\ SizeInv' /\ lagging' = {} /\ LineageInv' /\ CompleteInv' /\ DoomedInv'
    BY SameLineages DEF TokensInv, SizeInv, LineageInv, CompleteInv, DoomedInv
  <2>2. ASSUME NEW g \in Handle
        PROVE  WakingInv(g)' /\ ReadingInv(g)' /\ WriterInv(g)'
    <3>1. WakingInv(g)'
      BY DEF WakingInv, Waking, Objects
    <3>2. WriterInv(g)'
      BY DEF WriterInv, Up, Body, Superseded, Covers, Killed, AckedUpTo, Present, Objects
    <3>3. ReadingInv(g)'
      BY DEF ReadingInv, Up, Superseded, Covers, Killed, AckedUpTo, Contents, Objects
    <3> QED
      BY <3>1, <3>2, <3>3
  <2> QED
    BY <2>1, <2>2
<1>3. ASSUME NEW h \in Handle, HandleStep(h)
      PROVE  LaneInv'
  <2>1. CASE \/ Rejoin(h) \/ ReclaimFails(h) \/ WakeFails(h)
             \/ \E r \in Record : Stage(h, r)
             \/ FlushFails(h) \/ CompactEnds(h)
             \/ Renew(h) \/ RenewReplyLost(h) \/ RenewFenced(h)
             \/ Deactivate(h) \/ ReleaseReplyLost(h) \/ Crash(h)
    BY <2>1, QuietActions, QuietInv
  <2>2. CASE ClaimLane(h)
    BY <2>2, ClaimLaneInv
  <2>3. CASE ListLane(h)
    BY <2>3, ListLaneInv
  <2>4. CASE FetchLane(h)
    BY <1>1, <2>4, FetchLaneInv
  <2>5. CASE FlushPut(h)
    BY <1>1, <2>5, FlushPutInv
  <2>6. CASE FlushAck(h)
    BY <2>6, FlushAckInv
  <2>7. CASE CompactPut(h)
    BY <2>7, CompactPutInv
  <2>8. CASE GcList(h)
    BY <2>8, GcListInv
  <2>9. ASSUME NEW k \in doomed[h], GcDelete(h, k)  PROVE LaneInv'
    BY <2>9, GcDeleteInv
  <2> QED
    BY <1>3, <2>1, <2>2, <2>3, <2>4, <2>5, <2>6, <2>7, <2>8, <2>9 DEF HandleStep
<1> QED
  BY <1>2, <1>3 DEF Next

\* What the durability of the lane rests on, between any two steps of its
\* handles: every lineage that was acknowledged from has its base in the bucket,
\* the newest chain covers what was acknowledged, and whoever may still write is
\* behind it.
THEOREM LaneInvHolds ==
    ASSUME ~EarlyWakes, ~OverlappingGc
    PROVE  Spec => []LaneInv
<1>1. Init => TypeInv /\ LaneInv
  BY InitLaneInv, LaneAssumption DEF Init, TypeInv, TypeOK, Tokens!Init, Phase
<1>2. TypeInv /\ LaneInv /\ [Next]_laneVars => (TypeInv /\ LaneInv)'
  BY LaneTypeStep, LaneInvStep
<1> QED
  BY <1>1, <1>2, PTL DEF Spec

\* "Writes are durable before they return": for any number of handles, records
\* and epochs, whatever flush() has acknowledged stays in the chain that the
\* next wake selects, and in the state of the handle that the record names.
\* Both assumptions are needed: the runs find AckedSurvives violated without
\* either.
THEOREM AckedIsDurable ==
    ASSUME ~EarlyWakes, ~OverlappingGc
    PROVE  Spec => []AckedSurvives
<1>1. Init => TypeInv /\ LaneInv
  BY InitLaneInv, LaneAssumption DEF Init, TypeInv, TypeOK, Tokens!Init, Phase
<1>2. TypeInv /\ LaneInv /\ [Next]_laneVars => (TypeInv /\ LaneInv)'
  BY LaneTypeStep, LaneInvStep
<1>3. TypeInv /\ LaneInv => AckedSurvives
  BY InvImpliesSafety
<1> QED
  BY <1>1, <1>2, <1>3, PTL DEF Spec

\* "Dropping it is the correct answer": a wake that ends as the lane's owner
\* has replayed, before the first hole of the chain that it listed, all that the
\* lane has acknowledged.
THEOREM DroppedWasNeverAcked ==
    ASSUME ~EarlyWakes, ~OverlappingGc
    PROVE  Spec => HolesAreUnacked
<1>1. Init => TypeInv /\ LaneInv
  BY InitLaneInv, LaneAssumption DEF Init, TypeInv, TypeOK, Tokens!Init, Phase
<1>2. TypeInv /\ LaneInv /\ [Next]_laneVars => (TypeInv /\ LaneInv)'
  BY LaneTypeStep, LaneInvStep
<1>3. ASSUME TypeInv, LaneInv, [Next]_laneVars, NEW h \in Handle,
             phase[h] = "reading", phase'[h] = "ready", Named(h)
      PROVE  Covers(own'[h], AckedRecords)
  <2>1. FetchLane(h)
    <3>1. PICK g \in Handle : HandleStep(g)
      BY <1>3 DEF Next, laneVars, localVars
    <3>2. CASE g # h
      BY <1>3, <3>1, <3>2 DEF HandleStep, ClaimLane, Rejoin, ReclaimFails, ListLane,
         FetchLane, WakeFails, Stage, FlushPut, FlushAck, Acknowledge, FlushFails,
         CompactPut, CompactEnds, GcList, GcDelete, Renew, RenewReplyLost, RenewFenced,
         Deactivate, ReleaseReplyLost, Crash, localVars, TypeInv, TypeOK
    <3>3. CASE g = h
      BY <1>3, <3>1, <3>3 DEF HandleStep, ClaimLane, Rejoin, ReclaimFails, ListLane,
         WakeFails, Stage, FlushPut, FlushAck, FlushFails, Active,
         CompactPut, CompactEnds, GcList, GcDelete, Renew, RenewReplyLost, RenewFenced,
         Deactivate, ReleaseReplyLost, Crash, localVars, TypeInv, TypeOK
    <3> QED
      BY <3>2, <3>3
  <2>2. epoch[h] = top
    BY <1>3 DEF Named
  <2>3. ~Superseded(epoch[h])
    BY <1>3, <2>2 DEF LaneInv, TokensInv, Superseded, TypeInv, TypeOK, Objects, Key
  <2>4. plan[h] \subseteq Objects /\ Covers(Contents(plan[h]), AckedUpTo(top))
    BY <1>3, <2>2, <2>3 DEF LaneInv, ReadingInv
  <2>5. AckedRecords \subseteq AckedUpTo(top)
    BY <1>3 DEF AckedRecords, AckedUpTo, LaneInv, TokensInv, TypeInv, TypeOK
  <2>6. BeforeHole(plan[h], DOMAIN bucket) = plan[h]
    BY <2>4 DEF BeforeHole, Objects
  <2>7. own'[h] = Replay(Contents(plan[h]))
    BY <1>3, <2>1, <2>6 DEF FetchLane, TypeInv, TypeOK
  <2> QED
    BY <2>4, <2>5, <2>7, CoversSubset, CoversReplay, CoversTrans
<1>4. TypeInv /\ LaneInv /\ [Next]_laneVars =>
         \A h \in Handle :
            phase[h] = "reading" /\ phase'[h] = "ready" /\ Named(h)
                => Covers(own'[h], AckedRecords)
  BY <1>3
<1> QED
  BY <1>1, <1>2, <1>4, PTL DEF Spec, HolesAreUnacked

-----------------------------------------------------------------------------
(***************************************************************************)
(* The fence, which needs neither assumption.                              *)
(***************************************************************************)

\* Nothing is acknowledged above the epoch of the ownership record.
AckedBelowTop == \A a \in acked : a[1] <= top

\* What a step acknowledges, it acknowledges at the record's epoch.
LEMMA AcksAtTop ==
    ASSUME TypeInv, [Next]_laneVars
    PROVE  /\ top <= top'
           /\ \A a \in acked' \ acked : a[1] = top /\ top' = top
<1> SUFFICES ASSUME NEW h \in Handle, HandleStep(h)
             PROVE  /\ top <= top'
                    /\ \A a \in acked' \ acked : a[1] = top /\ top' = top
  BY DEF Next, laneVars, ownerVars, TypeInv, TypeOK
<1> USE DEF TypeInv, TypeOK, ownerVars
<1>1. CASE FlushAck(h)
  BY <1>1 DEF FlushAck, Named, Acknowledge
<1>2. CASE ClaimLane(h)
  BY <1>2 DEF ClaimLane, Tokens!Issue
<1>3. CASE ~FlushAck(h) /\ ~ClaimLane(h)
  <2>1. top' = top /\ acked' = acked
    BY <1>3 DEF HandleStep, Rejoin, ReclaimFails, ListLane,
         FetchLane, WakeFails, Stage, FlushPut, FlushFails,
         CompactPut, CompactEnds, GcList, GcDelete, Renew, RenewReplyLost, RenewFenced,
         Deactivate, ReleaseReplyLost, Crash
  <2> QED
    BY <2>1
<1> QED
  BY <1>1, <1>2, <1>3

\* "Ownership confirmed before any caller hears success" (space.py:680): for
\* any number of handles, with lost renewals and overlapping gc() too, no flush
\* of a superseded handle is acknowledged after one of its successor.
THEOREM FenceHolds == Spec => AcksInEpochOrder
<1>1. Init => TypeInv /\ AckedBelowTop
  BY LaneAssumption DEF Init, TypeInv, TypeOK, Tokens!Init, Phase, AckedBelowTop
<1>2. TypeInv /\ AckedBelowTop /\ [Next]_laneVars => (TypeInv /\ AckedBelowTop)'
  <2> SUFFICES ASSUME TypeInv, AckedBelowTop, [Next]_laneVars
               PROVE  AckedBelowTop' /\ TypeInv'
    OBVIOUS
  <2>1. TypeInv'
    BY LaneTypeStep
  <2>2. \A a \in acked : a[1] <= top'
    BY <2>1, AcksAtTop DEF AckedBelowTop, TypeInv, TypeOK
  <2>3. \A a \in acked' \ acked : a[1] <= top'
    BY AcksAtTop DEF TypeInv, TypeOK
  <2> QED
    BY <2>1, <2>2, <2>3 DEF AckedBelowTop
<1>3. TypeInv /\ AckedBelowTop /\ [Next]_laneVars =>
         \A new \in acked' \ acked : \A old \in acked : old[1] <= new[1]
  BY AcksAtTop DEF AckedBelowTop
<1> QED
  BY <1>1, <1>2, <1>3, PTL DEF Spec, AcksInEpochOrder

=============================================================================
