--------------------------- MODULE CatchupProofs ---------------------------
(***************************************************************************)
(* What a refresh shows: for any lane, readers and bounds, and however the *)
(* lane's handles fail, compact and collect while readers read.            *)
(*                                                                         *)
(* The argument.  A reader may know sequence number s of an epoch from its *)
(* segment or from any of several compactions, whose objects come and go.  *)
(* What they have in common is the commit of s: every one of them tells at *)
(* least what its flush acknowledged.  So the invariant tells the story of *)
(* a lane as a function c from commits <<epoch, seq>> to what they wrote,  *)
(* and relates objects, handles and readers to it.                         *)
(***************************************************************************)
EXTENDS Catchup, LaneSafety

Spanned(K) == UNION {Span(k) : k \in K}

\* Commits are numbered without gaps.  The first of an epoch told all that the
\* epochs before it acknowledged; what was acknowledged is in a commit.
CommitsStory(c) ==
    /\ DOMAIN c \subseteq Nat \X Nat
    /\ \A p \in DOMAIN c :
          /\ p[1] <= top
          /\ \A s \in Nat : s < p[2] => <<p[1], s>> \in DOMAIN c
          /\ p[2] = 0 => Covers(c[p], AckedUpTo(p[1] - 1))
    /\ \A a \in acked : \E s \in Nat : <<a[1], s>> \in DOMAIN c /\ a[2] \in c[<<a[1], s>>]

\* A handle knows what it has committed, and nothing is committed before it wakes.
HandleStory(c, h) ==
    /\ Waking(h) => \A s \in Nat : <<epoch[h], s>> \notin DOMAIN c
    /\ Up(h) => \A s \in Nat :
          /\ <<epoch[h], s>> \in DOMAIN c <=> s < nextSeq[h]
          /\ s < nextSeq[h] => Covers(own[h], c[<<epoch[h], s>>])

\* An object tells what the commits that it spans wrote.  An L1 object spans
\* nothing else, a segment comes after what is committed.
ObjectStory(c, k) ==
    /\ \A s \in Span(k) : <<k.epoch, s>> \in DOMAIN c => Covers(bucket[k], c[<<k.epoch, s>>])
    /\ k.level = 1 => <<k.epoch, k.hi>> \in DOMAIN c
    /\ \A s \in Nat : s < k.hi => <<k.epoch, s>> \in DOMAIN c

\* No commit of the newest lineage is lost.
PresentStory(c) == \A p \in DOMAIN c : Superseded(p[1]) \/ Present(p[1], p[2])

LaneStory(c) ==
    /\ CommitsStory(c)
    /\ \A h \in Handle : HandleStory(c, h)
    /\ \A k \in Objects : ObjectStory(c, k)
    /\ PresentStory(c)

\* The reader knows what the sequence number wrote: the commit, or what will be
\* the commit if there is one.
Heard(c, r, s) ==
    LET e == peerEpoch[r]
    IN  IF <<e, s>> \in DOMAIN c THEN Covers(view[r], c[<<e, s>>])
        ELSE \/ Superseded(e)
             \/ /\ Segment(e, s) \in Objects
                /\ Covers(view[r], bucket[Segment(e, s)])

\* Whoever knows sequence number s of the reader's epoch knows d.  Before the
\* epoch's first commit that is for the epoch's writer to say, and for the
\* segment it may have put.
Gives(c, r, s, d) ==
    LET e == peerEpoch[r]
    IN  IF <<e, s>> \in DOMAIN c THEN Covers(c[<<e, s>>], {d})
        ELSE /\ s = 0
             /\ Segment(e, 0) \in Objects => Covers(bucket[Segment(e, 0)], {d})
             /\ \A g \in Handle : Up(g) /\ epoch[g] = e => Covers(own[g], {d})
             /\ 0 \in Spanned(applied[r]) => Covers(view[r], {d})

\* What the reader marked as applied it has heard, and what is due is in
\* something that it has applied or is fetching.
ReaderStory(c, r) ==
    /\ peerEpoch[r] <= top
    /\ \A g \in Handle : peerEpoch[r] # 0 /\ Waking(g) => epoch[g] # peerEpoch[r]
    /\ \A s \in Spanned(applied[r]) : Heard(c, r, s)
    /\ ~refreshing[r] => wanted[r] = {} /\ due[r] = {}
    /\ \A d \in due[r] :
          peerEpoch[r] # 0 /\ \E s \in Spanned(applied[r] \cup wanted[r]) : Gives(c, r, s, d)

Story(c) == LaneStory(c) /\ \A r \in Reader : ReaderStory(c, r)

-----------------------------------------------------------------------------
(***************************************************************************)
(* Spans, and what a reader's story depends on.                            *)
(***************************************************************************)

LEMMA InSpan ==
    ASSUME NEW k \in Key, NEW s
    PROVE  s \in Span(k) <=> s \in Nat /\ s <= k.hi /\ (k.level = 1 \/ s = k.hi)
BY DEF Span, Key

LEMMA InSpanned ==
    ASSUME NEW K \in SUBSET Key, NEW s
    PROVE  /\ s \in Spanned(K) <=> \E k \in K : s \in Span(k)
           /\ s \in Spanned(K) => s \in Nat
BY InSpan DEF Spanned

LEMMA KeyIs ==
    ASSUME NEW k \in Key, k.level = 0
    PROVE  k = Segment(k.epoch, k.hi)
BY DEF Key, Segment

\* A step of the lane that commits nothing keeps what a reader at epoch e may
\* have read: objects of what is not committed stay as they are or are
\* superseded, and what the step puts at the start of the epoch comes from the
\* epoch's writer.
Carries(c, e) ==
    /\ top' \in Nat /\ top <= top'
    /\ Superseded(e) => Superseded(e)'
    /\ \A g \in Handle : e # 0 /\ Waking(g)' => epoch'[g] # e
    /\ \A g \in Handle : e # 0 /\ Up(g)' /\ epoch'[g] = e =>
          Up(g) /\ epoch[g] = e /\ own'[g] = own[g]
    /\ \A s : Segment(e, s) \in Objects /\ <<e, s>> \notin DOMAIN c =>
          \/ Superseded(e)'
          \/ Segment(e, s) \in Objects' /\ bucket'[Segment(e, s)] = bucket[Segment(e, s)]
    /\ Segment(e, 0) \in Objects' /\ <<e, 0>> \notin DOMAIN c =>
          \/ Segment(e, 0) \in Objects /\ bucket'[Segment(e, 0)] = bucket[Segment(e, 0)]
          \/ \E g \in Handle : /\ Up(g) /\ epoch[g] = e
                              /\ own[g] \subseteq bucket'[Segment(e, 0)]

LEMMA ReaderCarried ==
    ASSUME NEW c, NEW r \in Reader, ReaderStory(c, r), UNCHANGED readerVars,
           top \in Nat, peerEpoch[r] \in Nat, NEW e, e = peerEpoch[r], Carries(c, e)
    PROVE  ReaderStory(c, r)'
<1> USE DEF Carries
<1>1. /\ peerEpoch'[r] = e /\ applied'[r] = applied[r] /\ wanted'[r] = wanted[r]
      /\ refreshing'[r] = refreshing[r] /\ view'[r] = view[r] /\ due'[r] = due[r]
  BY DEF readerVars
<1>2. ASSUME NEW s, Heard(c, r, s)
      PROVE  Heard(c, r, s)'
  <2>1. CASE <<e, s>> \in DOMAIN c
    BY <1>1, <1>2, <2>1 DEF Heard
  <2>2. CASE <<e, s>> \notin DOMAIN c
    BY <1>1, <1>2, <2>2 DEF Heard
  <2> QED
    BY <2>1, <2>2
<1>3. ASSUME NEW s, NEW d, Gives(c, r, s, d), e # 0
      PROVE  Gives(c, r, s, d)'
  <2>1. CASE <<e, s>> \in DOMAIN c
    BY <1>1, <1>3, <2>1 DEF Gives
  <2>2. CASE <<e, s>> \notin DOMAIN c
    <3>1. /\ s = 0
          /\ Segment(e, 0) \in Objects => Covers(bucket[Segment(e, 0)], {d})
          /\ \A g \in Handle : Up(g) /\ epoch[g] = e => Covers(own[g], {d})
          /\ 0 \in Spanned(applied[r]) => Covers(view[r], {d})
      BY <1>3, <2>2 DEF Gives
    <3>2. ASSUME Segment(e, 0) \in Objects'
          PROVE  Covers(bucket'[Segment(e, 0)], {d})
      <4>1. CASE Segment(e, 0) \in Objects /\ bucket'[Segment(e, 0)] = bucket[Segment(e, 0)]
        BY <3>1, <4>1
      <4>2. ASSUME NEW g \in Handle, Up(g), epoch[g] = e, own[g] \subseteq bucket'[Segment(e, 0)]
            PROVE  Covers(bucket'[Segment(e, 0)], {d})
        BY <3>1, <4>2, CoversSubset, CoversTrans
      <4> QED
        BY <2>2, <3>1, <3>2, <4>1, <4>2
    <3>3. \A g \in Handle : Up(g)' /\ epoch'[g] = e => Covers(own'[g], {d})
      BY <1>3, <3>1
    <3> QED
      BY <1>1, <2>2, <3>1, <3>2, <3>3 DEF Gives
  <2> QED
    BY <2>1, <2>2
<1>4. \A d \in due[r] : e # 0 /\ \E s \in Spanned(applied[r] \cup wanted[r]) : Gives(c, r, s, d)'
  BY <1>3 DEF ReaderStory
<1>5. \A s \in Spanned(applied[r]) : Heard(c, r, s)'
  BY <1>2 DEF ReaderStory
<1>6. peerEpoch[r] <= top'
  BY DEF ReaderStory
<1>7. ~refreshing[r] => wanted[r] = {} /\ due[r] = {}
  BY DEF ReaderStory
<1> QED
  BY <1>1, <1>4, <1>5, <1>6, <1>7 DEF ReaderStory

\* So does what is said of commits, when nothing is committed.
LEMMA CommitsCarried ==
    ASSUME NEW c, CommitsStory(c), acked' = acked,
           top \in Nat, top' \in Nat, top <= top'
    PROVE  CommitsStory(c)'
<1>1. \A e : AckedUpTo(e)' = AckedUpTo(e)
  BY DEF AckedUpTo
<1>2. DOMAIN c \subseteq Nat \X Nat
  BY DEF CommitsStory
<1>3. \A p \in DOMAIN c : p[1] \in Nat
  BY <1>2
<1>4. \A p \in DOMAIN c :
         /\ p[1] <= top
         /\ \A s \in Nat : s < p[2] => <<p[1], s>> \in DOMAIN c
         /\ p[2] = 0 => Covers(c[p], AckedUpTo(p[1] - 1))
  BY DEF CommitsStory
<1>5. \A a \in acked : \E s \in Nat : <<a[1], s>> \in DOMAIN c /\ a[2] \in c[<<a[1], s>>]
  BY DEF CommitsStory
<1>6. \A p \in DOMAIN c : p[1] <= top'
  BY <1>3, <1>4
<1>7. \A p \in DOMAIN c : p[2] = 0 => Covers(c[p], AckedUpTo(p[1] - 1)')
  BY <1>1, <1>4
<1> QED
  BY <1>2, <1>4, <1>5, <1>6, <1>7 DEF CommitsStory

-----------------------------------------------------------------------------
(***************************************************************************)
(* Steps of the lane that write nothing.                                   *)
(***************************************************************************)

\* Handles give up their claims, wake under epochs of their own, or stay as they
\* were but for what they stage.
Still ==
    /\ bucket' = bucket /\ acked' = acked
    /\ top' \in Nat /\ top <= top'
    /\ \A g \in Handle :
          /\ Up(g)' => \/ /\ Up(g) /\ epoch'[g] = epoch[g]
                          /\ own'[g] = own[g] /\ nextSeq'[g] = nextSeq[g]
                       \/ Waking(g) /\ epoch'[g] = epoch[g] /\ nextSeq'[g] = 0
          /\ Waking(g)' => \/ Waking(g) /\ epoch'[g] = epoch[g]
                           \/ epoch'[g] \in Nat /\ top < epoch'[g]

LEMMA StillStory ==
    ASSUME TypeInv, ReaderTypeOK, NEW c, Story(c), Still, UNCHANGED readerVars
    PROVE  Story(c)'
<1>0. /\ top \in Nat /\ top' \in Nat /\ top <= top'
      /\ bucket' = bucket /\ acked' = acked /\ Objects' = Objects
      /\ \A g \in Handle : epoch[g] \in Nat
      /\ \A r \in Reader : peerEpoch[r] \in Nat /\ peerEpoch[r] <= top
  BY DEF Still, TypeInv, TypeOK, ReaderTypeOK, Objects, Story, ReaderStory
<1>1. CommitsStory(c)'
  BY <1>0, CommitsCarried DEF Story, LaneStory
<1>2. ASSUME NEW g \in Handle
      PROVE  HandleStory(c, g)'
  <2>1. HandleStory(c, g)
    BY DEF Story, LaneStory
  <2>2. ASSUME Waking(g)', NEW s \in Nat
        PROVE  <<epoch'[g], s>> \notin DOMAIN c
    <3>1. CASE Waking(g) /\ epoch'[g] = epoch[g]
      BY <2>1, <3>1 DEF HandleStory
    <3>2. CASE epoch'[g] \in Nat /\ top < epoch'[g]
      <4>1. ASSUME <<epoch'[g], s>> \in DOMAIN c  PROVE epoch'[g] <= top
        <5>1. \A p \in DOMAIN c : p[1] <= top
          BY DEF Story, LaneStory, CommitsStory
        <5> QED
          BY <4>1, <5>1
      <4> QED
        BY <1>0, <3>2, <4>1
    <3> QED
      BY <2>2, <3>1, <3>2 DEF Still
  <2>3. ASSUME Up(g)', NEW s \in Nat
        PROVE  /\ <<epoch'[g], s>> \in DOMAIN c <=> s < nextSeq'[g]
               /\ s < nextSeq'[g] => Covers(own'[g], c[<<epoch'[g], s>>])
    <3>1. CASE Up(g) /\ epoch'[g] = epoch[g] /\ own'[g] = own[g] /\ nextSeq'[g] = nextSeq[g]
      BY <2>1, <3>1 DEF HandleStory
    <3>2. CASE Waking(g) /\ epoch'[g] = epoch[g] /\ nextSeq'[g] = 0
      BY <2>1, <3>2 DEF HandleStory
    <3> QED
      BY <2>3, <3>1, <3>2 DEF Still
  <2> QED
    BY <2>2, <2>3 DEF HandleStory
<1>3. \A k \in Objects' : ObjectStory(c, k)'
  BY <1>0 DEF Story, LaneStory, ObjectStory
<1>4. PresentStory(c)'
  BY <1>0, SameLineages DEF Story, LaneStory, PresentStory
<1>5. ASSUME NEW r \in Reader
      PROVE  ReaderStory(c, r)'
  <2>1. ReaderStory(c, r)
    BY DEF Story
  <2>2. PICK e : e = peerEpoch[r]
    OBVIOUS
  <2>3. \A g \in Handle : e # 0 /\ Waking(g) => epoch[g] # e
    BY <2>1, <2>2 DEF ReaderStory
  <2>4. \A g \in Handle : e # 0 /\ Waking(g)' => epoch'[g] # e
    BY <1>0, <2>2, <2>3 DEF Still
  <2>5. \A g \in Handle : e # 0 /\ Up(g)' /\ epoch'[g] = e =>
            Up(g) /\ epoch[g] = e /\ own'[g] = own[g]
    BY <1>0, <2>3 DEF Still
  <2>6. Superseded(e) => Superseded(e)'
    BY <1>0, SameLineages
  <2>7. Carries(c, e)
    BY <1>0, <2>4, <2>5, <2>6 DEF Carries
  <2> QED
    BY <1>0, <2>1, <2>2, <2>7, ReaderCarried
<1> QED
  BY <1>1, <1>2, <1>3, <1>4, <1>5 DEF Story, LaneStory

LEMMA StillActions ==
    ASSUME TypeInv, LaneInv, ~EarlyWakes, NEW h \in Handle,
           \/ Quiet(h) \/ ClaimLane(h) \/ ListLane(h) \/ FetchLane(h) \/ GcList(h)
    PROVE  Still
<1> USE DEF TypeInv, TypeOK, Up, Waking
<1>1. CASE Quiet(h)
  <2>1. \A g \in Handle \ {h} : /\ phase'[g] = phase[g] /\ epoch'[g] = epoch[g]
                                /\ own'[g] = own[g] /\ nextSeq'[g] = nextSeq[g]
    BY <1>1 DEF Quiet, Local
  <2>2. bucket' = bucket /\ acked' = acked /\ top' = top
    BY <1>1 DEF Quiet
  <2>3. Up(h)' => Up(h) /\ epoch'[h] = epoch[h] /\ own'[h] = own[h] /\ nextSeq'[h] = nextSeq[h]
    BY <1>1 DEF Quiet
  <2>4. Waking(h)' => Waking(h) /\ epoch'[h] = epoch[h]
    BY <1>1 DEF Quiet
  <2> QED
    BY <2>1, <2>2, <2>3, <2>4 DEF Still
<1>2. CASE ClaimLane(h)
  BY <1>2 DEF ClaimLane, Reset, ownerVars, localVars, Tokens!Issue, Still
<1>3. CASE ListLane(h)
  BY <1>3 DEF ListLane, ownerVars, localVars, Still
<1>4. CASE FetchLane(h)
  <2>1. Waking(h) /\ nextSeq[h] = 0
    BY <1>4 DEF FetchLane, LaneInv, TokensInv, WakingInv
  <2> QED
    BY <1>4, <2>1 DEF FetchLane, ownerVars, localVars, Still
<1>5. CASE GcList(h)
  BY <1>5 DEF GcList, ownerVars, localVars, Still
<1> QED
  BY <1>1, <1>2, <1>3, <1>4, <1>5

-----------------------------------------------------------------------------
(***************************************************************************)
(* gc() deletes.                                                           *)
(***************************************************************************)

\* What is deleted was superseded and stays so, or an L1 object that stays tells
\* it too; and what was superseded stays so.
LEMMA DeletedIsCovered ==
    ASSUME TypeInv, LaneInv, NEW h \in Handle, NEW k0 \in doomed[h], GcDelete(h, k0)
    PROVE  /\ Objects' = Objects \ {k0} /\ \A k \in Objects' : bucket'[k] = bucket[k]
           /\ k0 \in Key
           /\ \A e \in Nat : Superseded(e) => Superseded(e)'
           /\ \/ Superseded(k0.epoch)
              \/ \E w \in Objects' : w.epoch = k0.epoch /\ w.level = 1 /\ k0.hi <= w.hi
<1>1. Objects' = Objects \ {k0} /\ \A k \in Objects' : bucket'[k] = bucket[k]
  BY DEF GcDelete, Objects
<1>2. k0 \in Key /\ Objects \subseteq Key
  BY DEF TypeInv, TypeOK, Objects
<1>3. \/ Superseded(k0.epoch)
      \/ \E w \in Objects' : w.epoch = k0.epoch /\ w.level = 1 /\ k0.hi <= w.hi
  <2> SUFFICES ASSUME ~Superseded(k0.epoch)
               PROVE  \E w \in Objects' : w.epoch = k0.epoch /\ w.level = 1 /\ k0.hi <= w.hi
    OBVIOUS
  <2>1. k0.level = 0 \/ k0.hi = 0
    BY DEF LaneInv, DoomedInv
  <2>2. PICK w \in Objects : w.epoch = k0.epoch /\ w.level = 1 /\ w.hi > 0 /\ k0.hi <= w.hi
    BY DEF LaneInv, DoomedInv
  <2>3. w # k0
    BY <2>1, <2>2
  <2> QED
    BY <1>1, <2>2, <2>3
<1>4. ASSUME NEW e \in Nat, Superseded(e)
      PROVE  Superseded(e)'
  <2>1. PICK w \in Objects : w.epoch > e /\ HeadKey(w)
    BY <1>4 DEF Superseded
  <2>2. PICK v \in Objects : HeadKey(v) /\ w.epoch <= v.epoch /\ ~Superseded(v.epoch)
    BY <2>1, NewestHead DEF LaneInv
  <2>3. v.epoch > e
    BY <1>2, <2>1, <2>2 DEF Key
  <2>4. CASE v # k0
    <3>1. v \in Objects'
      BY <1>1, <2>4
    <3> QED
      BY <2>2, <2>3, <3>1 DEF Superseded
  <2>5. CASE v = k0
    <3>1. PICK u \in Objects' : u.epoch = v.epoch /\ u.level = 1
      BY <1>3, <2>2, <2>5
    <3> QED
      BY <2>3, <3>1 DEF Superseded, HeadKey
  <2> QED
    BY <2>4, <2>5
<1> QED
  BY <1>1, <1>2, <1>3, <1>4

\* Everything up to the end of an L1 object is committed.
LEMMA CompactedIsCommitted ==
    ASSUME NEW c, NEW w \in Key, ObjectStory(c, w), w.level = 1, NEW s \in Nat, s <= w.hi
    PROVE  <<w.epoch, s>> \in DOMAIN c
<1>1. CASE s = w.hi
  BY <1>1 DEF ObjectStory
<1>2. CASE s < w.hi
  BY <1>2 DEF ObjectStory
<1> QED
  BY <1>1, <1>2 DEF Key

LEMMA GcDeleteStory ==
    ASSUME TypeInv, LaneInv, ReaderTypeOK, NEW c, Story(c), UNCHANGED readerVars,
           NEW h \in Handle, NEW k0 \in doomed[h], GcDelete(h, k0)
    PROVE  Story(c)'
<1>1. /\ Objects' = Objects \ {k0} /\ \A k \in Objects' : bucket'[k] = bucket[k]
      /\ k0 \in Key
      /\ \A e \in Nat : Superseded(e) => Superseded(e)'
      /\ \/ Superseded(k0.epoch)
         \/ \E w \in Objects' : w.epoch = k0.epoch /\ w.level = 1 /\ k0.hi <= w.hi
  BY DeletedIsCovered
<1>2. UNCHANGED <<top, phase, epoch, own, nextSeq, acked>> /\ top \in Nat
  BY DEF GcDelete, ownerVars, localVars, TypeInv, TypeOK
<1>3. Objects \subseteq Key
  BY DEF TypeInv, TypeOK, Objects
<1>4. CommitsStory(c)'
  BY <1>2, CommitsCarried DEF Story, LaneStory
<1>5. \A g \in Handle : HandleStory(c, g)'
  BY <1>2 DEF Story, LaneStory, HandleStory, Up, Waking
<1>6. \A k \in Objects' : ObjectStory(c, k)'
  BY <1>1 DEF Story, LaneStory, ObjectStory
<1>7. ASSUME NEW p \in DOMAIN c
      PROVE  Superseded(p[1])' \/ Present(p[1], p[2])'
  <2>1. PICK e \in Nat, s \in Nat : e = p[1] /\ s = p[2]
    BY <1>7 DEF Story, LaneStory, CommitsStory
  <2>2. Superseded(e) \/ Present(e, s)
    BY <2>1 DEF Story, LaneStory, PresentStory
  <2>3. CASE Superseded(e)
    BY <1>1, <2>1, <2>3
  <2>4. ASSUME ~Superseded(e), k0.epoch = e, s <= k0.hi
        PROVE  Present(e, s)'
    <3>1. PICK w \in Objects' : w.epoch = e /\ w.level = 1 /\ k0.hi <= w.hi
      BY <1>1, <2>4
    <3>2. s <= w.hi
      BY <1>1, <1>3, <2>4, <3>1 DEF Key
    <3> QED
      BY <3>1, <3>2 DEF Present
  <2>5. CASE ~Superseded(e) /\ Segment(e, s) \in Objects
    <3>1. CASE Segment(e, s) = k0
      BY <2>1, <2>4, <2>5, <3>1 DEF Segment
    <3>2. CASE Segment(e, s) # k0
      BY <1>1, <2>1, <2>5, <3>2 DEF Present
    <3> QED
      BY <3>1, <3>2
  <2>6. ASSUME ~Superseded(e), NEW w \in Objects, w.epoch = e, w.level = 1, s <= w.hi
        PROVE  Superseded(p[1])' \/ Present(p[1], p[2])'
    <3>1. CASE w = k0
      BY <2>1, <2>4, <2>6, <3>1
    <3>2. CASE w # k0
      <4>1. w \in Objects'
        BY <1>1, <3>2
      <4> QED
        BY <2>1, <2>6, <4>1 DEF Present
    <3> QED
      BY <3>1, <3>2
  <2> QED
    BY <2>2, <2>3, <2>5, <2>6 DEF Present
<1>8. ASSUME NEW r \in Reader
      PROVE  ReaderStory(c, r)'
  <2>1. ReaderStory(c, r)
    BY DEF Story
  <2>2. PICK e \in Nat : e = peerEpoch[r]
    BY DEF ReaderTypeOK
  <2>3. ASSUME NEW s, Segment(e, s) \in Objects, <<e, s>> \notin DOMAIN c
        PROVE  \/ Superseded(e)'
               \/ Segment(e, s) \in Objects' /\ bucket'[Segment(e, s)] = bucket[Segment(e, s)]
    <3>1. CASE Segment(e, s) # k0
      BY <1>1, <2>3, <3>1
    <3>2. CASE Segment(e, s) = k0 /\ ~Superseded(e)
      <4>1. k0.epoch = e /\ k0.hi = s /\ s \in Nat
        BY <1>1, <3>2 DEF Segment, Key
      <4>2. PICK w \in Objects' : w.epoch = e /\ w.level = 1 /\ s <= w.hi
        BY <1>1, <3>2, <4>1
      <4>3. w \in Objects /\ w \in Key /\ ObjectStory(c, w)
        BY <1>1, <1>3, <4>2 DEF Story, LaneStory
      <4> QED
        BY <2>3, <4>1, <4>2, <4>3, CompactedIsCommitted
    <3> QED
      BY <1>1, <3>1, <3>2
  <2>4. /\ \A g \in Handle : e # 0 /\ Waking(g)' => epoch'[g] # e
        /\ \A g \in Handle : e # 0 /\ Up(g)' /\ epoch'[g] = e =>
              Up(g) /\ epoch[g] = e /\ own'[g] = own[g]
    BY <1>2, <2>1, <2>2 DEF ReaderStory, Up, Waking
  <2>5. Segment(e, 0) \in Objects' =>
           Segment(e, 0) \in Objects /\ bucket'[Segment(e, 0)] = bucket[Segment(e, 0)]
    BY <1>1
  <2>6. Superseded(e) => Superseded(e)'
    BY <1>1
  <2>7. top' \in Nat /\ top <= top'
    BY <1>2
  <2>8. Carries(c, e)
    BY <2>3, <2>4, <2>5, <2>6, <2>7 DEF Carries
  <2> QED
    BY <1>2, <2>1, <2>2, <2>8, ReaderCarried
<1> QED
  BY <1>4, <1>5, <1>6, <1>7, <1>8 DEF Story, LaneStory, PresentStory

-----------------------------------------------------------------------------
(***************************************************************************)
(* flush() and compact() put an object.                                    *)
(***************************************************************************)

LEMMA WriteStory ==
    ASSUME TypeInv, LaneInv, ReaderTypeOK, NEW c, Story(c), UNCHANGED readerVars,
           NEW h \in Handle, NEW k0 \in Key, NEW body, Writes(h, k0, body),
           k0 \in Objects => bucket[k0] = body,
           \A s \in Span(k0) : <<k0.epoch, s>> \in DOMAIN c => Covers(body, c[<<k0.epoch, s>>]),
           k0.level = 1 => <<k0.epoch, k0.hi>> \in DOMAIN c,
           \A s \in Nat : s < k0.hi => <<k0.epoch, s>> \in DOMAIN c,
           k0.level = 0 /\ k0.hi = 0 => own[h] \subseteq body
    PROVE  Story(c)'
<1>1. /\ Objects' = Objects \cup {k0} /\ bucket'[k0] = body
      /\ \A k \in Objects : bucket'[k] = bucket[k]
  BY DEF Writes, Put, Objects
<1>2. /\ UNCHANGED <<top, epoch, own, nextSeq, acked>> /\ top \in Nat
      /\ \A g \in Handle \ {h} : phase'[g] = phase[g]
      /\ Up(h) /\ Up(h)' /\ k0.epoch = epoch[h]
  BY DEF Writes, ownerVars, TypeInv, TypeOK, Up
<1>3. \A g \in Handle : (Up(g)' <=> Up(g)) /\ (Waking(g)' <=> Waking(g))
  BY <1>2 DEF Up, Waking
<1>4. CommitsStory(c)'
  BY <1>2, CommitsCarried DEF Story, LaneStory
<1>5. \A g \in Handle : HandleStory(c, g)'
  BY <1>2, <1>3 DEF Story, LaneStory, HandleStory
<1>6. ASSUME NEW k \in Objects'
      PROVE  ObjectStory(c, k)'
  <2>1. CASE k \in Objects
    BY <1>1, <2>1 DEF Story, LaneStory, ObjectStory
  <2>2. CASE k = k0
    BY <1>1, <2>2 DEF ObjectStory
  <2> QED
    BY <1>1, <2>1, <2>2
<1>7. \A e : Superseded(e) => Superseded(e)'
  BY <1>1 DEF Superseded
<1>8. \A e, s : Present(e, s) => Present(e, s)'
  BY <1>1 DEF Present
<1>9. PresentStory(c)'
  BY <1>7, <1>8 DEF Story, LaneStory, PresentStory
<1>10. ASSUME NEW r \in Reader
       PROVE  ReaderStory(c, r)'
  <2>1. ReaderStory(c, r)
    BY DEF Story
  <2>2. PICK e \in Nat : e = peerEpoch[r]
    BY DEF ReaderTypeOK
  <2>3. /\ \A g \in Handle : e # 0 /\ Waking(g)' => epoch'[g] # e
        /\ \A g \in Handle : e # 0 /\ Up(g)' /\ epoch'[g] = e =>
              Up(g) /\ epoch[g] = e /\ own'[g] = own[g]
    BY <1>2, <1>3, <2>1, <2>2 DEF ReaderStory
  <2>4. \A s : Segment(e, s) \in Objects /\ <<e, s>> \notin DOMAIN c =>
           \/ Superseded(e)'
           \/ Segment(e, s) \in Objects' /\ bucket'[Segment(e, s)] = bucket[Segment(e, s)]
    BY <1>1
  <2>5. ASSUME Segment(e, 0) \in Objects'
        PROVE  \/ Segment(e, 0) \in Objects /\ bucket'[Segment(e, 0)] = bucket[Segment(e, 0)]
               \/ \E g \in Handle : Up(g) /\ epoch[g] = e /\ own[g] \subseteq bucket'[Segment(e, 0)]
    <3>1. CASE Segment(e, 0) = k0
      <4>1. k0.level = 0 /\ k0.hi = 0 /\ k0.epoch = e
        BY <3>1 DEF Segment
      <4> QED
        BY <1>1, <1>2, <3>1, <4>1
    <3>2. CASE Segment(e, 0) # k0
      BY <1>1, <2>5, <3>2
    <3> QED
      BY <3>1, <3>2
  <2>6. top' \in Nat /\ top <= top' /\ (Superseded(e) => Superseded(e)')
    BY <1>2, <1>7
  <2>7. Carries(c, e)
    BY <2>3, <2>4, <2>5, <2>6 DEF Carries
  <2> QED
    BY <1>2, <2>1, <2>2, <2>7, ReaderCarried
<1> QED
  BY <1>4, <1>5, <1>6, <1>9, <1>10 DEF Story, LaneStory

LEMMA FlushPutStory ==
    ASSUME TypeInv, LaneInv, ReaderTypeOK, NEW c, Story(c), UNCHANGED readerVars,
           NEW h \in Handle, FlushPut(h),
           \A k \in Objects \cap Objects' : bucket'[k] = bucket[k]
    PROVE  Story(c)'
<1>1. PICK e \in Nat, n \in Nat, body \in SUBSET Record :
         e = epoch[h] /\ n = nextSeq[h] /\ body = Body(h)
  BY DEF TypeInv, TypeOK, Body
<1> DEFINE k0 == Segment(e, n)
<1>2. k0 \in Key /\ k0.level = 0 /\ k0.epoch = e /\ k0.hi = n
  BY DEF Segment, Key
<1>3. Up(h) /\ WriterInv(h) /\ HandleStory(c, h)
  BY DEF FlushPut, Active, Up, LaneInv, Story, LaneStory
<1>4. Writes(h, k0, body)
  BY <1>1, <1>2, <1>3 DEF FlushPut, Active, Writes, Up, Phase, TypeInv, TypeOK
<1>5. k0 \in Objects => bucket[k0] = body
  BY <1>4 DEF Writes, Put, Objects
<1>6. /\ \A s \in Span(k0) : <<k0.epoch, s>> \notin DOMAIN c
      /\ \A s \in Nat : s < k0.hi => <<k0.epoch, s>> \in DOMAIN c
  BY <1>1, <1>2, <1>3, InSpan DEF HandleStory
<1>7. k0.level = 0 /\ k0.hi = 0 => own[h] \subseteq body
  BY <1>1, <1>2, <1>3 DEF WriterInv, Body
<1> HIDE DEF k0
<1>8. \A s \in Span(k0) : <<k0.epoch, s>> \in DOMAIN c => Covers(body, c[<<k0.epoch, s>>])
  BY <1>6
<1>9. k0.level # 1
  BY <1>2
<1> QED
  BY <1>2, <1>4, <1>5, <1>6, <1>7, <1>8, <1>9, WriteStory

LEMMA CompactPutStory ==
    ASSUME TypeInv, LaneInv, ReaderTypeOK, NEW c, Story(c), UNCHANGED readerVars,
           NEW h \in Handle, CompactPut(h),
           \A k \in Objects \cap Objects' : bucket'[k] = bucket[k]
    PROVE  Story(c)'
<1>1. PICK e \in Nat, n \in Nat, body \in SUBSET Record :
         e = epoch[h] /\ n = nextSeq[h] /\ body = own[h]
  BY DEF TypeInv, TypeOK
<1> DEFINE k0 == Compaction(e, n - 1)
<1>2. Up(h) /\ WriterInv(h) /\ HandleStory(c, h)
  BY DEF CompactPut, Up, LaneInv, Story, LaneStory
<1>3. n - 1 \in Nat
  BY <1>1, <1>2 DEF CompactPut, WriterInv
<1>4. k0 \in Key /\ k0.level = 1 /\ k0.epoch = e /\ k0.hi = n - 1
  BY <1>3 DEF Compaction, Key
<1>5. Writes(h, k0, body)
  BY <1>1, <1>2, <1>4 DEF CompactPut, Writes, Up, Phase, TypeInv, TypeOK
<1>6. k0 \in Objects => bucket[k0] = body
  BY <1>5 DEF Writes, Put, Objects
<1>7. \A s \in Nat : s < n => <<e, s>> \in DOMAIN c /\ Covers(body, c[<<e, s>>])
  BY <1>1, <1>2 DEF HandleStory
<1>8. /\ \A s \in Span(k0) : Covers(body, c[<<k0.epoch, s>>])
      /\ <<k0.epoch, k0.hi>> \in DOMAIN c
      /\ \A s \in Nat : s < k0.hi => <<k0.epoch, s>> \in DOMAIN c
  <2> HIDE DEF k0
  <2>1. \A s \in Span(k0) : s \in Nat /\ s < n
    BY <1>3, <1>4, InSpan
  <2>2. n - 1 < n /\ \A s \in Nat : s < n - 1 => s < n
    BY <1>3
  <2> QED
    BY <1>3, <1>4, <1>7, <2>1, <2>2
<1> HIDE DEF k0
<1> QED
  BY <1>4, <1>5, <1>6, <1>8, WriteStory

-----------------------------------------------------------------------------
(***************************************************************************)
(* flush() acknowledges: one commit more.                                  *)
(***************************************************************************)

LEMMA FlushAckStory ==
    ASSUME TypeInv, LaneInv, ReaderTypeOK, NEW c, Story(c), UNCHANGED readerVars,
           NEW h \in Handle, FlushAck(h)
    PROVE  \E c2 : Story(c2)'
<1>1. PICK e \in Nat, n \in Nat, body \in SUBSET Record :
         e = epoch[h] /\ n = nextSeq[h] /\ body = Body(h)
  BY DEF TypeInv, TypeOK, Body
<1>2. PICK p0, k0 : p0 = <<e, n>> /\ k0 = Segment(e, n)
  OBVIOUS
<1>3. PICK c2 : c2 = [q \in DOMAIN c \cup {p0} |-> IF q = p0 THEN body ELSE c[q]]
  OBVIOUS
<1>4. /\ WriterInv(h) /\ Up(h) /\ phase[h] = "put" /\ e # 0 /\ top = e /\ HandleStory(c, h)
      /\ CommitsStory(c) /\ PresentStory(c) /\ \A k \in Objects : ObjectStory(c, k)
  BY <1>1 DEF FlushAck, Up, Named, LaneInv, TokensInv, Story, LaneStory
<1>5. Objects \subseteq Key /\ DOMAIN c \subseteq Nat \X Nat
  BY <1>4 DEF TypeInv, TypeOK, Objects, CommitsStory
<1>6. ~Superseded(e)
  BY <1>4, <1>5 DEF Superseded, LaneInv, TokensInv, Key
<1>7. k0 \in Objects /\ bucket[k0] = body /\ Covers(own[h], AckedUpTo(e))
  BY <1>1, <1>2, <1>4, <1>6 DEF WriterInv
<1>8. /\ staged[h] \subseteq body /\ body \subseteq own[h] \cup staged[h]
      /\ n = 0 => own[h] \subseteq body
  BY <1>1, <1>4 DEF Body, WriterInv
<1>9. \A s \in Nat : /\ <<e, s>> \in DOMAIN c <=> s < n
                     /\ s < n => Covers(own[h], c[<<e, s>>])
  BY <1>1, <1>4 DEF HandleStory
<1>10. p0 \notin DOMAIN c
  BY <1>2, <1>9
<1>11. /\ DOMAIN c2 = DOMAIN c \cup {p0} /\ c2[p0] = body
       /\ \A q \in DOMAIN c : c2[q] = c[q]
  BY <1>3, <1>10
<1>12. /\ UNCHANGED <<top, epoch>> /\ bucket' = bucket /\ Objects' = Objects
       /\ acked' = acked \cup ({e} \X staged[h])
       /\ own'[h] = Replay(own[h] \cup staged[h]) /\ nextSeq'[h] = n + 1
       /\ phase'[h] \in {"ready", "compacting"}
       /\ \A g \in Handle \ {h} : phase'[g] = phase[g] /\ own'[g] = own[g] /\ nextSeq'[g] = nextSeq[g]
  BY <1>1 DEF FlushAck, Acknowledge, ownerVars, Objects, TypeInv, TypeOK
<1>13. \A f \in Nat : f < e => AckedUpTo(f)' = AckedUpTo(f)
  <2>1. \A a \in {e} \X staged[h] : a[1] = e
    OBVIOUS
  <2> QED
    BY <1>12, <2>1 DEF AckedUpTo
<1>14. CommitsStory(c2)'
  <2>1. ASSUME NEW p \in DOMAIN c
        PROVE  /\ p[1] <= top /\ p[1] \in Nat /\ p[2] \in Nat
               /\ \A s \in Nat : s < p[2] => <<p[1], s>> \in DOMAIN c2
               /\ p[2] = 0 => Covers(c2[p], AckedUpTo(p[1] - 1)')
    <3>1. p[1] \in Nat /\ p[2] \in Nat /\ p[1] <= top
      BY <1>4, <1>5, <2>1 DEF CommitsStory
    <3>2. \A s \in Nat : s < p[2] => <<p[1], s>> \in DOMAIN c2
      BY <1>4, <1>11 DEF CommitsStory
    <3>3. AckedUpTo(p[1] - 1)' = AckedUpTo(p[1] - 1)
      <4>1. CASE p[1] = 0
        <5>1. \A a \in {e} \X staged[h] : a[1] = e
          OBVIOUS
        <5>2. ~(e <= p[1] - 1)
          BY <1>4, <4>1
        <5> QED
          BY <1>12, <5>1, <5>2 DEF AckedUpTo
      <4>2. CASE p[1] # 0
        BY <1>4, <1>13, <3>1, <4>2
      <4> QED
        BY <4>1, <4>2
    <3>4. p[2] = 0 => Covers(c[p], AckedUpTo(p[1] - 1))
      BY <1>4 DEF CommitsStory
    <3> QED
      BY <1>11, <3>1, <3>2, <3>3, <3>4
  <2>2. \A s \in Nat : s < n => <<e, s>> \in DOMAIN c2
    BY <1>9, <1>11
  <2>3. ASSUME n = 0  PROVE Covers(body, AckedUpTo(e - 1)')
    <3>1. AckedUpTo(e - 1)' = AckedUpTo(e - 1)
      BY <1>4, <1>13
    <3>2. AckedUpTo(e - 1) \subseteq AckedUpTo(e)
      <4>1. \A a \in acked : a[1] \in Nat
        BY DEF TypeInv, TypeOK
      <4> QED
        BY <4>1 DEF AckedUpTo
    <3> QED
      BY <1>7, <1>8, <2>3, <3>1, <3>2 DEF Covers, Killed
  <2>4. ASSUME NEW a \in acked'
        PROVE  \E s \in Nat : <<a[1], s>> \in DOMAIN c2 /\ a[2] \in c2[<<a[1], s>>]
    <3>1. CASE a \in acked
      <4>1. PICK s \in Nat : <<a[1], s>> \in DOMAIN c /\ a[2] \in c[<<a[1], s>>]
        BY <1>4, <3>1 DEF CommitsStory
      <4> QED
        BY <1>11, <4>1
    <3>2. CASE a \in {e} \X staged[h]
      <4>1. a[1] = e /\ a[2] \in body
        BY <1>8, <3>2
      <4> QED
        BY <1>2, <1>11, <4>1
    <3> QED
      BY <1>12, <3>1, <3>2
  <2>5. p0[1] = e /\ p0[2] = n
    BY <1>2
  <2> QED
    BY <1>4, <1>5, <1>11, <1>12, <2>1, <2>2, <2>3, <2>4, <2>5, <1>2 DEF CommitsStory
<1>15. ASSUME NEW g \in Handle \ {h}, epoch[g] # 0
       PROVE  epoch[g] # e
  BY <1>1, <1>4, <1>15, EpochsDiffer DEF LaneInv
<1>16. ASSUME NEW g \in Handle
       PROVE  HandleStory(c2, g)'
  <2>1. CASE g = h
    <3>1. Up(h)' /\ ~Waking(h)'
      BY <1>1, <1>4, <1>12 DEF Up, Waking
    <3>2. \A s \in Nat : <<e, s>> \in DOMAIN c2 <=> s < n + 1
      BY <1>2, <1>9, <1>11
    <3>3. Covers(own'[h], own[h] \cup staged[h])
      BY <1>12, CoversReplay
    <3>4. Covers(own'[h], own[h]) /\ Covers(own'[h], body)
      BY <1>8, <3>3 DEF Covers
    <3>5. \A s \in Nat : s < n + 1 => Covers(own'[h], c2[<<e, s>>])
      <4>1. ASSUME NEW s \in Nat, s < n  PROVE Covers(own'[h], c2[<<e, s>>])
        BY <1>9, <1>11, <3>4, <4>1, CoversTrans
      <4> QED
        BY <1>2, <1>11, <3>4, <4>1
    <3> QED
      BY <1>1, <1>12, <2>1, <3>1, <3>2, <3>5 DEF HandleStory
  <2>2. CASE g # h
    <3>1. HandleStory(c, g) /\ (Up(g)' <=> Up(g)) /\ (Waking(g)' <=> Waking(g))
      BY <1>12, <2>2 DEF Story, LaneStory, Up, Waking
    <3>2. ASSUME Up(g) \/ Waking(g), NEW s
          PROVE  /\ <<epoch[g], s>> \in DOMAIN c2 <=> <<epoch[g], s>> \in DOMAIN c
                 /\ <<epoch[g], s>> \in DOMAIN c => c2[<<epoch[g], s>>] = c[<<epoch[g], s>>]
      BY <1>2, <1>11, <1>15, <2>2, <3>2 DEF Up, Waking
    <3>3. ASSUME Waking(g)
          PROVE  \A s \in Nat : <<epoch[g], s>> \notin DOMAIN c2
      BY <3>1, <3>2, <3>3 DEF HandleStory
    <3>4. ASSUME Up(g), NEW s \in Nat
          PROVE  /\ <<epoch[g], s>> \in DOMAIN c2 <=> s < nextSeq[g]
                 /\ s < nextSeq[g] => Covers(own[g], c2[<<epoch[g], s>>])
      BY <3>1, <3>2, <3>4 DEF HandleStory
    <3> QED
      BY <1>12, <2>2, <3>1, <3>3, <3>4 DEF HandleStory
  <2> QED
    BY <2>1, <2>2
<1>17. ASSUME NEW k \in Objects
       PROVE  ObjectStory(c2, k)'
  <2>1. ObjectStory(c, k) /\ k \in Key
    BY <1>4, <1>5
  <2>2. ASSUME NEW s \in Span(k), <<k.epoch, s>> \in DOMAIN c2
        PROVE  Covers(bucket[k], c2[<<k.epoch, s>>])
    <3>1. CASE <<k.epoch, s>> \in DOMAIN c
      BY <1>11, <2>1, <3>1 DEF ObjectStory
    <3>2. CASE k.epoch = e /\ s = n
      <4>1. s \in Nat /\ s <= k.hi /\ (k.level = 1 \/ s = k.hi)
        BY <2>1, InSpan
      <4>2. k.level = 0
        BY <1>1, <1>4, <2>1, <3>2, <4>1 DEF WriterInv, Key
      <4>3. k = k0
        BY <1>2, <2>1, <3>2, <4>1, <4>2, KeyIs
      <4> QED
        BY <1>2, <1>7, <1>11, <3>2, <4>3, CoversSubset
    <3> QED
      BY <1>2, <1>11, <2>2, <3>1, <3>2
  <2> QED
    BY <1>11, <1>12, <2>1, <2>2 DEF ObjectStory
<1>18. PresentStory(c2)'
  <2>1. Present(e, n)
    BY <1>2, <1>7 DEF Present
  <2>2. \A f, s : (Superseded(f)' <=> Superseded(f)) /\ (Present(f, s)' <=> Present(f, s))
    BY <1>12 DEF Superseded, Present
  <2>3. \A p \in DOMAIN c2 : Superseded(p[1]) \/ Present(p[1], p[2])
    BY <1>2, <1>4, <1>11, <2>1 DEF PresentStory
  <2> QED
    BY <2>2, <2>3 DEF PresentStory
<1>19. ASSUME NEW r \in Reader
       PROVE  ReaderStory(c2, r)'
  <2>1. ReaderStory(c, r)
    BY DEF Story
  <2>2. PICK f \in Nat : f = peerEpoch[r]
    BY DEF ReaderTypeOK
  <2>3. /\ peerEpoch'[r] = f /\ applied'[r] = applied[r] /\ wanted'[r] = wanted[r]
        /\ refreshing'[r] = refreshing[r] /\ view'[r] = view[r] /\ due'[r] = due[r]
    BY <2>2 DEF readerVars
  <2>4. Superseded(f)' <=> Superseded(f)
    BY <1>12 DEF Superseded
  <2>5. ASSUME NEW s, Heard(c, r, s)
        PROVE  Heard(c2, r, s)'
    <3>1. CASE <<f, s>> \in DOMAIN c
      BY <1>11, <2>2, <2>3, <2>5, <3>1 DEF Heard
    <3>2. CASE f = e /\ s = n
      <4>1. Covers(view[r], body)
        BY <1>2, <1>6, <1>7, <1>10, <2>2, <2>5, <3>2 DEF Heard
      <4> QED
        BY <1>2, <1>11, <2>3, <3>2, <4>1 DEF Heard
    <3>3. CASE <<f, s>> \notin DOMAIN c2
      BY <1>11, <1>12, <2>2, <2>3, <2>4, <2>5, <3>3 DEF Heard
    <3> QED
      BY <1>2, <1>11, <3>1, <3>2, <3>3
  <2>6. ASSUME NEW s, NEW d, Gives(c, r, s, d), f # 0
        PROVE  Gives(c2, r, s, d)'
    <3>1. CASE <<f, s>> \in DOMAIN c
      BY <1>11, <2>2, <2>3, <2>6, <3>1 DEF Gives
    <3>2. ASSUME <<f, s>> \notin DOMAIN c
          PROVE  /\ s = 0
                 /\ Segment(f, 0) \in Objects => Covers(bucket[Segment(f, 0)], {d})
                 /\ \A g \in Handle : Up(g) /\ epoch[g] = f => Covers(own[g], {d})
                 /\ 0 \in Spanned(applied[r]) => Covers(view[r], {d})
      BY <2>2, <2>6, <3>2 DEF Gives
    <3>3. CASE f = e /\ s = n
      <4>1. s = 0 /\ Covers(bucket[Segment(f, 0)], {d})
        BY <1>2, <1>7, <1>10, <3>2, <3>3
      <4> QED
        BY <1>2, <1>7, <1>11, <2>3, <3>3, <4>1 DEF Gives
    <3>4. CASE <<f, s>> \notin DOMAIN c2
      <4>1. ASSUME NEW g \in Handle, Up(g)', epoch'[g] = f
            PROVE  Covers(own'[g], {d})
        <5>1. g # h
          BY <1>1, <1>2, <1>9, <1>11, <1>12, <3>2, <3>4, <4>1
        <5>2. Up(g) /\ own'[g] = own[g] /\ epoch[g] = f
          BY <1>12, <4>1, <5>1 DEF Up
        <5> QED
          BY <1>11, <3>2, <3>4, <5>2
      <4> QED
        BY <1>11, <1>12, <2>3, <3>2, <3>4, <4>1 DEF Gives
    <3> QED
      BY <1>2, <1>11, <3>1, <3>3, <3>4
  <2>7. \A d \in due[r] :
           f # 0 /\ \E s \in Spanned(applied[r] \cup wanted[r]) : Gives(c2, r, s, d)'
    BY <2>1, <2>2, <2>6 DEF ReaderStory
  <2>8. \A s \in Spanned(applied[r]) : Heard(c2, r, s)'
    BY <2>1, <2>5 DEF ReaderStory
  <2>9. \A g \in Handle : f # 0 /\ Waking(g)' => epoch'[g] # f
    <3>1. \A g \in Handle : Waking(g)' => Waking(g) /\ epoch'[g] = epoch[g]
      BY <1>12 DEF Waking
    <3> QED
      BY <2>1, <2>2, <3>1 DEF ReaderStory
  <2>10. f <= top' /\ (~refreshing[r] => wanted[r] = {} /\ due[r] = {})
    BY <1>12, <2>1, <2>2 DEF ReaderStory
  <2> QED
    BY <2>3, <2>7, <2>8, <2>9, <2>10 DEF ReaderStory
<1>20. Story(c2)'
  BY <1>12, <1>14, <1>16, <1>17, <1>18, <1>19 DEF Story, LaneStory
<1> QED
  BY <1>20

-----------------------------------------------------------------------------
(***************************************************************************)
(* The types of readers.  A chain is of one epoch.                         *)
(***************************************************************************)

ReaderInv ==
    /\ ReaderTypeOK
    /\ applied \in [Reader -> SUBSET Key] /\ wanted \in [Reader -> SUBSET Key]

LEMMA ChainIsOfOneEpoch ==
    ASSUME TypeInv
    PROVE  /\ Chain \subseteq Objects /\ Objects \subseteq Key
           /\ \A j, k \in Chain : j.epoch = k.epoch
<1>1. Objects \subseteq Key /\ top + 1 \in Nat
  BY DEF TypeInv, TypeOK, Objects
<1>2. ASSUME NEW j \in Chain, NEW k \in Chain, j.epoch < k.epoch
      PROVE  FALSE
  <2>1. k \in Objects /\ k.epoch < top + 1 /\ InChain(Objects, k)
    BY DEF Chain, SelectChain, Objects
  <2>2. Heads(Objects, k.epoch) # {}
    BY <2>1 DEF InChain, IsHead, Follows
  <2> QED
    BY <1>2, <2>1, <2>2 DEF Chain, SelectChain, Objects
<1>3. Chain \subseteq Objects
  BY DEF Chain, SelectChain, Objects
<1> QED
  BY <1>1, <1>2, <1>3 DEF Key

\* What a refresh that found a chain takes as applied, and what it wants.
Listed(r, e, before, new) ==
    /\ Chain # {} /\ \A k \in Chain : k.epoch = e
    /\ before = StillApplied(r, e) /\ new \subseteq Chain
    /\ \A k \in Chain \ new : k \in before \/ SpansCover(before, k)
    /\ peerEpoch' = [peerEpoch EXCEPT ![r] = e]
    /\ applied' = [applied EXCEPT ![r] = before \cup (Chain \ new)]
    /\ wanted' = [wanted EXCEPT ![r] = new]

LEMMA RefreshLists ==
    ASSUME TypeInv, ReaderInv, NEW r \in Reader, RefreshList(r)
    PROVE  \/ Chain = {} /\ UNCHANGED <<peerEpoch, applied, wanted>>
           \/ \E e \in Nat, before \in SUBSET Key, new \in SUBSET Key : Listed(r, e, before, new)
<1> SUFFICES ASSUME ~(Chain = {} /\ UNCHANGED <<peerEpoch, applied, wanted>>)
             PROVE  \E e \in Nat, before \in SUBSET Key, new \in SUBSET Key : Listed(r, e, before, new)
  OBVIOUS
<1> DEFINE Old(e) == StillApplied(r, e)
           New(e) == {k \in Chain \ Old(e) : ~SpansCover(Old(e), k)}
<1>1. PICK e \in {k.epoch : k \in Chain} :
         /\ peerEpoch' = [peerEpoch EXCEPT ![r] = e]
         /\ applied' = [applied EXCEPT ![r] = Old(e) \cup (Chain \ New(e))]
         /\ wanted' = [wanted EXCEPT ![r] = New(e)]
  BY DEF RefreshList
<1>2. Chain \subseteq Key /\ Chain # {} /\ \A k \in Chain : k.epoch = e
  BY <1>1, ChainIsOfOneEpoch
<1>3. e \in Nat
  BY <1>1, <1>2 DEF Key
<1>4. Old(e) \in SUBSET Key
  BY DEF ReaderInv, StillApplied
<1>5. \A k \in Chain \ New(e) : k \in Old(e) \/ SpansCover(Old(e), k)
  OBVIOUS
<1>6. New(e) \in SUBSET Key /\ New(e) \subseteq Chain
  BY <1>2
<1>7. Listed(r, e, Old(e), New(e))
  <2> HIDE DEF New
  <2> QED
    BY <1>1, <1>2, <1>5, <1>6 DEF Listed
<1> HIDE DEF New, Old
<1> QED
  BY <1>3, <1>4, <1>6, <1>7

LEMMA ReaderTypeStep ==
    ASSUME TypeInv, ReaderInv, [CatchupNext]_catchupVars
    PROVE  ReaderInv'
<1> USE DEF ReaderInv, ReaderTypeOK
<1>1. CASE UNCHANGED readerVars
  BY <1>1 DEF readerVars
<1>2. ASSUME NEW r \in Reader, RefreshList(r)
      PROVE  ReaderInv'
  <2>1. /\ refreshing' \in [Reader -> BOOLEAN] /\ view' = view
        /\ due' = [due EXCEPT ![r] = AckedRecords] /\ AckedRecords \subseteq Record
    BY <1>2 DEF RefreshList, AckedRecords, TypeInv, TypeOK
  <2>2. CASE Chain = {} /\ UNCHANGED <<peerEpoch, applied, wanted>>
    BY <2>1, <2>2
  <2>3. ASSUME NEW e \in Nat, NEW before \in SUBSET Key, NEW new \in SUBSET Key,
               Listed(r, e, before, new)
        PROVE  ReaderInv'
    <3>1. /\ before \cup (Chain \ new) \in SUBSET Key
          /\ \A k \in before \cup (Chain \ new) \cup new : k \in Key /\ k.epoch = e
      BY <2>3, ChainIsOfOneEpoch DEF Listed, StillApplied
    <3>2. /\ peerEpoch' \in [Reader -> Nat] /\ peerEpoch'[r] = e
          /\ applied' \in [Reader -> SUBSET Key] /\ wanted' \in [Reader -> SUBSET Key]
          /\ applied'[r] = before \cup (Chain \ new) /\ wanted'[r] = new
          /\ \A q \in Reader \ {r} : /\ peerEpoch'[q] = peerEpoch[q]
                                     /\ applied'[q] = applied[q] /\ wanted'[q] = wanted[q]
      BY <2>3, <3>1 DEF Listed
    <3>3. due' \in [Reader -> SUBSET Record]
      BY <2>1
    <3>4. ASSUME NEW q \in Reader
          PROVE  \A k \in applied'[q] \cup wanted'[q] : k \in Key /\ k.epoch = peerEpoch'[q]
      BY <3>1, <3>2
    <3> QED
      BY <2>1, <3>2, <3>3, <3>4
  <2> QED
    BY <1>2, <2>2, <2>3, RefreshLists
<1>3. ASSUME NEW r \in Reader, RefreshFetch(r)
      PROVE  ReaderInv'
  <2>1. \A K \in SUBSET Key : Contents(K \cap DOMAIN bucket) \subseteq Record
    BY ContentsAreRecords DEF TypeInv, TypeOK
  <2>2. Replay(view[r] \cup Contents(wanted[r] \cap DOMAIN bucket)) \in SUBSET Record
    BY <2>1 DEF Replay
  <2> QED
    BY <1>3, <2>2 DEF RefreshFetch
<1>4. ASSUME NEW r \in Reader, RefreshFails(r)
      PROVE  ReaderInv'
  BY <1>4 DEF RefreshFails
<1>5. ASSUME NEW r \in Reader, ReaderWakes(r)
      PROVE  ReaderInv'
  <2>1. /\ peerEpoch' \in [Reader -> Nat] /\ refreshing' \in [Reader -> BOOLEAN]
        /\ applied' \in [Reader -> SUBSET Key] /\ wanted' \in [Reader -> SUBSET Key]
        /\ view' \in [Reader -> SUBSET Record] /\ due' \in [Reader -> SUBSET Record]
    BY <1>5 DEF ReaderWakes
  <2>2. /\ applied'[r] = {} /\ wanted'[r] = {}
        /\ \A q \in Reader \ {r} : /\ peerEpoch'[q] = peerEpoch[q]
                                   /\ applied'[q] = applied[q] /\ wanted'[q] = wanted[q]
    BY <1>5 DEF ReaderWakes
  <2> QED
    BY <2>1, <2>2
<1> HIDE DEF ReaderInv
<1>6. \/ UNCHANGED readerVars
      \/ \E r \in Reader : RefreshList(r) \/ RefreshFetch(r) \/ RefreshFails(r) \/ ReaderWakes(r)
  BY DEF CatchupNext, LaneStep, catchupVars
<1> QED
  BY <1>1, <1>2, <1>3, <1>4, <1>5, <1>6

-----------------------------------------------------------------------------
(***************************************************************************)
(* A reader's steps.                                                       *)
(***************************************************************************)

\* Only r's own story is at stake in a step of r.
LEMMA ReaderAlone ==
    ASSUME NEW c, Story(c), UNCHANGED laneVars, NEW r \in Reader, ReaderStory(c, r)',
           \A q \in Reader \ {r} :
               /\ peerEpoch'[q] = peerEpoch[q] /\ applied'[q] = applied[q]
               /\ wanted'[q] = wanted[q] /\ refreshing'[q] = refreshing[q]
               /\ view'[q] = view[q] /\ due'[q] = due[q]
    PROVE  Story(c)'
<1>1. UNCHANGED <<top, bucket, phase, epoch, own, nextSeq, acked>>
  BY DEF laneVars, ownerVars, localVars
<1>2. /\ Objects' = Objects
      /\ \A e : (Superseded(e)' <=> Superseded(e)) /\ AckedUpTo(e)' = AckedUpTo(e)
      /\ \A e, s : Present(e, s)' <=> Present(e, s)
  BY <1>1, SameLineages
<1>3. LaneStory(c)'
  <2>1. CommitsStory(c)'
    BY <1>1, <1>2 DEF Story, LaneStory, CommitsStory
  <2>2. \A h \in Handle : HandleStory(c, h)'
    BY <1>1 DEF Story, LaneStory, HandleStory, Up, Waking
  <2>3. \A k \in Objects' : ObjectStory(c, k)'
    BY <1>1, <1>2 DEF Story, LaneStory, ObjectStory
  <2>4. PresentStory(c)'
    BY <1>2 DEF Story, LaneStory, PresentStory
  <2> QED
    BY <2>1, <2>2, <2>3, <2>4 DEF LaneStory
<1>4. ASSUME NEW q \in Reader \ {r}
      PROVE  ReaderStory(c, q)'
  <2>1. ReaderStory(c, q)
    BY DEF Story
  <2>2. \A s : Heard(c, q, s)' <=> Heard(c, q, s)
    BY <1>1, <1>2 DEF Heard
  <2>3. \A s, d : Gives(c, q, s, d) => Gives(c, q, s, d)'
    BY <1>1, <1>2 DEF Gives, Up
  <2>4. \A g \in Handle : Waking(g)' <=> Waking(g)
    BY <1>1 DEF Waking
  <2> QED
    BY <1>1, <2>1, <2>2, <2>3, <2>4 DEF ReaderStory
<1> QED
  BY <1>3, <1>4 DEF Story

\* The chain of the newest lineage spans all that is committed under it.
LEMMA ChainSpansCommits ==
    ASSUME TypeInv, LaneInv, NEW c, LaneStory(c), NEW e \in Nat, ~Superseded(e), e <= top,
           NEW s \in Nat, <<e, s>> \in DOMAIN c
    PROVE  s \in Spanned(Chain)
<1>1. \A t \in Nat : t <= s => Present(e, t)
  <2> SUFFICES ASSUME NEW t \in Nat, t <= s  PROVE Present(e, t)
    OBVIOUS
  <2>1. <<e, t>> \in DOMAIN c
    <3>1. CASE t = s
      BY <3>1
    <3>2. CASE t < s
      <4>1. PICK p \in DOMAIN c : p = <<e, s>>
        OBVIOUS
      <4>2. p[1] = e /\ p[2] = s
        BY <4>1
      <4> QED
        BY <3>2, <4>2 DEF LaneStory, CommitsStory
    <3> QED
      BY <3>1, <3>2
  <2>2. PICK p \in DOMAIN c : p = <<e, t>>
    BY <2>1
  <2>3. p[1] = e /\ p[2] = t
    BY <2>2
  <2> QED
    BY <2>3 DEF LaneStory, PresentStory
<1>2. Objects \subseteq Key /\ \A k \in Objects : k.hi <= MaxSeq
  BY DEF TypeInv, TypeOK, Objects, LaneInv, SizeInv
<1>3. PICK w \in Objects : w.epoch = e /\ HeadKey(w)
  <2>1. Present(e, 0)
    BY <1>1
  <2>2. Segment(e, 0).epoch = e /\ HeadKey(Segment(e, 0))
    BY DEF Segment, HeadKey
  <2> QED
    BY <2>1, <2>2 DEF Present, HeadKey
<1>4. PICK head \in Objects : IsHead(Objects, head) /\ head.epoch = e
  BY <1>2, <1>3, HeadExists
<1>5. EpochChain(e) \subseteq Chain
  BY ChainSelected DEF Chain, TypeInv, TypeOK, Objects
<1>6. head \in EpochChain(e) /\ head \in Key
  BY <1>2, <1>4 DEF EpochChain, InChain
<1>7. Chain \in SUBSET Key
  BY ChainIsOfOneEpoch
<1>8. CASE s <= head.hi
  <2>1. head.level = 1 \/ head.hi = 0
    BY <1>4 DEF IsHead, Heads
  <2>2. s \in Span(head)
    BY <1>6, <1>8, <2>1, InSpan DEF Key
  <2> QED
    BY <1>5, <1>6, <1>7, <2>2, InSpanned
<1>9. CASE head.hi < s
  <2>1. ASSUME NEW t \in (head.hi + 1)..s
        PROVE  Segment(e, t) \in Objects
    <3>1. t \in Nat /\ head.hi < t /\ t <= s
      BY <1>6 DEF Key
    <3>2. ASSUME NEW u \in Objects, u.epoch = e, u.level = 1, t <= u.hi
          PROVE  FALSE
      <4>1. u \in Heads(Objects, head.epoch) /\ u \in Key
        BY <1>2, <1>4, <3>2 DEF Heads
      <4>2. u.hi < head.hi \/ u.hi = head.hi
        BY <1>4, <4>1 DEF IsHead
      <4> QED
        BY <1>6, <3>1, <3>2, <4>1, <4>2 DEF Key
    <3> QED
      BY <1>1, <3>1, <3>2 DEF Present
  <2>2. PICK k : k = Segment(e, s)
    OBVIOUS
  <2>3. k.level = 0 /\ k.epoch = e /\ k.hi = s /\ k \in Key
    BY <2>2 DEF Segment, Key
  <2>4. k \in Objects
    <3>1. s \in (head.hi + 1)..s
      BY <1>6, <1>9 DEF Key
    <3> QED
      BY <2>1, <2>2, <3>1
  <2>5. Follows(Objects, k)
    BY <1>4, <1>9, <2>1, <2>3 DEF Follows
  <2>6. k \in Chain
    BY <1>5, <2>3, <2>4, <2>5 DEF EpochChain, InChain
  <2>7. s \in Span(k)
    BY <2>3, InSpan
  <2> QED
    BY <1>7, <2>6, <2>7, InSpanned
<1> QED
  BY <1>6, <1>8, <1>9 DEF Key

LEMMA ChainIsNewest ==
    ASSUME TypeInv, LaneInv, NEW e, Chain # {}, \A k \in Chain : k.epoch = e
    PROVE  /\ e \in Nat /\ e # 0 /\ e <= top /\ ~Superseded(e)
           /\ AckedRecords \subseteq AckedUpTo(e)
           /\ \A g \in Handle : Waking(g) => epoch[g] # e
<1>1. PICK k \in Chain : k.epoch = e
  OBVIOUS
<1>2. k \in Objects /\ k \in Key
  BY ChainIsOfOneEpoch
<1>3. top \in Nat /\ e \in Nat /\ 1 <= e /\ e <= top
  BY <1>1, <1>2 DEF LaneInv, TokensInv, TypeInv, TypeOK, Key
<1>4. top + 1 \in Nat /\ \A j \in Objects : HeadKey(j) => j.epoch < top + 1
  BY DEF LaneInv, TokensInv, TypeInv, TypeOK, Objects, Key
<1>5. k \in SelectChain(Objects, top + 1)
  BY DEF Chain, Objects
<1>6. ~Superseded(e) /\ AckedRecords \subseteq AckedUpTo(e)
  BY <1>1, <1>4, <1>5, SelectedIsNewest DEF LaneInv
<1>7. \A g \in Handle : Waking(g) => epoch[g] # e
  BY <1>1, <1>2 DEF LaneInv, WakingInv
<1> QED
  BY <1>3, <1>6, <1>7

\* What was acknowledged comes with a sequence number of the chain.
LEMMA AckedIsSpanned ==
    ASSUME TypeInv, LaneInv, NEW c, LaneStory(c), NEW e, Chain # {}, \A k \in Chain : k.epoch = e,
           NEW d \in AckedRecords
    PROVE  \E s \in Spanned(Chain) :
              IF <<e, s>> \in DOMAIN c THEN Covers(c[<<e, s>>], {d})
              ELSE /\ s = 0 /\ Segment(e, 0) \in Objects /\ Covers(bucket[Segment(e, 0)], {d})
                   /\ \A g \in Handle : Up(g) /\ epoch[g] = e => Covers(own[g], {d})
<1>1. /\ e \in Nat /\ e # 0 /\ e <= top /\ ~Superseded(e)
      /\ AckedRecords \subseteq AckedUpTo(e)
  BY ChainIsNewest
<1>2. d \in AckedUpTo(e) /\ d \in Record
  BY <1>1 DEF AckedUpTo
<1>3. PICK a \in acked : a[1] <= e /\ a[2] = d
  BY <1>2 DEF AckedUpTo
<1>4. a[1] \in Nat
  BY DEF TypeInv, TypeOK
<1>5. /\ Chain \in SUBSET Key /\ Chain \subseteq Objects /\ Objects \subseteq Key
  BY ChainIsOfOneEpoch
<1>6. CASE <<e, 0>> \in DOMAIN c
  <2>1. CASE a[1] = e
    <3>1. PICK s \in Nat : <<e, s>> \in DOMAIN c /\ d \in c[<<e, s>>]
      BY <1>3, <2>1 DEF LaneStory, CommitsStory
    <3>2. s \in Spanned(Chain)
      BY <1>1, <3>1, ChainSpansCommits
    <3>3. Covers(c[<<e, s>>], {d})
      BY <3>1 DEF Covers
    <3> QED
      BY <3>1, <3>2, <3>3
  <2>2. CASE a[1] # e
    <3>1. PICK p \in DOMAIN c : p = <<e, 0>>
      BY <1>6
    <3>2. p[1] = e /\ p[2] = 0
      BY <3>1
    <3>3. Covers(c[p], AckedUpTo(e - 1))
      BY <3>2 DEF LaneStory, CommitsStory
    <3>4. d \in AckedUpTo(e - 1)
      BY <1>1, <1>2, <1>3, <1>4, <2>2 DEF AckedUpTo
    <3>5. 0 \in Spanned(Chain)
      BY <1>1, <1>6, ChainSpansCommits
    <3>6. Covers(c[<<e, 0>>], {d})
      BY <3>1, <3>3, <3>4 DEF Covers
    <3> QED
      BY <1>6, <3>5, <3>6
  <2> QED
    BY <2>1, <2>2
<1>7. CASE <<e, 0>> \notin DOMAIN c
  <2>1. PICK k0 : k0 = Segment(e, 0)
    OBVIOUS
  <2>2. ASSUME NEW k \in Objects, k.epoch = e
        PROVE  k = k0
    <3>1. ObjectStory(c, k) /\ k \in Key
      BY <1>5 DEF LaneStory
    <3>2. k.level # 1
      BY <1>7, <2>2, <3>1, CompactedIsCommitted DEF Key
    <3>3. k.hi = 0
      BY <1>7, <2>2, <3>1 DEF ObjectStory, Key
    <3>4. k.level = 0
      BY <3>1, <3>2 DEF Key
    <3> QED
      BY <2>1, <2>2, <3>1, <3>3, <3>4, KeyIs
  <2>3. k0 \in Chain /\ k0 \in Objects
    BY <1>5, <2>2
  <2>4. k0.epoch = e /\ k0.level = 0 /\ k0.hi = 0 /\ HeadKey(k0) /\ k0 \in Key
    BY <1>1, <2>1 DEF Segment, HeadKey, Key
  <2>5. Covers(Contents(EpochChain(e)), AckedUpTo(e))
    BY <1>1, <2>3, <2>4 DEF LaneInv, CompleteInv
  <2>6. Contents(EpochChain(e)) \subseteq bucket[k0]
    BY <2>2 DEF Contents, EpochChain
  <2>7. Covers(bucket[k0], {d})
    <3>1. Covers(bucket[k0], AckedUpTo(e))
      BY <2>5, <2>6, CoversSubset, CoversTrans
    <3> QED
      BY <1>2, <3>1 DEF Covers
  <2>8. ASSUME NEW g \in Handle, Up(g), epoch[g] = e
        PROVE  Covers(own[g], {d})
    <3>1. Covers(own[g], AckedUpTo(e))
      BY <1>1, <2>8 DEF LaneInv, WriterInv
    <3> QED
      BY <1>2, <3>1 DEF Covers
  <2>9. 0 \in Spanned(Chain)
    BY <1>5, <2>3, <2>4, InSpan, InSpanned
  <2> QED
    BY <1>7, <2>1, <2>3, <2>7, <2>8, <2>9
<1> QED
  BY <1>6, <1>7

LEMMA RefreshListStory ==
    ASSUME TypeInv, LaneInv, ReaderInv, NEW c, Story(c), NEW r \in Reader, RefreshList(r)
    PROVE  Story(c)'
<1>1. UNCHANGED <<top, bucket, phase, epoch, own, nextSeq, acked>> /\ Objects' = Objects
  BY DEF RefreshList, laneVars, ownerVars, localVars, Objects
<1>2. /\ refreshing'[r] /\ view'[r] = view[r] /\ due'[r] = AckedRecords
      /\ \A q \in Reader \ {r} : /\ refreshing'[q] = refreshing[q] /\ view'[q] = view[q]
                                 /\ due'[q] = due[q]
  BY DEF RefreshList, ReaderInv, ReaderTypeOK
<1>3. \A e : Superseded(e)' <=> Superseded(e)
  BY <1>1 DEF Superseded
<1>4. \A g \in Handle : (Waking(g)' <=> Waking(g)) /\ (Up(g)' <=> Up(g))
  BY <1>1 DEF Waking, Up
<1>5. ReaderStory(c, r) /\ LaneStory(c)
  BY DEF Story
<1>6. CASE Chain = {} /\ UNCHANGED <<peerEpoch, applied, wanted>>
  <2>1. AckedRecords = {}
    <3> SUFFICES ASSUME NEW a \in acked  PROVE FALSE
      BY DEF AckedRecords
    <3>1. PICK w \in Objects : HeadKey(w)
      BY DEF LaneInv, LineageInv
    <3>2. PICK v \in Objects : HeadKey(v) /\ ~Superseded(v.epoch)
      BY <3>1, NewestHead DEF LaneInv
    <3>3. /\ Objects \in SUBSET Key /\ (\A k \in Objects : k.hi <= MaxSeq)
          /\ v.epoch \in Nat /\ top + 1 \in Nat /\ v.epoch < top + 1
      BY DEF TypeInv, TypeOK, Objects, LaneInv, SizeInv, TokensInv, Key
    <3>4. PICK head \in Objects : IsHead(Objects, head) /\ head.epoch = v.epoch
      BY <3>2, <3>3, HeadExists
    <3>5. head \in EpochChain(v.epoch)
      BY <3>4 DEF EpochChain, InChain
    <3>6. EpochChain(v.epoch) \subseteq Chain
      BY <3>2, <3>3, ChainSelected DEF Chain, Objects
    <3> QED
      BY <1>6, <3>5, <3>6
  <2>2. \A s : Heard(c, r, s)' <=> Heard(c, r, s)
    BY <1>1, <1>2, <1>3, <1>6 DEF Heard
  <2>3. ReaderStory(c, r)'
    BY <1>1, <1>2, <1>4, <1>5, <1>6, <2>1, <2>2 DEF ReaderStory
  <2> QED
    BY <1>2, <1>6, <2>3, ReaderAlone DEF RefreshList
<1>7. ASSUME NEW e \in Nat, NEW before \in SUBSET Key, NEW new \in SUBSET Key,
             Listed(r, e, before, new)
      PROVE  Story(c)'
  <2>1. /\ e # 0 /\ e <= top /\ ~Superseded(e)
        /\ \A g \in Handle : Waking(g) => epoch[g] # e
    BY <1>7, ChainIsNewest DEF Listed
  <2>2. /\ peerEpoch'[r] = e /\ applied'[r] = before \cup (Chain \ new) /\ wanted'[r] = new
        /\ \A q \in Reader \ {r} : /\ peerEpoch'[q] = peerEpoch[q]
                                   /\ applied'[q] = applied[q] /\ wanted'[q] = wanted[q]
    BY <1>7 DEF Listed, ReaderInv, ReaderTypeOK
  <2>3. /\ Chain \in SUBSET Key /\ before \cup (Chain \ new) \in SUBSET Key
        /\ new \subseteq Chain
    BY <1>7, ChainIsOfOneEpoch DEF Listed
  <2>4. \A s \in Spanned(applied'[r]) : s \in Spanned(before)
    <3> SUFFICES ASSUME NEW s, NEW k \in before \cup (Chain \ new), s \in Span(k)
                 PROVE  s \in Spanned(before)
      BY <2>2, <2>3, InSpanned
    <3>1. CASE k \in before
      BY <3>1, InSpanned
    <3>2. CASE SpansCover(before, k)
      BY <3>2 DEF SpansCover, Spanned
    <3> QED
      BY <1>7, <3>1, <3>2 DEF Listed
  <2>5. before = {} \/ (e = peerEpoch[r] /\ before = applied[r])
    BY <1>7 DEF Listed, StillApplied
  <2>6. ASSUME NEW s \in Spanned(applied'[r])
        PROVE  Heard(c, r, s)' /\ Heard(c, r, s) /\ e = peerEpoch[r]
    <3>1. e = peerEpoch[r] /\ s \in Spanned(applied[r])
      BY <2>4, <2>5, InSpanned
    <3>2. Heard(c, r, s)
      BY <1>5, <3>1 DEF ReaderStory
    <3> QED
      BY <1>1, <1>2, <1>3, <2>2, <3>1, <3>2 DEF Heard
  <2>7. \A s \in Spanned(Chain) : s \in Spanned(applied'[r] \cup wanted'[r])
    <3>1. Chain \subseteq applied'[r] \cup wanted'[r]
      BY <2>2, <2>3
    <3> QED
      BY <3>1 DEF Spanned
  <2>8. ASSUME NEW d \in AckedRecords
        PROVE  \E s \in Spanned(applied'[r] \cup wanted'[r]) : Gives(c, r, s, d)'
    <3>1. PICK s \in Spanned(Chain) :
              IF <<e, s>> \in DOMAIN c THEN Covers(c[<<e, s>>], {d})
              ELSE /\ s = 0 /\ Segment(e, 0) \in Objects /\ Covers(bucket[Segment(e, 0)], {d})
                   /\ \A g \in Handle : Up(g) /\ epoch[g] = e => Covers(own[g], {d})
      BY <1>5, <1>7, AckedIsSpanned DEF Listed
    <3>2. CASE <<e, s>> \in DOMAIN c
      <4>1. Gives(c, r, s, d)'
        BY <2>2, <3>1, <3>2 DEF Gives
      <4> QED
        BY <2>7, <4>1
    <3>3. CASE <<e, s>> \notin DOMAIN c
      <4>1. /\ s = 0 /\ Segment(e, 0) \in Objects /\ Covers(bucket[Segment(e, 0)], {d})
            /\ \A g \in Handle : Up(g) /\ epoch[g] = e => Covers(own[g], {d})
        BY <3>1, <3>3
      <4>2. ASSUME 0 \in Spanned(applied'[r])
            PROVE  Covers(view[r], {d})
        <5>1. Heard(c, r, 0) /\ e = peerEpoch[r]
          BY <2>6, <4>2
        <5>2. Covers(view[r], bucket[Segment(e, 0)])
          BY <2>1, <3>3, <4>1, <5>1 DEF Heard
        <5> QED
          BY <4>1, <5>2, CoversTrans
      <4>3. Gives(c, r, s, d)'
        BY <1>1, <1>2, <1>4, <2>2, <3>3, <4>1, <4>2 DEF Gives
      <4> QED
        BY <2>7, <4>3
    <3> QED
      BY <3>2, <3>3
  <2>9. ReaderStory(c, r)'
    BY <1>1, <1>2, <1>4, <2>1, <2>2, <2>6, <2>8 DEF ReaderStory
  <2> QED
    BY <1>2, <2>2, <2>9, ReaderAlone DEF RefreshList
<1> QED
  BY <1>6, <1>7, RefreshLists

\* An object of the reader's epoch tells what its sequence numbers wrote.
LEMMA ObjectTells ==
    ASSUME NEW c, NEW k \in Key, ObjectStory(c, k), NEW s \in Span(k)
    PROVE  IF <<k.epoch, s>> \in DOMAIN c THEN Covers(bucket[k], c[<<k.epoch, s>>])
           ELSE k = Segment(k.epoch, s)
<1>1. s \in Nat /\ s <= k.hi /\ (k.level = 1 \/ s = k.hi)
  BY InSpan
<1>2. CASE <<k.epoch, s>> \in DOMAIN c
  BY <1>2 DEF ObjectStory
<1>3. CASE <<k.epoch, s>> \notin DOMAIN c
  <2>1. k.level # 1
    BY <1>1, <1>3, CompactedIsCommitted
  <2>2. k.level = 0 /\ s = k.hi
    BY <1>1, <2>1 DEF Key
  <2> QED
    BY <1>3, <2>2, KeyIs
<1> QED
  BY <1>2, <1>3

\* What a refresh has fetched it has merged with what the reader knew.
LEMMA Fetched ==
    ASSUME TypeInv, ReaderInv, NEW r \in Reader, RefreshFetch(r)
    PROVE  /\ applied'[r] = applied[r] \cup (wanted[r] \cap Objects)
           /\ applied'[r] \in SUBSET Key /\ Objects \subseteq Key
           /\ \A k \in applied[r] \cup wanted[r] : k \in Key /\ k.epoch = peerEpoch[r]
           /\ Covers(view'[r], view[r])
           /\ \A k \in wanted[r] \cap Objects : Covers(view'[r], bucket[k])
<1> DEFINE found == wanted[r] \cap Objects
           all == view[r] \cup Contents(found)
<1>1. applied'[r] = applied[r] \cup found /\ view'[r] = Replay(all)
  BY DEF RefreshFetch, ReaderInv, ReaderTypeOK, Objects
<1>2. /\ Objects \subseteq Key /\ applied[r] \in SUBSET Key /\ wanted[r] \in SUBSET Key
      /\ \A k \in applied[r] \cup wanted[r] : k \in Key /\ k.epoch = peerEpoch[r]
  BY DEF TypeInv, TypeOK, Objects, ReaderInv, ReaderTypeOK
<1>3. Covers(view'[r], all)
  BY <1>1, CoversReplay
<1>4. \A k \in found : bucket[k] \subseteq all
  BY DEF Contents
<1>5. Covers(view'[r], view[r]) /\ \A k \in found : Covers(view'[r], bucket[k])
  BY <1>3, <1>4 DEF Covers
<1> QED
  BY <1>1, <1>2, <1>5

LEMMA FetchHears ==
    ASSUME TypeInv, ReaderInv, NEW c, Story(c), NEW r \in Reader, RefreshFetch(r),
           NEW s \in Spanned(applied'[r])
    PROVE  Heard(c, r, s)'
<1>1. /\ applied'[r] = applied[r] \cup (wanted[r] \cap Objects)
      /\ applied'[r] \in SUBSET Key /\ Objects \subseteq Key
      /\ \A k \in applied[r] \cup wanted[r] : k \in Key /\ k.epoch = peerEpoch[r]
      /\ Covers(view'[r], view[r])
      /\ \A k \in wanted[r] \cap Objects : Covers(view'[r], bucket[k])
  BY Fetched
<1>2. UNCHANGED <<peerEpoch, bucket>> /\ Objects' = Objects
      /\ \A e : Superseded(e)' <=> Superseded(e)
  BY DEF RefreshFetch, laneVars, Objects, Superseded
<1>3. PICK k \in applied'[r] : s \in Span(k)
  BY <1>1, InSpanned
<1>4. PICK e : e = peerEpoch[r]
  OBVIOUS
<1>5. CASE k \in applied[r]
  <2>1. s \in Spanned(applied[r])
    BY <1>3, <1>5 DEF Spanned
  <2>2. Heard(c, r, s)
    BY <2>1 DEF Story, ReaderStory
  <2>3. CASE <<e, s>> \in DOMAIN c
    <3>1. Covers(view'[r], c[<<e, s>>])
      BY <1>1, <1>4, <2>2, <2>3, CoversTrans DEF Heard
    <3> QED
      BY <1>2, <1>4, <2>3, <3>1 DEF Heard
  <2>4. CASE <<e, s>> \notin DOMAIN c /\ Superseded(e)
    BY <1>2, <1>4, <2>4 DEF Heard
  <2>5. CASE /\ <<e, s>> \notin DOMAIN c /\ Segment(e, s) \in Objects
             /\ Covers(view[r], bucket[Segment(e, s)])
    <3>1. Covers(view'[r], bucket[Segment(e, s)])
      BY <1>1, <2>5, CoversTrans
    <3> QED
      BY <1>2, <1>4, <2>5, <3>1 DEF Heard
  <2> QED
    BY <1>4, <2>2, <2>3, <2>4, <2>5 DEF Heard
<1>6. CASE k \in wanted[r] \cap Objects
  <2>1. k \in Key /\ k.epoch = e /\ ObjectStory(c, k)
    BY <1>1, <1>4, <1>6 DEF Story, LaneStory
  <2>2. IF <<e, s>> \in DOMAIN c THEN Covers(bucket[k], c[<<e, s>>]) ELSE k = Segment(e, s)
    BY <1>3, <2>1, ObjectTells
  <2>3. CASE <<e, s>> \in DOMAIN c
    <3>1. Covers(view'[r], c[<<e, s>>])
      BY <1>1, <1>6, <2>2, <2>3, CoversTrans
    <3> QED
      BY <1>2, <1>4, <2>3, <3>1 DEF Heard
  <2>4. CASE <<e, s>> \notin DOMAIN c
    <3>1. Segment(e, s) \in Objects /\ Covers(view'[r], bucket[Segment(e, s)])
      BY <1>1, <1>6, <2>2, <2>4
    <3> QED
      BY <1>2, <1>4, <2>4, <3>1 DEF Heard
  <2> QED
    BY <2>3, <2>4
<1> QED
  BY <1>1, <1>3, <1>5, <1>6

LEMMA ReaderStepStory ==
    ASSUME TypeInv, LaneInv, ReaderInv, NEW c, Story(c), NEW r \in Reader,
           RefreshList(r) \/ RefreshFetch(r) \/ RefreshFails(r) \/ ReaderWakes(r)
    PROVE  Story(c)'
<1>1. CASE RefreshList(r)
  BY <1>1, RefreshListStory
<1>2. CASE RefreshFetch(r)
  <2>1. UNCHANGED laneVars /\ UNCHANGED <<top, phase, epoch>> /\ peerEpoch' = peerEpoch
    BY <1>2 DEF RefreshFetch, laneVars, ownerVars, localVars
  <2>2. wanted'[r] = {} /\ due'[r] = {}
    BY <1>2 DEF RefreshFetch, ReaderInv, ReaderTypeOK
  <2>3. \A s \in Spanned(applied'[r]) : Heard(c, r, s)'
    BY <1>2, FetchHears
  <2>4. /\ peerEpoch[r] <= top
        /\ \A g \in Handle : peerEpoch[r] # 0 /\ Waking(g) => epoch[g] # peerEpoch[r]
    BY DEF Story, ReaderStory
  <2>5. ReaderStory(c, r)'
    BY <2>1, <2>2, <2>3, <2>4 DEF ReaderStory, Waking
  <2> QED
    BY <1>2, <2>1, <2>5, ReaderAlone DEF RefreshFetch, ReaderInv, ReaderTypeOK
<1>3. CASE RefreshFails(r)
  <2>1. /\ UNCHANGED laneVars /\ UNCHANGED <<top, phase, epoch, bucket, acked>>
        /\ UNCHANGED <<peerEpoch, applied, view>>
    BY <1>3 DEF RefreshFails, laneVars, ownerVars, localVars
  <2>2. wanted'[r] = {} /\ due'[r] = {}
    BY <1>3 DEF RefreshFails, ReaderInv, ReaderTypeOK
  <2>3. \A s : Heard(c, r, s)' <=> Heard(c, r, s)
    BY <2>1, SameLineages DEF Heard
  <2>4. ReaderStory(c, r)
    BY DEF Story
  <2>5. ReaderStory(c, r)'
    BY <2>1, <2>2, <2>3, <2>4 DEF ReaderStory, Waking
  <2> QED
    BY <1>3, <2>1, <2>5, ReaderAlone DEF RefreshFails, ReaderInv, ReaderTypeOK
<1>4. CASE ReaderWakes(r)
  <2>1. UNCHANGED laneVars /\ top' = top /\ top \in Nat
    BY <1>4 DEF ReaderWakes, laneVars, ownerVars, TypeInv, TypeOK
  <2>2. peerEpoch'[r] = 0 /\ applied'[r] = {} /\ wanted'[r] = {} /\ due'[r] = {}
    BY <1>4 DEF ReaderWakes, ReaderInv, ReaderTypeOK
  <2>3. ReaderStory(c, r)'
    BY <2>1, <2>2 DEF ReaderStory, Spanned
  <2> QED
    BY <1>4, <2>1, <2>3, ReaderAlone DEF ReaderWakes, ReaderInv, ReaderTypeOK
<1> QED
  BY <1>1, <1>2, <1>3, <1>4

-----------------------------------------------------------------------------
(***************************************************************************)
(* The invariant, and what follows.                                        *)
(***************************************************************************)

\* The lane and its readers, and some story that they all agree with.
CatchupInv == TypeInv /\ LaneInv /\ ReaderInv /\ \E c : Story(c)

LEMMA InitCatchupInv == CatchupInit => CatchupInv
<1> SUFFICES ASSUME CatchupInit  PROVE CatchupInv
  OBVIOUS
<1>1. TypeInv /\ LaneInv
  BY InitLaneInv, LaneAssumption DEF CatchupInit, Init, TypeInv, TypeOK, Tokens!Init, Phase
<1>2. ReaderInv
  BY DEF CatchupInit, ReaderInv, ReaderTypeOK
<1>3. PICK c : c = [p \in {} |-> {}]
  OBVIOUS
<1>4. DOMAIN c = {}
  BY <1>3
<1>5. /\ Objects = {} /\ acked = {} /\ top \in Nat
      /\ \A h \in Handle : ~Up(h)
  BY DEF CatchupInit, Init, Objects, Up, Tokens!Init
<1>6. LaneStory(c)
  BY <1>4, <1>5 DEF LaneStory, CommitsStory, HandleStory, ObjectStory, PresentStory
<1>7. ASSUME NEW r \in Reader
      PROVE  ReaderStory(c, r)
  <2>1. peerEpoch[r] = 0 /\ applied[r] = {} /\ wanted[r] = {} /\ due[r] = {}
    BY DEF CatchupInit
  <2> QED
    BY <1>5, <2>1 DEF ReaderStory, Spanned
<1> QED
  BY <1>1, <1>2, <1>6, <1>7 DEF CatchupInv, Story

\* Each action of the lane leaves a story, and FlushAck adds to it.
LEMMA HandleStepStory ==
    ASSUME ~EarlyWakes, TypeInv, LaneInv, ReaderInv, NEW c, Story(c), UNCHANGED readerVars,
           NEW h \in Handle, HandleStep(h),
           \A k \in Objects \cap Objects' : bucket'[k] = bucket[k]
    PROVE  \E c2 : Story(c2)'
<1> USE DEF ReaderInv
<1>1. CASE FlushAck(h)
  BY <1>1, FlushAckStory
<1>2. CASE FlushPut(h)
  <2>1. Story(c)'
    BY <1>2, FlushPutStory
  <2> QED
    BY <2>1
<1>3. CASE CompactPut(h)
  <2>1. Story(c)'
    BY <1>3, CompactPutStory
  <2> QED
    BY <2>1
<1>4. ASSUME NEW k \in doomed[h], GcDelete(h, k)
      PROVE  \E c2 : Story(c2)'
  <2>1. Story(c)'
    BY <1>4, GcDeleteStory
  <2> QED
    BY <2>1
<1>5. CASE \/ Rejoin(h) \/ ReclaimFails(h) \/ WakeFails(h)
           \/ \E r \in Record : Stage(h, r)
           \/ FlushFails(h) \/ CompactEnds(h)
           \/ Renew(h) \/ RenewReplyLost(h) \/ RenewFenced(h)
           \/ Deactivate(h) \/ ReleaseReplyLost(h) \/ Crash(h)
  <2>1. Still
    BY <1>5, QuietActions, StillActions
  <2>2. Story(c)'
    BY <2>1, StillStory
  <2> QED
    BY <2>2
<1>6. CASE ClaimLane(h) \/ ListLane(h) \/ FetchLane(h) \/ GcList(h)
  <2>1. Still
    BY <1>6, StillActions
  <2>2. Story(c)'
    BY <2>1, StillStory
  <2> QED
    BY <2>2
<1> QED
  BY <1>1, <1>2, <1>3, <1>4, <1>5, <1>6 DEF HandleStep

LEMMA CatchupInvStep ==
    ASSUME ~EarlyWakes, ~OverlappingGc, ~Rewrites, CatchupInv, [CatchupNext]_catchupVars
    PROVE  CatchupInv'
<1> USE DEF CatchupInv
<1>1. [Next]_laneVars
  BY DEF CatchupNext, LaneStep, RefreshList, RefreshFetch, RefreshFails, ReaderWakes, catchupVars
<1>2. TypeInv' /\ LaneInv'
  BY <1>1, LaneTypeStep, LaneInvStep
<1>3. ReaderInv'
  BY ReaderTypeStep
<1>4. PICK c : Story(c)
  OBVIOUS
<1>5. CASE UNCHANGED catchupVars
  <2>1. Still /\ UNCHANGED readerVars
    BY <1>5 DEF catchupVars, laneVars, ownerVars, localVars, Still, TypeInv, TypeOK, Up, Waking
  <2>2. Story(c)'
    BY <1>4, <2>1, StillStory DEF ReaderInv
  <2> QED
    BY <1>2, <1>3, <2>2
<1>6. CASE LaneStep
  <2>1. PICK h \in Handle : HandleStep(h)
    BY <1>6 DEF LaneStep, Next
  <2>2. UNCHANGED readerVars /\ \A k \in Objects \cap Objects' : bucket'[k] = bucket[k]
    BY <1>6 DEF LaneStep, Objects
  <2>3. \E c2 : Story(c2)'
    BY <1>4, <2>1, <2>2, HandleStepStory
  <2> QED
    BY <1>2, <1>3, <2>3
<1>7. ASSUME NEW r \in Reader,
             RefreshList(r) \/ RefreshFetch(r) \/ RefreshFails(r) \/ ReaderWakes(r)
      PROVE  CatchupInv'
  <2>1. Story(c)'
    BY <1>4, <1>7, ReaderStepStory
  <2> QED
    BY <1>2, <1>3, <2>1
<1> QED
  BY <1>5, <1>6, <1>7 DEF CatchupNext

\* The keys that a reader has replayed or is fetching are of the epoch it is at,
\* whatever the lane's handles, gc() and the environment do.
THEOREM ReaderTypes == CatchupSpec => []ReaderTypeOK
<1>1. CatchupInit => TypeInv /\ ReaderInv
  BY InitCatchupInv DEF CatchupInv
<1>2. TypeInv /\ ReaderInv /\ [CatchupNext]_catchupVars => (TypeInv /\ ReaderInv)'
  <2> SUFFICES ASSUME TypeInv, ReaderInv, [CatchupNext]_catchupVars
               PROVE  TypeInv' /\ ReaderInv'
    OBVIOUS
  <2>1. [Next]_laneVars
    BY DEF CatchupNext, LaneStep, RefreshList, RefreshFetch, RefreshFails, ReaderWakes, catchupVars
  <2> QED
    BY <2>1, LaneTypeStep, ReaderTypeStep
<1>3. ReaderInv => ReaderTypeOK
  BY DEF ReaderInv
<1> QED
  BY <1>1, <1>2, <1>3, PTL DEF CatchupSpec

\* At all times there is a story of what each commit of the lane wrote which its
\* objects, its handles and its readers agree with.
THEOREM CatchupAlways ==
    ASSUME ~EarlyWakes, ~OverlappingGc, ~Rewrites
    PROVE  CatchupSpec => []CatchupInv
<1>1. CatchupInv /\ [CatchupNext]_catchupVars => CatchupInv'
  BY CatchupInvStep
<1> QED
  BY <1>1, InitCatchupInv, PTL DEF CatchupSpec

\* What a reader knows and has not lost on the way is all that was due.
LEMMA HeardGives ==
    ASSUME TypeInv, LaneInv, ReaderInv, NEW c, Story(c), NEW r \in Reader,
           RefreshFetch(r) \/ RefreshFails(r), wanted[r] \subseteq applied'[r],
           NEW d \in due[r]
    PROVE  Covers(view'[r], {d})
<1>1. PICK e \in Nat : e = peerEpoch[r]
  BY DEF ReaderInv, ReaderTypeOK
<1>2. PICK s \in Spanned(applied[r] \cup wanted[r]) : Gives(c, r, s, d)
  BY DEF Story, ReaderStory
<1>3. /\ applied[r] \in SUBSET Key /\ wanted[r] \in SUBSET Key
      /\ \A k \in applied[r] \cup wanted[r] : k.epoch = e
  BY <1>1 DEF ReaderInv, ReaderTypeOK
<1>4. PICK k \in applied[r] \cup wanted[r] : s \in Span(k)
  BY <1>2 DEF Spanned
<1>5. CASE k \in applied[r]
  <2>1. s \in Spanned(applied[r])
    BY <1>4, <1>5 DEF Spanned
  <2>2. Heard(c, r, s)
    BY <2>1 DEF Story, ReaderStory
  <2>3. Covers(view[r], {d})
    <3>1. CASE <<e, s>> \in DOMAIN c
      <4>1. Covers(view[r], c[<<e, s>>]) /\ Covers(c[<<e, s>>], {d})
        BY <1>1, <1>2, <2>2, <3>1 DEF Heard, Gives
      <4> QED
        BY <4>1, CoversTrans
    <3>2. CASE <<e, s>> \notin DOMAIN c
      BY <1>1, <1>2, <2>1, <3>2 DEF Gives
    <3> QED
      BY <3>1, <3>2
  <2>4. Covers(view'[r], view[r])
    <3>1. CASE RefreshFetch(r)
      BY <3>1, Fetched
    <3>2. CASE RefreshFails(r)
      BY <3>2, CoversSubset DEF RefreshFails
    <3> QED
      BY <3>1, <3>2
  <2> QED
    BY <2>3, <2>4, CoversTrans
<1>6. CASE k \notin applied[r]
  <2>1. RefreshFetch(r)
    BY <1>4, <1>6 DEF RefreshFails
  <2>2. k \in wanted[r] \cap Objects
    BY <1>4, <1>6, <2>1, Fetched
  <2>3. Covers(view'[r], bucket[k])
    BY <2>1, <2>2, Fetched
  <2>4. k \in Key /\ k.epoch = e /\ ObjectStory(c, k)
    BY <1>3, <2>2 DEF Story, LaneStory
  <2>5. IF <<e, s>> \in DOMAIN c THEN Covers(bucket[k], c[<<e, s>>]) ELSE k = Segment(e, s)
    BY <1>4, <2>4, ObjectTells
  <2>6. CASE <<e, s>> \in DOMAIN c
    <3>1. Covers(c[<<e, s>>], {d})
      BY <1>1, <1>2, <2>6 DEF Gives
    <3> QED
      BY <2>3, <2>5, <2>6, <3>1, CoversTrans
  <2>7. CASE <<e, s>> \notin DOMAIN c
    <3>1. Covers(bucket[k], {d})
      BY <1>1, <1>2, <2>2, <2>5, <2>7 DEF Gives
    <3> QED
      BY <2>3, <3>1, CoversTrans
  <2> QED
    BY <2>6, <2>7
<1> QED
  BY <1>5, <1>6

\* A refresh that lost no object to gc() on the way ends with all that the lane
\* had acknowledged when it began, as memory.py:34 promises: through takeovers,
\* crashes, compactions and any number of earlier refreshes.  Assumed away, as for
\* AckedIsDurable, are a wake under a lease that is still published and a gc()
\* during a wake; and Rewrites, with which it is refuted (catchup_rewritten).
THEOREM RefreshShows ==
    ASSUME ~EarlyWakes, ~OverlappingGc, ~Rewrites
    PROVE  CatchupSpec => VisibleAtNextRefresh
<1> DEFINE Shows(r) ==
             refreshing[r] /\ ~refreshing'[r] /\ wanted[r] \subseteq applied'[r]
                /\ peerEpoch'[r] = peerEpoch[r]
                => Covers(view'[r], due[r])
<1>1. CatchupInv /\ [CatchupNext]_catchupVars
         => [\A r \in Reader : Shows(r)]_catchupVars
  <2> SUFFICES ASSUME CatchupInv, CatchupNext, NEW r \in Reader,
                      refreshing[r], ~refreshing'[r], wanted[r] \subseteq applied'[r],
                      peerEpoch'[r] = peerEpoch[r]
               PROVE  Covers(view'[r], due[r])
    OBVIOUS
  <2>1. PICK c : Story(c)
    BY DEF CatchupInv
  <2>2. CASE RefreshFetch(r) \/ RefreshFails(r)
    <3>1. \A d \in due[r] : Covers(view'[r], {d})
      BY <2>1, <2>2, HeardGives DEF CatchupInv
    <3> QED
      BY <3>1 DEF Covers
  <2>3. CASE ReaderWakes(r)
    <3>1. peerEpoch[r] = 0
      BY <2>3 DEF ReaderWakes, CatchupInv, ReaderInv, ReaderTypeOK
    <3>2. due[r] = {}
      BY <2>1, <3>1 DEF Story, ReaderStory
    <3> QED
      BY <3>2 DEF Covers
  <2>4. RefreshFetch(r) \/ RefreshFails(r) \/ ReaderWakes(r)
    <3>1. CASE LaneStep
      BY <3>1 DEF LaneStep, readerVars
    <3>2. ASSUME NEW q \in Reader, RefreshList(q)  PROVE FALSE
      BY <3>2 DEF RefreshList, CatchupInv, ReaderInv, ReaderTypeOK
    <3>3. ASSUME NEW q \in Reader, q # r, RefreshFetch(q) \/ RefreshFails(q) \/ ReaderWakes(q)
          PROVE  FALSE
      BY <3>3 DEF RefreshFetch, RefreshFails, ReaderWakes, CatchupInv, ReaderInv, ReaderTypeOK
    <3> QED
      BY <3>1, <3>2, <3>3 DEF CatchupNext
  <2> QED
    BY <2>2, <2>3, <2>4
<1> QED
  BY <1>1, CatchupAlways, PTL DEF CatchupSpec, VisibleAtNextRefresh
=============================================================================
