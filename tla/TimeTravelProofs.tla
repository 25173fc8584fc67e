-------------------------- MODULE TimeTravelProofs --------------------------
(***************************************************************************)
(* Time travel over lanes that are flushed, compacted, restarted and       *)
(* collected, with clocks that are not synchronised: for any agents,       *)
(* fragments, bounds, and any way gc() may fail.                           *)
(***************************************************************************)
EXTENDS TimeTravel, MergeProofs

-----------------------------------------------------------------------------
(***************************************************************************)
(* Numbers and finite sets.                                                *)
(***************************************************************************)

LEMMA Greatest ==
    ASSUME NEW S \in SUBSET Nat, S # {}, NEW b \in Nat, \A x \in S : x <= b
    PROVE  \E m \in S : \A x \in S : x <= m
<1> SUFFICES ASSUME \A m \in S : \E x \in S : ~(x <= m)  PROVE FALSE
  OBVIOUS
<1> DEFINE T == {n \in Nat : \E x \in S : n <= x}
<1>1. 0 \in T
  <2>1. PICK x \in S : TRUE
    OBVIOUS
  <2>2. 0 <= x
    BY <2>1
  <2> QED
    BY <2>2
<1>2. ASSUME NEW n \in Nat, n \in T  PROVE n + 1 \in T
  <2>1. PICK x \in S : n <= x
    BY <1>2
  <2>2. PICK y \in S : ~(y <= x)
    OBVIOUS
  <2>3. n + 1 <= y /\ n + 1 \in Nat
    BY <2>1, <2>2
  <2> QED
    BY <2>3
<1>3. b + 1 \in T
  <2> HIDE DEF T
  <2> QED
    BY <1>1, <1>2, Induction
<1> QED
  BY <1>3

LEMMA FiniteImage ==
    ASSUME NEW S, IsFiniteSet(S), NEW f, f = [x \in S |-> f[x]]
    PROVE  IsFiniteSet({f[x] : x \in S})
<1> DEFINE R == {f[x] : x \in S}
<1>1. f \in Surjection(S, R)
  BY DEF Surjection
<1> QED
  BY <1>1, FS_Surjection

-----------------------------------------------------------------------------
(***************************************************************************)
(* build_chain.                                                            *)
(***************************************************************************)

LEMMA KeyParts ==
    ASSUME NEW k \in Key
    PROVE  /\ k.level \in {0, 1} /\ k.epoch \in Nat /\ k.hi \in Nat
           /\ k.level = 0 => k = Segment(k.epoch, k.hi)
           /\ k.level = 1 => k = Compaction(k.epoch, k.hi)
BY DEF Key, Segment, Compaction

LEMMA WidestIsWidest ==
    ASSUME NEW E \in SUBSET Key, E # {}, NEW b \in Nat, \A k \in E : k.hi <= b
    PROVE  /\ Widest(E) \in E
           /\ \A j \in E : j.hi < Widest(E).hi
                           \/ (j.hi = Widest(E).hi /\ j.level <= Widest(E).level)
<1> DEFINE Rank(k) == 2 * k.hi + k.level
           S == {Rank(k) : k \in E}
<1>1. \A k \in E : k.hi \in Nat /\ k.level \in {0, 1} /\ Rank(k) \in Nat
                   /\ Rank(k) <= 2 * b + 1
  BY KeyParts
<1>2. S \in SUBSET Nat /\ S # {} /\ (\A x \in S : x <= 2 * b + 1) /\ 2 * b + 1 \in Nat
  BY <1>1
<1>3. PICK m \in S : \A x \in S : x <= m
  <2> HIDE DEF S
  <2> QED
    BY <1>2, Greatest
<1>4. PICK k \in E : m = Rank(k)
  OBVIOUS
<1>5. \A j \in E : Rank(j) <= Rank(k)
  BY <1>3, <1>4
<1>6. \A j \in E : j.hi < k.hi \/ (j.hi = k.hi /\ j.level <= k.level)
  BY <1>1, <1>5
<1> QED
  BY <1>6 DEF Widest

\* What follows position pos in the greedy cover of the keys K.
Following(K, e, until, pos) ==
    {k \in K : /\ k.level = 0 /\ pos <= k.hi /\ k.hi <= until
               /\ \A s \in pos..k.hi : Segment(e, s) \in K}

\* One step of the cover.
CoverStep(c, K, until, pos) ==
    LET E == Eligible(K, pos, until)
    IN  IF E = {} THEN {} ELSE {Widest(E)} \cup c[Widest(E).hi + 1]

LEMMA CoverIsFunction ==
    ASSUME NEW K, NEW until
    PROVE  BuildChain(K, until) =
              (CHOOSE c : c = [pos \in Nat |-> CoverStep(c, K, until, pos)])[0]
BY DEF BuildChain, CoverStep

\* The cover beyond its first object is one segment after the other.
LEMMA CoverOfSegments ==
    ASSUME NEW K \in SUBSET Key, NEW e \in Nat, \A k \in K : k.epoch = e,
           NEW until \in Nat, NEW pos \in Nat \ {0}, NEW c,
           c[pos + 1] = Following(K, e, until, pos + 1)
    PROVE  CoverStep(c, K, until, pos) = Following(K, e, until, pos)
<1> DEFINE E == Eligible(K, pos, until)
           k == Segment(e, pos)
<1>1. E = {j \in {k} : k \in K /\ pos <= until}
  <2>1. ASSUME NEW j \in E  PROVE j = k /\ pos <= until
    BY KeyParts DEF Eligible, Low
  <2>2. k \in K /\ pos <= until => k \in E
    BY DEF Eligible, Low, Segment
  <2> QED
    BY <2>1, <2>2 DEF Eligible
<1>2. k.hi = pos /\ k.level = 0
  BY DEF Segment
<1> HIDE DEF E, k
<1>3. CASE k \in K /\ pos <= until
  <2>1. E = {k}
    BY <1>1, <1>3
  <2>2. Widest(E) = k
    BY <2>1, <1>2, <1>3, WidestIsWidest
  <2>3. CoverStep(c, K, until, pos) = {k} \cup Following(K, e, until, pos + 1)
    BY <1>2, <2>1, <2>2 DEF CoverStep, E
  <2>4. ASSUME NEW j \in Following(K, e, until, pos)
        PROVE  j \in {k} \cup Following(K, e, until, pos + 1)
    <3>1. j \in Key /\ j.epoch = e /\ j.hi \in Nat /\ pos <= j.hi /\ j = Segment(e, j.hi)
      BY KeyParts DEF Following
    <3>2. CASE j.hi = pos
      BY <3>1, <3>2 DEF k
    <3>3. CASE j.hi # pos
      <4>1. pos + 1 <= j.hi /\ (pos + 1)..j.hi \subseteq pos..j.hi
        BY <3>1, <3>3
      <4> QED
        BY <4>1 DEF Following
    <3> QED
      BY <3>2, <3>3
  <2>5. ASSUME NEW j \in Following(K, e, until, pos + 1)
        PROVE  j \in Following(K, e, until, pos)
    <3>1. j \in Key /\ j.hi \in Nat /\ pos + 1 <= j.hi
      BY KeyParts DEF Following
    <3>2. \A s \in pos..j.hi : s = pos \/ s \in (pos + 1)..j.hi
      BY <3>1
    <3> QED
      BY <1>3, <3>1, <3>2 DEF Following, k
  <2>6. k \in Following(K, e, until, pos)
    <3>1. \A s \in pos..pos : s = pos
      OBVIOUS
    <3> QED
      BY <1>2, <1>3, <3>1 DEF Following, k
  <2> QED
    BY <2>3, <2>4, <2>5, <2>6
<1>4. CASE ~(k \in K /\ pos <= until)
  <2>1. E = {}
    BY <1>1, <1>4
  <2>2. Following(K, e, until, pos) = {}
    <3> SUFFICES ASSUME NEW j \in Following(K, e, until, pos)  PROVE FALSE
      OBVIOUS
    <3>1. j.hi \in Nat /\ pos <= j.hi /\ j.hi <= until /\ pos \in pos..j.hi
      BY KeyParts DEF Following
    <3> QED
      BY <1>4, <3>1 DEF Following, k
  <2> QED
    BY <2>1, <2>2 DEF CoverStep, E
<1> QED
  BY <1>3, <1>4

\* The cover of all: the head, and the segments that follow it.
LEMMA CoverOfAll ==
    ASSUME NEW K \in SUBSET Key, NEW e \in Nat, \A k \in K : k.epoch = e,
           NEW until \in Nat, NEW c,
           \A pos \in Nat \ {0} : c[pos] = Following(K, e, until, pos)
    PROVE  LET B == {k \in K : k.hi <= until}
           IN  CoverStep(c, K, until, 0) = {k \in B : InChain(B, k)}
<1> DEFINE B == {k \in K : k.hi <= until}
           E == Eligible(K, 0, until)
<1>1. E = Heads(B, e)
  BY KeyParts DEF Eligible, Low, Heads
<1>2. \A k \in E : k \in B /\ k \in Key /\ k.epoch = e /\ k.hi <= until
                   /\ k.hi \in Nat /\ k.level \in {0, 1}
  BY <1>1, KeyParts DEF Heads
<1>3. ASSUME NEW k \in B, IsHead(B, k)  PROVE k \in E
  BY <1>1, <1>3 DEF IsHead
<1> HIDE DEF E
<1>4. CASE E = {}
  <2>1. \A k \in B : ~IsHead(B, k)
    BY <1>3, <1>4
  <2>2. \A k \in B : ~InChain(B, k)
    BY <2>1 DEF InChain, Follows
  <2> QED
    BY <1>4, <2>2 DEF CoverStep, E
<1>5. CASE E # {}
  <2> DEFINE w == Widest(E)
  <2>1. w \in E /\ \A j \in E : j.hi < w.hi \/ (j.hi = w.hi /\ j.level <= w.level)
    BY <1>2, <1>5, WidestIsWidest
  <2>2. CoverStep(c, K, until, 0) = {w} \cup c[w.hi + 1]
    BY <1>5 DEF CoverStep, E
  <2> HIDE DEF w
  <2>3. w \in B /\ IsHead(B, w)
    BY <1>1, <1>2, <2>1 DEF IsHead
  <2>4. ASSUME NEW k \in B, IsHead(B, k)  PROVE k = w
    <3>1. k \in E
      BY <1>3, <2>4
    <3>2. k.hi < w.hi \/ (k.hi = w.hi /\ k.level <= w.level)
      BY <2>1, <3>1
    <3>3. w.hi < k.hi \/ (w.hi = k.hi /\ w.level <= k.level)
      BY <1>1, <1>2, <2>1, <2>4 DEF IsHead
    <3>4. k.hi = w.hi /\ k.level = w.level /\ k.epoch = w.epoch
      BY <1>2, <2>1, <3>1, <3>2, <3>3
    <3> QED
      BY <1>2, <2>1, <3>1, <3>4 DEF Key
  <2>5. c[w.hi + 1] = Following(K, e, until, w.hi + 1)
    BY <1>2, <2>1
  <2>6. ASSUME NEW k \in B  PROVE Follows(B, k) <=> k \in Following(K, e, until, w.hi + 1)
    <3>1. w.hi \in Nat /\ k.hi \in Nat /\ k \in K /\ k.epoch = e /\ w.epoch = e
      BY <1>2, <2>1, KeyParts
    <3>2. Follows(B, k) <=>
             /\ k.level = 0 /\ w.hi < k.hi
             /\ \A s \in (w.hi + 1)..k.hi : Segment(e, s) \in B
      BY <2>3, <2>4, <3>1 DEF Follows
    <3>3. \A s \in (w.hi + 1)..k.hi : Segment(e, s) \in B <=> Segment(e, s) \in K
      BY <3>1 DEF Segment
    <3> QED
      BY <3>1, <3>2, <3>3 DEF Following
  <2>7. ASSUME NEW k \in Following(K, e, until, w.hi + 1)  PROVE k \in B
    BY DEF Following
  <2> QED
    BY <2>2, <2>3, <2>4, <2>5, <2>6, <2>7 DEF InChain
<1> QED
  BY <1>4, <1>5

\* build_chain's greedy cover of the keys of one epoch, for any cut: the closed
\* form that module Lane is built on.
THEOREM GreedyIsClosed ==
    ASSUME NEW K \in SUBSET Key, NEW e \in Nat, \A k \in K : k.epoch = e,
           NEW until \in Nat
    PROVE  LET B == {k \in K : k.hi <= until}
           IN  BuildChain(K, until) = {k \in B : InChain(B, k)}
<1> DEFINE B == {k \in K : k.hi <= until}
           F(pos) == Following(K, e, until, pos)
           d == [pos \in Nat |-> IF pos = 0 THEN {k \in B : InChain(B, k)} ELSE F(pos)]
           c == CHOOSE c : c = [pos \in Nat |-> CoverStep(c, K, until, pos)]
<1> HIDE DEF B, F
<1>1. d[0] = {k \in B : InChain(B, k)} /\ \A pos \in Nat \ {0} : d[pos] = F(pos)
  OBVIOUS
<1>2. d = [pos \in Nat |-> CoverStep(d, K, until, pos)]
  <2>1. CoverStep(d, K, until, 0) = d[0]
    BY <1>1, CoverOfAll DEF B, F
  <2>2. ASSUME NEW pos \in Nat \ {0}  PROVE CoverStep(d, K, until, pos) = d[pos]
    <3>1. d[pos + 1] = F(pos + 1) /\ d[pos] = F(pos)
      BY <1>1
    <3> HIDE DEF d
    <3> QED
      BY <3>1, CoverOfSegments DEF F
  <2>3. \A pos \in Nat : CoverStep(d, K, until, pos) = d[pos]
    BY <2>1, <2>2
  <2>4. d = [pos \in Nat |-> d[pos]]
    OBVIOUS
  <2> HIDE DEF d
  <2> QED
    BY <2>3, <2>4
<1> HIDE DEF d
<1>3. c = [pos \in Nat |-> CoverStep(c, K, until, pos)]
  BY <1>2
<1> HIDE DEF c
<1>4. \A pos \in Nat : c[pos] = CoverStep(c, K, until, pos)
  BY <1>3
<1> DEFINE T == {n \in Nat : \A pos \in Nat \ {0} : pos + n > until => c[pos] = F(pos)}
<1>5. 0 \in T
  <2>1. ASSUME NEW pos \in Nat \ {0}, pos > until  PROVE c[pos] = F(pos)
    <3>1. Eligible(K, pos, until) = {} /\ F(pos) = {}
      BY <2>1, KeyParts DEF Eligible, F, Following
    <3> QED
      BY <1>4, <3>1 DEF CoverStep
  <2> QED
    BY <2>1
<1>6. ASSUME NEW n \in Nat, n \in T  PROVE n + 1 \in T
  <2>1. ASSUME NEW pos \in Nat \ {0}, pos + (n + 1) > until  PROVE c[pos] = F(pos)
    <3>1. c[pos + 1] = F(pos + 1)
      BY <1>6, <2>1
    <3> QED
      BY <1>4, <3>1, CoverOfSegments DEF F
  <2> QED
    BY <2>1
<1>7. until \in T
  <2> HIDE DEF T
  <2> QED
    BY <1>5, <1>6, Induction
<1>8. \A pos \in Nat \ {0} : c[pos] = F(pos)
  BY <1>7
<1>9. c[0] = {k \in B : InChain(B, k)}
  BY <1>4, <1>8, CoverOfAll DEF B, F
<1> QED
  BY <1>9, CoverIsFunction DEF B, c

-----------------------------------------------------------------------------
(***************************************************************************)
(* The shape of the state.                                                 *)
(***************************************************************************)

ObjectSet == [body : SUBSET RecordSet, at : Nat]

LanesOK ==
    /\ clock \in [Agent -> Nat] /\ epoch \in [Agent -> Nat] /\ nextSeq \in [Agent -> Nat]
    /\ own \in [Agent -> SUBSET RecordSet]
    /\ lanes = [a \in Agent |-> lanes[a]]
    /\ \A a \in Agent :
          /\ IsFiniteSet(own[a]) /\ IsFiniteSet(DOMAIN lanes[a])
          /\ DOMAIN lanes[a] \subseteq Key
          /\ lanes[a] \in [DOMAIN lanes[a] -> ObjectSet]
          /\ \A k \in DOMAIN lanes[a] : IsFiniteSet(lanes[a][k].body)

ReaderSet ==
    [peerEpoch : [Agent -> Nat], applied : [Agent -> SUBSET Key], log : SUBSET LogEntry,
     state : StateSet, heard : SUBSET HeardSet]

\* A reader knows the merge of what it has heard.
Knows(rd) == rd \in ReaderSet /\ IsFiniteSet(rd.log) /\ IsMerge(rd.state, rd.heard)

ShapeInv == LanesOK /\ Knows(reader)

\* The log entries of all that is in the lanes.
LaneMarks == UNION {Entries(a, DOMAIN lanes[a]) : a \in Agent}

\* What a reader takes in from objects that are in the lanes.
Reads(rd, rd2) == Knows(rd2) /\ rd2.log \subseteq rd.log \cup LaneMarks

LEMMA ContentsOK ==
    ASSUME LanesOK, NEW a \in Agent, NEW K \in SUBSET DOMAIN lanes[a]
    PROVE  /\ Contents(a, K) \subseteq RecordSet /\ IsFiniteSet(Contents(a, K))
           /\ Contents(a, K) \X {a} \subseteq HeardSet
           /\ IsFiniteSet(Contents(a, K) \X {a})
           /\ Entries(a, K) \subseteq LaneMarks /\ Entries(a, K) \subseteq LogEntry
           /\ IsFiniteSet(Entries(a, K))
<1>1. IsFiniteSet(K) /\ \A k \in K : k \in Key /\ lanes[a][k] \in ObjectSet
                                      /\ IsFiniteSet(lanes[a][k].body)
  BY FS_Subset DEF LanesOK
<1>2. \A k \in K : lanes[a][k].body \subseteq RecordSet /\ lanes[a][k].at \in Nat
  BY <1>1 DEF ObjectSet
<1> DEFINE body == [k \in K |-> lanes[a][k].body]
           entry == [k \in K |-> [agent |-> a, at |-> lanes[a][k].at,
                                  epoch |-> k.epoch, seq |-> k.hi]]
<1>3. Contents(a, K) = UNION {body[k] : k \in K} /\ \A k \in K : body[k] = lanes[a][k].body
  BY DEF Contents
<1>4. Entries(a, K) = {entry[k] : k \in K}
  BY DEF Entries
<1>5. \A k \in K : entry[k] \in LogEntry
  BY <1>1, <1>2, KeyParts DEF LogEntry
<1>6. body = [k \in K |-> body[k]] /\ entry = [k \in K |-> entry[k]]
  OBVIOUS
<1> HIDE DEF body, entry
<1>7. IsFiniteSet({body[k] : k \in K}) /\ IsFiniteSet({entry[k] : k \in K})
  BY <1>1, <1>6, FiniteImage
<1>8. Contents(a, K) \subseteq RecordSet
  BY <1>2, <1>3
<1>9. IsFiniteSet(Contents(a, K))
  <2> DEFINE bodies == {body[k] : k \in K}
  <2>1. IsFiniteSet(bodies) /\ (\A B \in bodies : IsFiniteSet(B)) /\ Contents(a, K) = UNION bodies
    BY <1>1, <1>3, <1>7
  <2> HIDE DEF bodies
  <2> QED
    BY <2>1, FS_UNION
<1>10. IsFiniteSet(Contents(a, K) \X {a})
  BY <1>9, FS_Product, FS_Singleton
<1>11. Entries(a, K) \subseteq LaneMarks
  BY DEF LaneMarks, Entries
<1> QED
  BY <1>4, <1>5, <1>7, <1>8, <1>9, <1>10, <1>11 DEF HeardSet

\* Fetching objects of a lane, on waking up.
LEMMA HeardReads ==
    ASSUME LanesOK, NEW rd, Knows(rd), NEW a \in Agent, NEW K \in SUBSET DOMAIN lanes[a]
    PROVE  Reads(rd, Heard(rd, a, K))
<1> DEFINE H == Contents(a, K) \X {a}
           rd2 == Heard(rd, a, K)
<1>1. H \in SUBSET HeardSet /\ IsFiniteSet(H)
      /\ Entries(a, K) \subseteq LaneMarks /\ Entries(a, K) \subseteq LogEntry
      /\ IsFiniteSet(Entries(a, K))
  BY ContentsOK
<1>2. rd2 = [rd EXCEPT !.log = @ \cup Entries(a, K), !.state = ApplyAll(@, H),
                       !.heard = @ \cup H]
  BY DEF Heard
<1> HIDE DEF H, rd2
<1>3. ApplyAll(rd.state, H) \in StateSet /\ IsMerge(ApplyAll(rd.state, H), rd.heard \cup H)
  BY <1>1, ApplyAllMerges DEF Knows, ReaderSet
<1>4. /\ rd2.log = rd.log \cup Entries(a, K) /\ rd2.state = ApplyAll(rd.state, H)
      /\ rd2.heard = rd.heard \cup H /\ rd2 \in ReaderSet
  BY <1>1, <1>2, <1>3 DEF Knows, ReaderSet
<1>5. IsFiniteSet(rd2.log)
  BY <1>1, <1>4, FS_Union DEF Knows
<1> QED
  BY <1>1, <1>3, <1>4, <1>5 DEF Reads, Knows, rd2

LEMMA ListedIsThere ==
    ASSUME LanesOK, NEW a \in Agent
    PROVE  /\ ListedChain(a) \subseteq DOMAIN lanes[a] /\ ListedChain(a) \subseteq Key
           /\ ListedChain(a) # {} => ListedEpoch(a) \in Nat
<1>1. ListedChain(a) \subseteq DOMAIN lanes[a] /\ ListedChain(a) \subseteq Key
  BY DEF ListedChain, SelectChain, LanesOK
<1>2. ListedChain(a) # {} => (CHOOSE k \in ListedChain(a) : TRUE) \in ListedChain(a)
  OBVIOUS
<1> QED
  BY <1>1, <1>2, KeyParts DEF ListedEpoch

LEMMA RefreshedReads ==
    ASSUME LanesOK, NEW rd, Knows(rd)
    PROVE  Reads(rd, Refreshed(rd))
<1> DEFINE peers == {a \in Agent \ {Me} : ListedChain(a) # {}}
           News == [a \in peers |-> Contents(a, Wanted(rd, a)) \X {a}]
           Notes == [a \in peers |-> Entries(a, Wanted(rd, a))]
           H == UNION {News[a] : a \in peers}
           L == UNION {Notes[a] : a \in peers}
           E == [a \in Agent |-> IF a \in peers THEN ListedEpoch(a) ELSE rd.peerEpoch[a]]
           A == [a \in Agent |-> IF a \in peers THEN Applied(rd, a) \cup ListedChain(a)
                                 ELSE rd.applied[a]]
           rd2 == Refreshed(rd)
<1>1. IsFiniteSet(peers)
  BY TimeTravelAssumption, FS_Subset
<1>2. ASSUME NEW a \in peers
      PROVE  /\ News[a] \subseteq HeardSet /\ IsFiniteSet(News[a])
             /\ Notes[a] \subseteq LaneMarks /\ Notes[a] \subseteq LogEntry
             /\ IsFiniteSet(Notes[a])
  <2>1. Wanted(rd, a) \in SUBSET DOMAIN lanes[a]
    BY ListedIsThere DEF Wanted
  <2> QED
    BY <2>1, ContentsOK
<1>3. E \in [Agent -> Nat] /\ A \in [Agent -> SUBSET Key]
  <2>1. rd.peerEpoch \in [Agent -> Nat] /\ rd.applied \in [Agent -> SUBSET Key]
    BY DEF Knows, ReaderSet
  <2>2. \A a \in Agent : Applied(rd, a) \subseteq Key
    BY <2>1 DEF Applied
  <2> QED
    BY <2>1, <2>2, ListedIsThere
<1>4. rd2 = [rd EXCEPT !.peerEpoch = E, !.applied = A, !.log = @ \cup L,
                       !.state = ApplyAll(@, H), !.heard = @ \cup H]
  BY DEF Refreshed
<1>5. News = [a \in peers |-> News[a]] /\ Notes = [a \in peers |-> Notes[a]]
  OBVIOUS
<1> HIDE DEF News, Notes, E, A, rd2
<1>6. IsFiniteSet({News[a] : a \in peers}) /\ IsFiniteSet({Notes[a] : a \in peers})
  <2> HIDE DEF peers
  <2>1. IsFiniteSet({News[a] : a \in peers})
    BY <1>1, <1>5, FiniteImage
  <2>2. IsFiniteSet({Notes[a] : a \in peers})
    BY <1>1, <1>5, FiniteImage
  <2> QED
    BY <2>1, <2>2
<1>7. H \in SUBSET HeardSet /\ IsFiniteSet(H)
  BY <1>2, <1>6, FS_UNION
<1>8. L \subseteq LaneMarks /\ L \subseteq LogEntry /\ IsFiniteSet(L)
  BY <1>2, <1>6, FS_UNION
<1> HIDE DEF H, L
<1>9. ApplyAll(rd.state, H) \in StateSet /\ IsMerge(ApplyAll(rd.state, H), rd.heard \cup H)
  BY <1>7, ApplyAllMerges DEF Knows, ReaderSet
<1>10. /\ rd2.log = rd.log \cup L /\ rd2.state = ApplyAll(rd.state, H)
       /\ rd2.heard = rd.heard \cup H /\ rd2 \in ReaderSet
  BY <1>3, <1>4, <1>7, <1>8, <1>9 DEF Knows, ReaderSet
<1>11. IsFiniteSet(rd2.log)
  BY <1>8, <1>10, FS_Union DEF Knows
<1> QED
  BY <1>8, <1>9, <1>10, <1>11 DEF Reads, Knows, rd2

-----------------------------------------------------------------------------
(***************************************************************************)
(* The inductive invariant.                                                *)
(***************************************************************************)

\* Commits are numbered without gaps, and up to where their lane is; the last
\* one left what the lane's Space has.
CommitsOK(a) ==
    /\ DOMAIN past[a] \subseteq Nat \X Nat
    /\ \A p \in DOMAIN past[a] :
          /\ p[1] < epoch[a] \/ (p[1] = epoch[a] /\ p[2] < nextSeq[a])
          /\ \A s \in 0..p[2] : <<p[1], s>> \in DOMAIN past[a]
    /\ nextSeq[a] > 0 =>
          /\ <<epoch[a], nextSeq[a] - 1>> \in DOMAIN past[a]
          /\ past[a][<<epoch[a], nextSeq[a] - 1>>] = own[a]
    /\ LaneReplay(own[a]) = own[a]

PastOK == past = [a \in Agent |-> past[a]] /\ \A a \in Agent : CommitsOK(a)

\* Log entries, and those that a reader could still make.
Marked == LaneMarks \cup reader.log

Behind(x, y) == x.epoch < y.epoch \/ (x.epoch = y.epoch /\ x.seq < y.seq)

\* Each is of a commit, and of two of a lane the later commit is not the earlier
\* by the clock.
MarksOK ==
    /\ \A x \in Marked : /\ <<x.epoch, x.seq>> \in DOMAIN past[x.agent]
                         /\ x.at <= clock[x.agent]
    /\ \A x, y \in Marked : x.agent = y.agent /\ Behind(x, y) => x.at <= y.at

\* The records before an object's own: none for an L1 object or an epoch's
\* first, which hold the base.
Preceding(a, k) ==
    IF k.level = 1 \/ k.hi = 0 THEN {} ELSE past[a][<<k.epoch, k.hi - 1>>]

\* An object, replayed on what was before it, gives the lane as its commit left it.
BodyOK(a, k) ==
    LaneReplay(Preceding(a, k) \cup lanes[a][k].body) = past[a][<<k.epoch, k.hi>>]

BodiesOK == \A a \in Agent : \A k \in DOMAIN lanes[a] : BodyOK(a, k)

TravelInv == ShapeInv /\ PastOK /\ MarksOK /\ BodiesOK

LEMMA ReplayTwice ==
    ASSUME NEW A, NEW B
    PROVE  /\ LaneReplay(LaneReplay(A)) = LaneReplay(A)
           /\ LaneReplay(LaneReplay(A) \cup B) = LaneReplay(A \cup B)
           /\ LaneReplay(A) \subseteq A
<1>1. \A S, r : r \in LaneReplay(S) <=> r \in S /\ (r.op = "put" => ForgetRecord(r.frag) \notin S)
  BY DEF LaneReplay
<1>2. \A f : ForgetRecord(f).op # "put"
  BY DEF ForgetRecord
<1>3. \A S, f : ForgetRecord(f) \in LaneReplay(S) <=> ForgetRecord(f) \in S
  BY <1>1, <1>2
<1>4. \A r : r \in LaneReplay(LaneReplay(A) \cup B) <=> r \in LaneReplay(A \cup B)
  BY <1>1, <1>3
<1>5. \A r : r \in LaneReplay(LaneReplay(A)) <=> r \in LaneReplay(A)
  BY <1>1, <1>3
<1> QED
  BY <1>1, <1>4, <1>5

LEMMA MarkOf ==
    ASSUME NEW x \in LaneMarks
    PROVE  \E a \in Agent : \E k \in DOMAIN lanes[a] :
              x = [agent |-> a, at |-> lanes[a][k].at, epoch |-> k.epoch, seq |-> k.hi]
BY DEF LaneMarks, Entries

LEMMA ObjectIsMarked ==
    ASSUME NEW a \in Agent, NEW k \in DOMAIN lanes[a]
    PROVE  [agent |-> a, at |-> lanes[a][k].at, epoch |-> k.epoch, seq |-> k.hi] \in LaneMarks
BY DEF LaneMarks, Entries

LEMMA MarkedIsLog ==
    ASSUME ShapeInv, NEW x \in Marked
    PROVE  x \in LogEntry
<1>1. ASSUME NEW a \in Agent  PROVE Entries(a, DOMAIN lanes[a]) \subseteq LogEntry
  BY ContentsOK DEF ShapeInv
<1> QED
  BY <1>1 DEF Marked, LaneMarks, ShapeInv, Knows, ReaderSet

\* The commits that there are do not lie behind the lane's position.
LEMMA MarksBehind ==
    ASSUME ShapeInv, PastOK, MarksOK, NEW x \in Marked, NEW n \in Nat, nextSeq[x.agent] <= n + 1
    PROVE  x.epoch < epoch[x.agent] \/ (x.epoch = epoch[x.agent] /\ x.seq <= n)
<1>1. x \in LogEntry /\ x.agent \in Agent
  BY MarkedIsLog DEF LogEntry
<1>2. <<x.epoch, x.seq>> \in DOMAIN past[x.agent]
  BY DEF MarksOK
<1>3. x.epoch < epoch[x.agent] \/ (x.epoch = epoch[x.agent] /\ x.seq < nextSeq[x.agent])
  BY <1>1, <1>2 DEF PastOK, CommitsOK
<1> QED
  BY <1>1, <1>3 DEF LogEntry, ShapeInv, LanesOK

\* A mark more, of a commit that none lies beyond, and of this moment.
LEMMA MarksGrow ==
    ASSUME ShapeInv, ShapeInv', MarksOK, NEW new \in LogEntry,
           Marked' \subseteq Marked \cup {new},
           new.at = clock'[new.agent],
           \A b \in Agent : clock[b] <= clock'[b] /\ DOMAIN past[b] \subseteq DOMAIN past'[b],
           <<new.epoch, new.seq>> \in DOMAIN past'[new.agent],
           \A x \in Marked : x.agent = new.agent => ~Behind(new, x)
    PROVE  MarksOK'
<1>1. \A x \in Marked : x \in LogEntry /\ x.agent \in Agent /\ x.at \in Nat
                        /\ x.epoch \in Nat /\ x.seq \in Nat
  BY MarkedIsLog DEF LogEntry
<1>2. new.agent \in Agent /\ new.at \in Nat /\ new.epoch \in Nat /\ new.seq \in Nat
  BY DEF LogEntry
<1>3. \A b \in Agent : clock[b] \in Nat /\ clock'[b] \in Nat
  BY DEF ShapeInv, LanesOK
<1>4. ASSUME NEW x \in Marked
      PROVE  <<x.epoch, x.seq>> \in DOMAIN past'[x.agent] /\ x.at <= clock'[x.agent]
  BY <1>1, <1>3 DEF MarksOK
<1>5. ASSUME NEW x \in Marked', NEW y \in Marked', x.agent = y.agent, Behind(x, y)
      PROVE  x.at <= y.at
  <2>1. CASE x \in Marked /\ y \in Marked
    BY <1>5, <2>1 DEF MarksOK
  <2>2. CASE y = new
    <3>1. CASE x \in Marked
      BY <1>4, <1>5, <2>2, <3>1
    <3>2. CASE x = new
      BY <1>2, <2>2, <3>2
    <3> QED
      BY <3>1, <3>2
  <2>3. CASE x = new /\ y \in Marked
    BY <1>5, <2>3
  <2> QED
    BY <2>1, <2>2, <2>3
<1>6. new.at <= clock'[new.agent]
  BY <1>2
<1> QED
  BY <1>4, <1>5, <1>6 DEF MarksOK, Behind

\* Fewer marks.
LEMMA MarksShrink ==
    ASSUME MarksOK, Marked' \subseteq Marked, UNCHANGED <<clock, past>>
    PROVE  MarksOK'
BY DEF MarksOK, Behind

LEMMA BodyKept ==
    ASSUME LanesOK, BodiesOK, NEW a \in Agent, NEW k \in DOMAIN lanes[a],
           lanes'[a][k] = lanes[a][k],
           \A s \in 0..k.hi : past'[a][<<k.epoch, s>>] = past[a][<<k.epoch, s>>]
    PROVE  BodyOK(a, k)'
<1>0. k.hi \in Nat
  BY KeyParts DEF LanesOK
<1>1. BodyOK(a, k)
  BY DEF BodiesOK
<1>2. Preceding(a, k)' = Preceding(a, k)
  <2>1. k.hi # 0 => k.hi - 1 \in 0..k.hi
    BY <1>0
  <2> QED
    BY <2>1 DEF Preceding
<1>3. k.hi \in 0..k.hi
  BY <1>0
<1> QED
  BY <1>1, <1>2, <1>3 DEF BodyOK

-----------------------------------------------------------------------------
(***************************************************************************)
(* The steps.                                                              *)
(***************************************************************************)

LEMMA Writing ==
    ASSUME LanesOK, NEW a \in Agent, NEW k \in Key, NEW object \in ObjectSet,
           IsFiniteSet(object.body), Write(a, k, object)
    PROVE  /\ lanes' = [b \in Agent |-> lanes'[b]]
           /\ \A b \in Agent \ {a} : lanes'[b] = lanes[b]
           /\ DOMAIN lanes'[a] = DOMAIN lanes[a] \cup {k} /\ lanes'[a][k] = object
           /\ \A j \in DOMAIN lanes[a] \ {k} : lanes'[a][j] = lanes[a][j]
           /\ \A b \in Agent :
                 /\ IsFiniteSet(DOMAIN lanes'[b]) /\ DOMAIN lanes'[b] \subseteq Key
                 /\ lanes'[b] \in [DOMAIN lanes'[b] -> ObjectSet]
                 /\ \A j \in DOMAIN lanes'[b] : IsFiniteSet(lanes'[b][j].body)
<1> DEFINE lane == With(lanes[a], k, object)
<1>1. lanes' = [lanes EXCEPT ![a] = lane]
  BY DEF Write
<1>2. /\ DOMAIN lane = DOMAIN lanes[a] \cup {k} /\ lane[k] = object
      /\ \A j \in DOMAIN lanes[a] \ {k} : lane[j] = lanes[a][j]
      /\ lane \in [DOMAIN lane -> ObjectSet] /\ DOMAIN lane \subseteq Key
  BY DEF LanesOK, With
<1> HIDE DEF lane
<1>3. IsFiniteSet(DOMAIN lane)
  BY <1>2, FS_AddElement DEF LanesOK
<1>4. \A j \in DOMAIN lane : IsFiniteSet(lane[j].body)
  BY <1>2 DEF LanesOK
<1>5. lanes'[a] = lane /\ \A b \in Agent \ {a} : lanes'[b] = lanes[b]
  BY <1>1 DEF LanesOK
<1>6. lanes' = [b \in Agent |-> lanes'[b]]
  BY <1>1 DEF LanesOK
<1> QED
  BY <1>2, <1>3, <1>4, <1>5, <1>6 DEF LanesOK

\* What is marked after a write to lane a.
LEMMA MarksWritten ==
    ASSUME LanesOK, NEW a \in Agent, NEW k \in Key, NEW object \in ObjectSet,
           IsFiniteSet(object.body), Write(a, k, object)
    PROVE  LaneMarks' \subseteq LaneMarks \cup
              {[agent |-> a, at |-> object.at, epoch |-> k.epoch, seq |-> k.hi]}
<1> DEFINE new == [agent |-> a, at |-> object.at, epoch |-> k.epoch, seq |-> k.hi]
<1>1. ASSUME NEW b \in Agent, NEW j \in DOMAIN lanes'[b],
             NEW x, x = [agent |-> b, at |-> lanes'[b][j].at, epoch |-> j.epoch, seq |-> j.hi]
      PROVE  x \in LaneMarks \cup {new}
  <2>1. CASE b = a /\ j = k
    BY <1>1, <2>1, Writing
  <2>2. CASE ~(b = a /\ j = k)
    <3>1. j \in DOMAIN lanes[b] /\ lanes'[b][j] = lanes[b][j]
      BY <2>2, Writing
    <3> QED
      BY <1>1, <3>1, ObjectIsMarked
  <2> QED
    BY <2>1, <2>2
<1>2. ASSUME NEW x \in LaneMarks'
      PROVE  \E b \in Agent : \E j \in DOMAIN lanes'[b] :
                x = [agent |-> b, at |-> lanes'[b][j].at, epoch |-> j.epoch, seq |-> j.hi]
  BY DEF LaneMarks, Entries
<1> QED
  BY <1>1, <1>2

LEMMA InitTravelInv == TravelInit => TravelInv
<1> SUFFICES ASSUME TravelInit  PROVE TravelInv
  OBVIOUS
<1> USE DEF TravelInit
<1>1. LanesOK
  BY FS_EmptySet DEF LanesOK
<1>2. Knows(reader)
  BY FS_EmptySet, BlankIsMerge DEF Knows, Unread, ReaderSet
<1>3. LaneReplay({}) = {}
  BY DEF LaneReplay
<1>4. PastOK /\ BodiesOK
  BY <1>3 DEF PastOK, CommitsOK, BodiesOK
<1>5. Marked = {}
  <2>1. LaneMarks = {}
    BY DEF LaneMarks, Entries
  <2> QED
    BY <2>1 DEF Marked, Unread
<1>6. MarksOK
  BY <1>5 DEF MarksOK
<1> QED
  BY <1>1, <1>2, <1>4, <1>6 DEF TravelInv, ShapeInv

\* Reading leaves the lanes alone, and what is marked.
LEMMA ReadingInv ==
    ASSUME TravelInv, Reads(reader, reader') \/ UNCHANGED reader, UNCHANGED laneVars
    PROVE  TravelInv'
<1> USE DEF laneVars
<1>1. LanesOK' /\ PastOK' /\ BodiesOK'
  BY DEF TravelInv, ShapeInv, LanesOK, PastOK, CommitsOK, BodiesOK, BodyOK, Preceding
<1>2. Knows(reader')
  BY DEF TravelInv, ShapeInv, Reads
<1>3. LaneMarks' = LaneMarks
  BY DEF LaneMarks, Entries
<1>4. Marked' \subseteq Marked
  BY <1>3 DEF Marked, Reads
<1>5. MarksOK'
  BY <1>4, MarksShrink DEF TravelInv
<1> QED
  BY <1>1, <1>2, <1>5 DEF TravelInv, ShapeInv

LEMMA GcInv ==
    ASSUME TravelInv, NEW a \in Agent, Gc(a)
    PROVE  TravelInv'
<1>1. PICK D : /\ lanes' = [lanes EXCEPT ![a] = [k \in DOMAIN @ \ D |-> @[k]]]
               /\ UNCHANGED <<clock, epoch, nextSeq, own, reader, tags, past>>
  BY DEF Gc
<1> DEFINE lane == [k \in DOMAIN lanes[a] \ D |-> lanes[a][k]]
<1>2. /\ DOMAIN lane \subseteq DOMAIN lanes[a] /\ \A k \in DOMAIN lane : lane[k] = lanes[a][k]
      /\ lane \in [DOMAIN lane -> ObjectSet]
  BY DEF TravelInv, ShapeInv, LanesOK
<1>3. /\ lanes'[a] = lane /\ \A b \in Agent \ {a} : lanes'[b] = lanes[b]
      /\ lanes' = [b \in Agent |-> lanes'[b]]
  BY <1>1 DEF TravelInv, ShapeInv, LanesOK
<1> HIDE DEF lane
<1>4. IsFiniteSet(DOMAIN lane)
  BY <1>2, FS_Subset DEF TravelInv, ShapeInv, LanesOK
<1>5. \A b \in Agent : DOMAIN lanes'[b] \subseteq DOMAIN lanes[b]
                       /\ \A k \in DOMAIN lanes'[b] : lanes'[b][k] = lanes[b][k]
  BY <1>2, <1>3
<1>6. LanesOK'
  <2>1. \A b \in Agent : /\ IsFiniteSet(DOMAIN lanes'[b])
                         /\ lanes'[b] \in [DOMAIN lanes'[b] -> ObjectSet]
    BY <1>2, <1>3, <1>4 DEF TravelInv, ShapeInv, LanesOK
  <2> QED
    BY <1>1, <1>3, <1>5, <2>1 DEF TravelInv, ShapeInv, LanesOK
<1>7. Knows(reader)'
  BY <1>1 DEF TravelInv, ShapeInv, Knows
<1>8. PastOK' /\ BodiesOK'
  <2>1. PastOK'
    BY <1>1 DEF TravelInv, PastOK, CommitsOK
  <2>2. BodiesOK'
    BY <1>1, <1>5, BodyKept DEF TravelInv, ShapeInv, BodiesOK
  <2> QED
    BY <2>1, <2>2
<1>9. Marked' \subseteq Marked
  <2>1. ASSUME NEW b \in Agent, NEW k \in DOMAIN lanes'[b]
        PROVE  [agent |-> b, at |-> lanes'[b][k].at, epoch |-> k.epoch, seq |-> k.hi]
                  \in LaneMarks
    BY <1>5, <2>1, ObjectIsMarked
  <2>2. ASSUME NEW x \in LaneMarks'
        PROVE  \E b \in Agent : \E k \in DOMAIN lanes'[b] :
            x = [agent |-> b, at |-> lanes'[b][k].at, epoch |-> k.epoch, seq |-> k.hi]
    BY DEF LaneMarks, Entries
  <2>3. LaneMarks' \subseteq LaneMarks
    BY <2>1, <2>2
  <2> QED
    BY <1>1, <2>3 DEF Marked
<1>10. MarksOK'
  BY <1>1, <1>9, MarksShrink DEF TravelInv
<1> QED
  BY <1>6, <1>7, <1>8, <1>10 DEF TravelInv, ShapeInv

LEMMA RestartInv ==
    ASSUME TravelInv, NEW a \in Agent, Restart(a)
    PROVE  TravelInv'
<1> DEFINE chain == SelectChain(DOMAIN lanes[a], epoch[a] + 1)
<1>1. /\ epoch' = [epoch EXCEPT ![a] = @ + 1] /\ nextSeq' = [nextSeq EXCEPT ![a] = 0]
      /\ own' = [own EXCEPT ![a] = LaneReplay(Contents(a, chain))]
      /\ reader' = IF a = Me THEN Refreshed(Heard(Unread, a, chain)) ELSE reader
      /\ UNCHANGED <<clock, lanes, tags, past, collected>>
  BY DEF Restart
<1>2. chain \in SUBSET DOMAIN lanes[a]
  BY DEF SelectChain
<1> HIDE DEF chain
<1>3. Contents(a, chain) \subseteq RecordSet /\ IsFiniteSet(Contents(a, chain))
  BY <1>2, ContentsOK DEF TravelInv, ShapeInv
<1>4. LanesOK'
  <2>1. /\ LaneReplay(Contents(a, chain)) \subseteq RecordSet
        /\ IsFiniteSet(LaneReplay(Contents(a, chain)))
    BY <1>3, ReplayTwice, FS_Subset
  <2> QED
    BY <1>1, <2>1 DEF TravelInv, ShapeInv, LanesOK
<1>5. Knows(reader') /\ reader'.log \subseteq reader.log \cup LaneMarks
  <2>1. Knows(Unread) /\ Unread.log = {}
    BY FS_EmptySet, BlankIsMerge DEF Knows, Unread, ReaderSet
  <2>2. Reads(Unread, Heard(Unread, a, chain))
    BY <1>2, <2>1, HeardReads DEF TravelInv, ShapeInv
  <2>3. Reads(Heard(Unread, a, chain), Refreshed(Heard(Unread, a, chain)))
    BY <2>2, RefreshedReads DEF TravelInv, ShapeInv, Reads
  <2> QED
    BY <1>1, <2>1, <2>2, <2>3 DEF Reads, TravelInv, ShapeInv
<1>6. LaneMarks' = LaneMarks
  BY <1>1 DEF LaneMarks, Entries
<1>7. MarksOK'
  BY <1>1, <1>5, <1>6, MarksShrink DEF TravelInv, Marked
<1>8. PastOK'
  <2>1. LaneReplay(own'[a]) = own'[a] /\ \A b \in Agent \ {a} : own'[b] = own[b]
    BY <1>1, ReplayTwice DEF TravelInv, ShapeInv, LanesOK
  <2>2. epoch'[a] = epoch[a] + 1 /\ nextSeq'[a] = 0 /\ epoch[a] \in Nat
        /\ \A b \in Agent \ {a} : epoch'[b] = epoch[b] /\ nextSeq'[b] = nextSeq[b]
    BY <1>1 DEF TravelInv, ShapeInv, LanesOK
  <2>3. CommitsOK(a)'
    <3>1. DOMAIN past[a] \subseteq Nat \X Nat
          /\ \A p \in DOMAIN past[a] :
                /\ p[1] \in Nat /\ (p[1] < epoch[a] \/ p[1] = epoch[a])
                /\ \A s \in 0..p[2] : <<p[1], s>> \in DOMAIN past[a]
      BY DEF TravelInv, PastOK, CommitsOK
    <3>2. \A p \in DOMAIN past[a] : p[1] < epoch'[a]
      BY <2>2, <3>1
    <3> QED
      BY <1>1, <2>1, <2>2, <3>1, <3>2 DEF CommitsOK
  <2>4. ASSUME NEW b \in Agent \ {a}  PROVE CommitsOK(b)'
    BY <1>1, <2>1, <2>2 DEF TravelInv, PastOK, CommitsOK
  <2> QED
    BY <1>1, <2>3, <2>4 DEF TravelInv, PastOK
<1>9. BodiesOK'
  BY <1>1 DEF TravelInv, BodiesOK, BodyOK, Preceding
<1> QED
  BY <1>4, <1>5, <1>7, <1>8, <1>9 DEF TravelInv, ShapeInv

LEMMA CompactInv ==
    ASSUME TravelInv, NEW a \in Agent, Compact(a)
    PROVE  TravelInv'
<1>0. PICK k : k = Compaction(epoch[a], nextSeq[a] - 1)
  OBVIOUS
<1>1. PICK t \in {clock[a], clock[a] + 1} \cap 0..MaxTime :
         /\ nextSeq[a] > 0
         /\ Write(a, k, [body |-> own[a], at |-> t])
         /\ clock' = [clock EXCEPT ![a] = t]
         /\ UNCHANGED <<epoch, nextSeq, own, reader, tags, past, collected>>
  BY <1>0 DEF Compact
<1> DEFINE object == [body |-> own[a], at |-> t]
           new == [agent |-> a, at |-> t, epoch |-> epoch[a], seq |-> nextSeq[a] - 1]
<1>2. /\ epoch[a] \in Nat /\ nextSeq[a] \in Nat /\ nextSeq[a] - 1 \in Nat
      /\ t \in Nat /\ clock[a] \in Nat /\ clock[a] <= t
  BY <1>1 DEF TravelInv, ShapeInv, LanesOK
<1>3. k \in Key /\ k.level = 1 /\ k.epoch = epoch[a] /\ k.hi = nextSeq[a] - 1
  BY <1>0, <1>2 DEF Compaction, Key
<1>4. object \in ObjectSet /\ IsFiniteSet(object.body) /\ object.body = own[a] /\ object.at = t
  BY <1>2 DEF TravelInv, ShapeInv, LanesOK, ObjectSet
<1>5. Write(a, k, object)
  BY <1>1
<1>6. new \in LogEntry
  BY <1>2 DEF LogEntry
<1> HIDE DEF object
<1>7. /\ lanes' = [b \in Agent |-> lanes'[b]]
      /\ \A b \in Agent \ {a} : lanes'[b] = lanes[b]
      /\ DOMAIN lanes'[a] = DOMAIN lanes[a] \cup {k} /\ lanes'[a][k] = object
      /\ \A j \in DOMAIN lanes[a] \ {k} : lanes'[a][j] = lanes[a][j]
      /\ \A b \in Agent :
            /\ IsFiniteSet(DOMAIN lanes'[b]) /\ DOMAIN lanes'[b] \subseteq Key
            /\ lanes'[b] \in [DOMAIN lanes'[b] -> ObjectSet]
            /\ \A j \in DOMAIN lanes'[b] : IsFiniteSet(lanes'[b][j].body)
  BY <1>3, <1>4, <1>5, Writing DEF TravelInv, ShapeInv
<1>8. ShapeInv'
  <2>1. LanesOK'
    BY <1>1, <1>2, <1>7 DEF TravelInv, ShapeInv, LanesOK
  <2> QED
    BY <1>1, <2>1 DEF TravelInv, ShapeInv, Knows
<1>9. PastOK'
  BY <1>1 DEF TravelInv, PastOK, CommitsOK
<1>10. <<epoch[a], nextSeq[a] - 1>> \in DOMAIN past[a]
       /\ past[a][<<epoch[a], nextSeq[a] - 1>>] = own[a] /\ LaneReplay(own[a]) = own[a]
  BY <1>1 DEF TravelInv, PastOK, CommitsOK
<1>11. BodiesOK'
  <2>1. ASSUME NEW b \in Agent, NEW j \in DOMAIN lanes'[b], ~(b = a /\ j = k)
        PROVE  j \in DOMAIN lanes[b] /\ lanes'[b][j] = lanes[b][j]
    BY <1>7, <2>1
  <2>2. {} \cup own[a] = own[a]
    OBVIOUS
  <2>3. BodyOK(a, k)'
    <3>1. Preceding(a, k)' = {}
      BY <1>3 DEF Preceding
    <3>2. lanes'[a][k].body = own[a] /\ past' = past
      BY <1>1, <1>4, <1>7
    <3> QED
      BY <1>3, <1>10, <2>2, <3>1, <3>2 DEF BodyOK
  <2> QED
    BY <1>1, <2>1, <2>3, BodyKept DEF TravelInv, ShapeInv, BodiesOK
<1>12. MarksOK'
  <2>1. LaneMarks' \subseteq LaneMarks \cup {new}
    BY <1>3, <1>4, <1>5, MarksWritten DEF TravelInv, ShapeInv
  <2>2. Marked' \subseteq Marked \cup {new}
    BY <1>1, <2>1 DEF Marked
  <2>3. ASSUME NEW x \in Marked, x.agent = a  PROVE ~Behind(new, x)
    <3>1. x.epoch < epoch[a] \/ (x.epoch = epoch[a] /\ x.seq <= nextSeq[a] - 1)
      BY <1>2, <2>3, MarksBehind DEF TravelInv
    <3>2. x.epoch \in Nat /\ x.seq \in Nat
      BY MarkedIsLog DEF TravelInv, LogEntry
    <3> QED
      BY <1>2, <3>1, <3>2 DEF Behind
  <2>4. \A b \in Agent : clock[b] <= clock'[b] /\ DOMAIN past[b] \subseteq DOMAIN past'[b]
    BY <1>1, <1>2 DEF TravelInv, ShapeInv, LanesOK
  <2>5. new.at = clock'[new.agent] /\ <<new.epoch, new.seq>> \in DOMAIN past'[new.agent]
    BY <1>1, <1>10 DEF TravelInv, ShapeInv, LanesOK
  <2> HIDE DEF new
  <2>6. new.agent = a
    BY DEF new
  <2> QED
    BY <1>6, <1>8, <2>2, <2>3, <2>4, <2>5, <2>6, MarksGrow DEF TravelInv
<1> QED
  BY <1>8, <1>9, <1>11, <1>12 DEF TravelInv

LEMMA StagedOK ==
    ASSUME NEW a \in Agent, NEW t \in Nat, NEW R \in Staged(a, t)
    PROVE  R \subseteq RecordSet /\ IsFiniteSet(R)
<1>1. \A f \in Fragment : PutRecord(f, t) \in RecordSet /\ ForgetRecord(f) \in RecordSet
  BY DEF PutRecord, ForgetRecord, RecordSet
<1>2. R = {} \/ \E r \in RecordSet : R = {r}
  BY <1>1 DEF Staged
<1> QED
  BY <1>2, FS_EmptySet, FS_Singleton

LEMMA FlushInv ==
    ASSUME TravelInv, NEW a \in Agent, Flush(a)
    PROVE  TravelInv'
<1>0. PICK k, p : k = Segment(epoch[a], nextSeq[a]) /\ p = <<epoch[a], nextSeq[a]>>
  OBVIOUS
<1>1. PICK t, R :
         /\ t \in {clock[a], clock[a] + 1} \cap 0..MaxTime /\ R \in Staged(a, t)
         /\ Write(a, k, [body |-> Body(a, R), at |-> t])
         /\ own' = [own EXCEPT ![a] = LaneReplay(@ \cup R)]
         /\ past' = [past EXCEPT ![a] = With(@, p, own'[a])]
         /\ nextSeq' = [nextSeq EXCEPT ![a] = @ + 1]
         /\ clock' = [clock EXCEPT ![a] = t]
         /\ reader' =
               IF a # Me THEN reader
               ELSE [reader EXCEPT
                        !.log = @ \cup {[agent |-> a, at |-> t, epoch |-> epoch[a],
                                         seq |-> nextSeq[a]]},
                        !.state = ApplyAll(@, R \X {a}),
                        !.heard = @ \cup (R \X {a})]
         /\ UNCHANGED <<epoch, tags, collected>>
  BY <1>0 DEF Flush
<1>2. PICK object, new : /\ object = [body |-> Body(a, R), at |-> t]
                         /\ new = [agent |-> a, at |-> t, epoch |-> epoch[a],
                                   seq |-> nextSeq[a]]
  OBVIOUS
<1>3. /\ epoch[a] \in Nat /\ nextSeq[a] \in Nat /\ nextSeq[a] + 1 \in Nat
      /\ t \in Nat /\ clock[a] \in Nat /\ clock[a] <= t
      /\ own[a] \subseteq RecordSet /\ IsFiniteSet(own[a])
  BY <1>1 DEF TravelInv, ShapeInv, LanesOK
<1>4. R \subseteq RecordSet /\ IsFiniteSet(R) /\ Body(a, R) \in {R, own[a] \cup R}
  BY <1>1, <1>3, StagedOK DEF Body
<1>5. IsFiniteSet(own[a] \cup R)
  BY <1>3, <1>4, FS_Union
<1>6. k \in Key /\ k.level = 0 /\ k.epoch = epoch[a] /\ k.hi = nextSeq[a]
  BY <1>0, <1>3 DEF Segment, Key
<1>7. object \in ObjectSet /\ IsFiniteSet(object.body) /\ object.body = Body(a, R) /\ object.at = t
  BY <1>2, <1>3, <1>4, <1>5 DEF ObjectSet
<1>8. /\ lanes' = [b \in Agent |-> lanes'[b]]
      /\ \A b \in Agent \ {a} : lanes'[b] = lanes[b]
      /\ DOMAIN lanes'[a] = DOMAIN lanes[a] \cup {k} /\ lanes'[a][k] = object
      /\ \A j \in DOMAIN lanes[a] \ {k} : lanes'[a][j] = lanes[a][j]
      /\ \A b \in Agent :
            /\ IsFiniteSet(DOMAIN lanes'[b]) /\ DOMAIN lanes'[b] \subseteq Key
            /\ lanes'[b] \in [DOMAIN lanes'[b] -> ObjectSet]
            /\ \A j \in DOMAIN lanes'[b] : IsFiniteSet(lanes'[b][j].body)
  BY <1>1, <1>2, <1>6, <1>7, Writing DEF TravelInv, ShapeInv
<1>9. new \in LogEntry /\ new.agent = a /\ new.at = t /\ new.epoch = epoch[a] /\ new.seq = nextSeq[a]
  BY <1>2, <1>3 DEF LogEntry
<1>10. /\ own'[a] = LaneReplay(own[a] \cup R) /\ \A b \in Agent \ {a} : own'[b] = own[b]
       /\ own'[a] \subseteq RecordSet /\ IsFiniteSet(own'[a])
  <2>1. own'[a] = LaneReplay(own[a] \cup R) /\ \A b \in Agent \ {a} : own'[b] = own[b]
    BY <1>1 DEF TravelInv, ShapeInv, LanesOK
  <2>2. LaneReplay(own[a] \cup R) \in SUBSET (own[a] \cup R)
    BY ReplayTwice
  <2>3. IsFiniteSet(LaneReplay(own[a] \cup R))
    BY <1>5, <2>2, FS_Subset
  <2> QED
    BY <1>3, <1>4, <2>1, <2>2, <2>3
<1>11. LanesOK'
  <2>1. own' \in [Agent -> SUBSET RecordSet]
    BY <1>1, <1>10 DEF TravelInv, ShapeInv, LanesOK
  <2>2. \A b \in Agent : IsFiniteSet(own'[b])
    BY <1>10 DEF TravelInv, ShapeInv, LanesOK
  <2>3. /\ clock' \in [Agent -> Nat] /\ epoch' \in [Agent -> Nat]
        /\ nextSeq' \in [Agent -> Nat]
    BY <1>1, <1>3 DEF TravelInv, ShapeInv, LanesOK
  <2> QED
    BY <1>8, <2>1, <2>2, <2>3 DEF LanesOK
<1>12. Knows(reader') /\ reader'.log \subseteq reader.log \cup {new}
  <2>1. CASE a # Me
    BY <1>1, <2>1 DEF TravelInv, ShapeInv
  <2>2. CASE a = Me
    <3> DEFINE H == R \X {a}
    <3>1. H \in SUBSET HeardSet /\ IsFiniteSet(H)
      BY <1>4, FS_Product, FS_Singleton DEF HeardSet
    <3>2. reader' = [reader EXCEPT !.log = @ \cup {new}, !.state = ApplyAll(@, H),
                                   !.heard = @ \cup H]
      BY <1>1, <1>2, <2>2
    <3> HIDE DEF H
    <3>3. /\ ApplyAll(reader.state, H) \in StateSet
          /\ IsMerge(ApplyAll(reader.state, H), reader.heard \cup H)
      BY <3>1, ApplyAllMerges DEF TravelInv, ShapeInv, Knows, ReaderSet
    <3>4. /\ reader'.log = reader.log \cup {new} /\ reader'.state = ApplyAll(reader.state, H)
          /\ reader'.heard = reader.heard \cup H /\ reader' \in ReaderSet
      BY <1>9, <3>1, <3>2, <3>3 DEF TravelInv, ShapeInv, Knows, ReaderSet
    <3>5. IsFiniteSet(reader'.log)
      BY <3>4, FS_AddElement DEF TravelInv, ShapeInv, Knows
    <3> QED
      BY <3>3, <3>4, <3>5 DEF Knows
  <2> QED
    BY <2>1, <2>2
<1>13. /\ DOMAIN past'[a] = DOMAIN past[a] \cup {p} /\ past'[a][p] = own'[a]
       /\ \A q \in DOMAIN past[a] \ {p} : past'[a][q] = past[a][q]
       /\ \A b \in Agent \ {a} : past'[b] = past[b]
       /\ past' = [b \in Agent |-> past'[b]]
  <2> DEFINE more == With(past[a], p, own'[a])
  <2>1. past' = [past EXCEPT ![a] = more]
    BY <1>1
  <2>2. DOMAIN more = DOMAIN past[a] \cup {p} /\ more[p] = own'[a]
        /\ \A q \in DOMAIN past[a] \ {p} : more[q] = past[a][q]
    BY DEF With
  <2> HIDE DEF more
  <2>3. past = [b \in Agent |-> past[b]]
    BY DEF TravelInv, PastOK
  <2>4. DOMAIN past = Agent
    BY <2>3
  <2>5. past'[a] = more /\ \A b \in Agent \ {a} : past'[b] = past[b]
    BY <2>1, <2>4
  <2>6. past' = [b \in Agent |-> past'[b]]
    BY <2>1, <2>4
  <2> QED
    BY <2>2, <2>5, <2>6
<1>14. /\ DOMAIN past[a] \subseteq Nat \X Nat
       /\ \A q \in DOMAIN past[a] :
             /\ q[1] < epoch[a] \/ (q[1] = epoch[a] /\ q[2] < nextSeq[a])
             /\ \A s \in 0..q[2] : <<q[1], s>> \in DOMAIN past[a]
       /\ nextSeq[a] > 0 =>
             /\ <<epoch[a], nextSeq[a] - 1>> \in DOMAIN past[a]
             /\ past[a][<<epoch[a], nextSeq[a] - 1>>] = own[a]
       /\ LaneReplay(own[a]) = own[a]
  BY DEF TravelInv, PastOK, CommitsOK
<1>15. p \notin DOMAIN past[a]
  BY <1>0, <1>3, <1>14
<1>16. PastOK'
  <2>1. epoch' = epoch /\ nextSeq'[a] = nextSeq[a] + 1
        /\ \A b \in Agent \ {a} : nextSeq'[b] = nextSeq[b]
    BY <1>1 DEF TravelInv, ShapeInv, LanesOK
  <2>2. ASSUME NEW s \in 0..nextSeq[a]  PROVE <<epoch[a], s>> \in DOMAIN past'[a]
    <3>1. CASE s = nextSeq[a]
      BY <1>0, <1>13, <3>1
    <3>2. CASE s # nextSeq[a]
      <4>1. nextSeq[a] > 0 /\ s \in 0..(nextSeq[a] - 1)
        BY <1>3, <3>2
      <4> DEFINE q == <<epoch[a], nextSeq[a] - 1>>
      <4>2. q \in DOMAIN past[a] /\ q[1] = epoch[a] /\ q[2] = nextSeq[a] - 1
        BY <1>14, <4>1
      <4> HIDE DEF q
      <4> QED
        BY <1>13, <1>14, <4>1, <4>2
    <3> QED
      BY <3>1, <3>2
  <2>3. CommitsOK(a)'
    <3>1. p[1] = epoch[a] /\ p[2] = nextSeq[a] /\ p \in Nat \X Nat
      BY <1>0, <1>3
    <3>2. ASSUME NEW q \in DOMAIN past'[a]
          PROVE  /\ q[1] < epoch[a] \/ (q[1] = epoch[a] /\ q[2] < nextSeq[a] + 1)
                 /\ \A s \in 0..q[2] : <<q[1], s>> \in DOMAIN past'[a]
      <4>1. CASE q \in DOMAIN past[a]
        <5>1. q[2] \in Nat
          BY <1>14, <4>1
        <5>2. q[1] < epoch[a] \/ (q[1] = epoch[a] /\ q[2] < nextSeq[a] + 1)
          BY <1>3, <1>14, <4>1, <5>1
        <5> QED
          BY <1>13, <1>14, <4>1, <5>2
      <4>2. CASE q = p
        BY <1>3, <2>2, <3>1, <4>2
      <4> QED
        BY <1>13, <4>1, <4>2
    <3>3. (nextSeq[a] + 1) - 1 = nextSeq[a]
      BY <1>3
    <3>4. LaneReplay(own'[a]) = own'[a]
      BY <1>10, ReplayTwice
    <3>5. DOMAIN past'[a] \subseteq Nat \X Nat
      BY <1>13, <1>14, <3>1
    <3>6. <<epoch'[a], nextSeq'[a] - 1>> = p
      BY <1>0, <2>1, <3>3
    <3> QED
      BY <1>13, <2>1, <3>2, <3>4, <3>5, <3>6 DEF CommitsOK
  <2>4. ASSUME NEW b \in Agent \ {a}  PROVE CommitsOK(b)'
    BY <1>10, <1>13, <2>1 DEF TravelInv, PastOK, CommitsOK
  <2> QED
    BY <1>13, <2>3, <2>4 DEF PastOK
<1>17. BodiesOK'
  <2>1. ASSUME NEW b \in Agent, NEW j \in DOMAIN lanes'[b], ~(b = a /\ j = k)
        PROVE  BodyOK(b, j)'
    <3>1. j \in DOMAIN lanes[b] /\ lanes'[b][j] = lanes[b][j] /\ j \in Key
      BY <1>8, <2>1
    <3>2. ASSUME b = a
          PROVE  \A s \in 0..j.hi : past'[a][<<j.epoch, s>>] = past[a][<<j.epoch, s>>]
      <4>1. j.hi \in Nat /\ j.epoch \in Nat
        BY <3>1, KeyParts
      <4>2. [agent |-> a, at |-> lanes[a][j].at, epoch |-> j.epoch, seq |-> j.hi] \in Marked
        BY <3>1, <3>2, ObjectIsMarked DEF Marked
      <4>3. <<j.epoch, j.hi>> \in DOMAIN past[a]
        BY <4>2 DEF TravelInv, MarksOK
      <4>4. \A s \in 0..j.hi : <<j.epoch, s>> \in DOMAIN past[a]
        BY <1>14, <4>1, <4>3
      <4> QED
        BY <1>13, <1>15, <4>4
    <3>3. b # a => past'[b] = past[b]
      BY <1>13
    <3> QED
      BY <3>1, <3>2, <3>3, BodyKept DEF TravelInv, ShapeInv
  <2>2. BodyOK(a, k)'
    <3>1. lanes'[a][k].body = Body(a, R) /\ past'[a][<<k.epoch, k.hi>>] = LaneReplay(own[a] \cup R)
      BY <1>0, <1>6, <1>7, <1>8, <1>10, <1>13
    <3>2. CASE nextSeq[a] = 0
      <4>1. Preceding(a, k)' = {} /\ Body(a, R) = own[a] \cup R
        BY <1>6, <3>2 DEF Preceding, Body
      <4>2. {} \cup (own[a] \cup R) = own[a] \cup R
        OBVIOUS
      <4> QED
        BY <3>1, <4>1, <4>2 DEF BodyOK
    <3>3. CASE nextSeq[a] # 0
      <4>1. nextSeq[a] > 0 /\ <<epoch[a], nextSeq[a] - 1>> # p
        BY <1>0, <1>3, <3>3
      <4>2. past'[a][<<epoch[a], nextSeq[a] - 1>>] = own[a]
        BY <1>13, <1>14, <4>1
      <4>3. Preceding(a, k)' = own[a] /\ Body(a, R) = R
        BY <1>6, <3>3, <4>2 DEF Preceding, Body
      <4> QED
        BY <3>1, <4>3 DEF BodyOK
    <3> QED
      BY <3>2, <3>3
  <2> QED
    BY <2>1, <2>2 DEF BodiesOK
<1>18. ShapeInv'
  BY <1>11, <1>12 DEF ShapeInv
<1>19. MarksOK'
  <2>1. LaneMarks' \subseteq LaneMarks \cup {new}
    BY <1>1, <1>2, <1>6, <1>7, MarksWritten DEF TravelInv, ShapeInv
  <2>2. Marked' \subseteq Marked \cup {new}
    BY <1>12, <2>1 DEF Marked
  <2>3. ASSUME NEW x \in Marked, x.agent = a  PROVE ~Behind(new, x)
    <3>1. x.epoch < epoch[a] \/ (x.epoch = epoch[a] /\ x.seq <= nextSeq[a])
      BY <1>3, <2>3, MarksBehind DEF TravelInv
    <3>2. x.epoch \in Nat /\ x.seq \in Nat
      BY MarkedIsLog DEF TravelInv, LogEntry
    <3> QED
      BY <1>3, <1>9, <3>1, <3>2 DEF Behind
  <2>4. \A b \in Agent : clock[b] <= clock'[b]
    BY <1>1, <1>3 DEF TravelInv, ShapeInv, LanesOK
  <2>5. \A b \in Agent : DOMAIN past[b] \subseteq DOMAIN past'[b]
    BY <1>13
  <2>6. new.at = clock'[new.agent] /\ <<new.epoch, new.seq>> \in DOMAIN past'[new.agent]
    BY <1>0, <1>1, <1>9, <1>13 DEF TravelInv, ShapeInv, LanesOK
  <2> QED
    BY <1>9, <1>18, <2>2, <2>3, <2>4, <2>5, <2>6, MarksGrow DEF TravelInv
<1> QED
  BY <1>16, <1>17, <1>18, <1>19 DEF TravelInv

LEMMA TravelNextInv == TravelInv /\ [TravelNext]_travelVars => TravelInv'
<1> SUFFICES ASSUME TravelInv, [TravelNext]_travelVars  PROVE TravelInv'
  OBVIOUS
<1>1. ASSUME NEW a \in Agent, Flush(a) \/ Compact(a) \/ Gc(a) \/ Restart(a)
      PROVE  TravelInv'
  BY <1>1, FlushInv, CompactInv, GcInv, RestartInv
<1>2. CASE Refresh
  <2>1. Reads(reader, reader') /\ UNCHANGED laneVars
    BY <1>2, RefreshedReads DEF Refresh, TravelInv, ShapeInv
  <2> QED
    BY <2>1, ReadingInv
<1>3. ASSUME NEW n \in Name, Tag(n)  PROVE TravelInv'
  BY <1>3, ReadingInv DEF Tag
<1>4. CASE UNCHANGED travelVars
  BY <1>4, ReadingInv DEF travelVars
<1> QED
  BY <1>1, <1>2, <1>3, <1>4 DEF TravelNext

\* Every state that the lanes, their reader and its tags reach satisfies the
\* inductive invariant.
THEOREM TravelAlways == TravelSpec => []TravelInv
BY InitTravelInv, TravelNextInv, PTL DEF TravelSpec

\* Every object of every lane and every log entry stands for a commit that there
\* was, and the state keeps its shape.
THEOREM TravelTypes == TravelSpec => []TravelTypeOK
<1>1. TravelInv => TravelTypeOK
  <2> SUFFICES ASSUME TravelInv  PROVE TravelTypeOK
    OBVIOUS
  <2>1. ASSUME NEW a \in Agent, NEW k \in DOMAIN lanes[a]
        PROVE  k \in Key /\ <<k.epoch, k.hi>> \in DOMAIN past[a]
    <3>1. [agent |-> a, at |-> lanes[a][k].at, epoch |-> k.epoch, seq |-> k.hi] \in Marked
      BY ObjectIsMarked DEF Marked
    <3> QED
      BY <3>1 DEF TravelInv, ShapeInv, LanesOK, MarksOK
  <2>2. ASSUME NEW e \in reader.log
        PROVE  e \in LogEntry /\ <<e.epoch, e.seq>> \in DOMAIN past[e.agent]
    BY DEF TravelInv, ShapeInv, Knows, ReaderSet, MarksOK, Marked
  <2>3. /\ reader.state \in StateSet /\ reader.heard \subseteq RecordSet \X Agent
        /\ reader.applied \in [Agent -> SUBSET Key] /\ reader.peerEpoch \in [Agent -> Nat]
    BY DEF TravelInv, ShapeInv, Knows, ReaderSet, HeardSet
  <2> QED
    BY <2>1, <2>2, <2>3 DEF TravelTypeOK, TravelInv, ShapeInv, LanesOK
<1> QED
  BY <1>1, TravelAlways, PTL

\* A reader that applies records of many lanes as segments, compactions, restarts
\* and its own flushes bring them, in whatever order, knows their merge.
THEOREM ReaderMerges == TravelSpec => []MergeIsUnion
<1>1. TravelInv => MergeIsUnion
  BY DEF TravelInv, ShapeInv, Knows, MergeIsUnion
<1> QED
  BY <1>1, TravelAlways, PTL

\* Whatever of a lane compact() and gc() have left, build_chain's greedy cover of
\* an epoch up to a cut is the closed form that module Lane is built on.
THEOREM ChainsAreGreedy == TravelSpec => []ChainIsGreedy
<1>1. TravelInv => ChainIsGreedy
  <2> SUFFICES ASSUME TravelInv, NEW a \in Agent, NEW e \in 1..MaxEpoch,
                      NEW until \in 0..(MaxSeq + 1)
               PROVE  LET K == {k \in DOMAIN lanes[a] : k.epoch = e}
                          B == {k \in K : k.hi <= until}
                      IN  BuildChain(K, until) = {k \in B : InChain(B, k)}
    BY DEF ChainIsGreedy
  <2>1. e \in Nat /\ until \in Nat /\ {k \in DOMAIN lanes[a] : k.epoch = e} \in SUBSET Key
    BY TimeTravelAssumption DEF TravelInv, ShapeInv, LanesOK
  <2> QED
    BY <2>1, GreedyIsClosed
<1> QED
  BY <1>1, TravelAlways, PTL

-----------------------------------------------------------------------------
(***************************************************************************)
(* Cuts.                                                                   *)
(***************************************************************************)

LEMMA BeforeIsOrder ==
    ASSUME NEW x \in LogEntry, NEW y \in LogEntry, NEW z \in LogEntry
    PROVE  /\ ~Before(x, x)
           /\ Before(x, y) /\ Before(y, z) => Before(x, z)
           /\ x = y \/ Before(x, y) \/ Before(y, x)
<1>1. \A i \in {x, y, z} : /\ i.agent \in Nat /\ i.at \in Nat
                           /\ i.epoch \in Nat /\ i.seq \in Nat
  BY MergeAssumption DEF LogEntry
<1>2. ~Before(x, x)
  BY <1>1 DEF Before
<1>3. Before(x, y) /\ Before(y, z) => Before(x, z)
  BY <1>1 DEF Before
<1>4. ASSUME ~Before(x, y), ~Before(y, x)  PROVE x = y
  <2>1. x.at = y.at /\ x.agent = y.agent /\ x.epoch = y.epoch /\ x.seq = y.seq
    BY <1>1, <1>4 DEF Before
  <2> QED
    BY <2>1 DEF LogEntry
<1> QED
  BY <1>2, <1>3, <1>4

\* Of some entries there is a last.
LEMMA LastEntry ==
    ASSUME NEW E \in SUBSET LogEntry, IsFiniteSet(E), E # {}
    PROVE  \E x \in E : \A y \in E : ~Before(x, y)
<1> DEFINE HasLast(W) == \E x \in W : \A y \in W : ~Before(x, y)
           T == {n \in Nat : \A W \in SUBSET E : Cardinality(W) = n /\ W # {} => HasLast(W)}
<1>0. \A W \in SUBSET E : IsFiniteSet(W) /\ Cardinality(W) \in Nat
  BY FS_Subset, FS_CardinalityType
<1>1. 0 \in T
  BY <1>0, FS_EmptySet
<1>2. ASSUME NEW n \in Nat, n \in T  PROVE n + 1 \in T
  <2>1. ASSUME NEW W \in SUBSET E, Cardinality(W) = n + 1, W # {}  PROVE HasLast(W)
    <3>1. PICK w \in W : TRUE
      BY <2>1
    <3> DEFINE V == W \ {w}
    <3>2. V \in SUBSET E /\ Cardinality(V) = n
      <4>1. Cardinality(V) = Cardinality(W) - 1
        BY <1>0, <3>1, FS_RemoveElement
      <4> QED
        BY <2>1, <4>1
    <3>3. CASE V = {}
      <4>1. \A y \in W : y = w
        BY <3>3
      <4>2. ~Before(w, w)
        BY <3>1, BeforeIsOrder
      <4> QED
        BY <3>1, <4>1, <4>2
    <3>4. CASE V # {}
      <4>1. PICK x \in V : \A y \in V : ~Before(x, y)
        BY <1>2, <3>2, <3>4
      <4>2. CASE Before(x, w)
        <5>1. \A y \in W : ~Before(w, y)
          <6>1. ~Before(w, w)
            BY <3>1, BeforeIsOrder
          <6>2. \A y \in V : Before(w, y) => Before(x, y)
            BY <3>1, <4>2, BeforeIsOrder
          <6> QED
            BY <4>1, <6>1, <6>2
        <5> QED
          BY <3>1, <5>1
      <4>3. CASE ~Before(x, w)
        BY <4>1, <4>3
      <4> QED
        BY <4>2, <4>3
    <3> QED
      BY <3>3, <3>4
  <2> QED
    BY <2>1
<1>3. Cardinality(E) \in T
  <2> HIDE DEF T
  <2> QED
    BY <1>0, <1>1, <1>2, Induction
<1> QED
  BY <1>0, <1>3

\* The position that a cut gives a lane is that of an entry, and no entry of the
\* lane is of a later commit.
LEMMA CutIsNewest ==
    ASSUME TravelInv, NEW E \in SUBSET reader.log, NEW e \in E
    PROVE  /\ e.agent \in DOMAIN CutOf(E)
           /\ \E last \in E : /\ last.agent = e.agent
                              /\ CutOf(E)[e.agent] = <<last.epoch, last.seq>>
                              /\ \A d \in E : d.agent = e.agent => ~Behind(last, d)
<1> DEFINE a == e.agent
           Lane == {d \in E : d.agent = a}
           last == CHOOSE x \in E : x.agent = a /\ \A d \in E : d.agent = a => ~Before(x, d)
<1>1. E \in SUBSET LogEntry /\ E \subseteq Marked
  BY DEF TravelInv, ShapeInv, Knows, ReaderSet, Marked
<1>2. Lane \in SUBSET LogEntry /\ IsFiniteSet(Lane) /\ Lane # {}
  <2>1. IsFiniteSet(reader.log)
    BY DEF TravelInv, ShapeInv, Knows
  <2> QED
    BY <1>1, <2>1, FS_Subset
<1>3. \E x \in Lane : \A y \in Lane : ~Before(x, y)
  BY <1>2, LastEntry
<1>4. last \in E /\ last.agent = a /\ \A d \in E : d.agent = a => ~Before(last, d)
  BY <1>3
<1>5. a \in DOMAIN CutOf(E) /\ CutOf(E)[a] = <<last.epoch, last.seq>>
  BY DEF CutOf
<1> HIDE DEF last
<1>6. ASSUME NEW d \in E, d.agent = a, Behind(last, d)  PROVE FALSE
  <2>1. last.at <= d.at
    BY <1>1, <1>4, <1>6 DEF TravelInv, MarksOK
  <2>2. last.at \in Nat /\ d.at \in Nat
    BY <1>1, <1>4 DEF LogEntry
  <2>3. Before(last, d)
    BY <1>4, <1>6, <2>1, <2>2 DEF Before, Behind
  <2> QED
    BY <1>4, <1>6, <2>3
<1> QED
  BY <1>4, <1>5, <1>6

\* A cut at any place of the log names the newest commit of each lane among its
\* entries, though the lanes' clocks are not synchronised.
THEOREM HeadsAreNewest == TravelSpec => []HeadIsNewest
<1>1. TravelInv => HeadIsNewest
  <2> SUFFICES ASSUME TravelInv, NEW x \in reader.log, NEW e \in UpTo(x)
               PROVE  LET cut == CutOf(UpTo(x))
                      IN  \/ e.epoch < cut[e.agent][1]
                          \/ e.epoch = cut[e.agent][1] /\ e.seq <= cut[e.agent][2]
    BY DEF HeadIsNewest
  <2>1. UpTo(x) \in SUBSET reader.log /\ reader.log \subseteq LogEntry
    BY DEF UpTo, TravelInv, ShapeInv, Knows, ReaderSet
  <2>2. PICK last \in UpTo(x) : /\ CutOf(UpTo(x))[e.agent] = <<last.epoch, last.seq>>
                                /\ ~Behind(last, e)
    BY <2>1, CutIsNewest
  <2>3. last.epoch \in Nat /\ last.seq \in Nat /\ e.epoch \in Nat /\ e.seq \in Nat
    BY <2>1 DEF LogEntry
  <2> QED
    BY <2>2, <2>3 DEF Behind
<1> QED
  BY <1>1, TravelAlways, PTL

-----------------------------------------------------------------------------
(***************************************************************************)
(* What is replayed of a lane.                                             *)
(***************************************************************************)

SegmentsFrom(e, m, n) == {Segment(e, s) : s \in (m + 1)..(m + n)}

\* Segments replayed on what a commit left give what the last of them left.
LEMMA SegmentsReplay ==
    ASSUME BodiesOK, NEW a \in Agent, NEW e \in Nat, NEW m \in Nat, NEW n \in Nat,
           NEW S, LaneReplay(S) = past[a][<<e, m>>],
           SegmentsFrom(e, m, n) \subseteq DOMAIN lanes[a]
    PROVE  LaneReplay(S \cup Contents(a, SegmentsFrom(e, m, n))) = past[a][<<e, m + n>>]
<1> DEFINE U(i) == S \cup Contents(a, SegmentsFrom(e, m, i))
           T == {i \in Nat : i <= n => LaneReplay(U(i)) = past[a][<<e, m + i>>]}
<1>1. 0 \in T
  <2>1. SegmentsFrom(e, m, 0) = {}
    BY DEF SegmentsFrom
  <2>2. Contents(a, {}) = {}
    BY DEF Contents
  <2>3. U(0) = S /\ m + 0 = m
    BY <2>1, <2>2
  <2> QED
    BY <2>3
<1>2. ASSUME NEW i \in Nat, i \in T  PROVE i + 1 \in T
  <2>0. SUFFICES ASSUME i + 1 <= n  PROVE LaneReplay(U(i + 1)) = past[a][<<e, m + (i + 1)>>]
    OBVIOUS
  <2> DEFINE k == Segment(e, m + (i + 1))
  <2>1. (m + 1)..(m + (i + 1)) = ((m + 1)..(m + i)) \cup {m + (i + 1)}
        /\ m + (i + 1) \in (m + 1)..(m + n)
    BY <2>0
  <2>2. SegmentsFrom(e, m, i + 1) = SegmentsFrom(e, m, i) \cup {k} /\ k \in DOMAIN lanes[a]
    BY <2>1 DEF SegmentsFrom
  <2>3. k.level = 0 /\ k.epoch = e /\ k.hi = m + (i + 1) /\ k.hi # 0 /\ k.hi - 1 = m + i
    BY DEF Segment
  <2> HIDE DEF k
  <2>4. LaneReplay(past[a][<<e, m + i>>] \cup lanes[a][k].body) = past[a][<<e, m + (i + 1)>>]
    <3>1. BodyOK(a, k)
      BY <2>2 DEF BodiesOK
    <3>2. Preceding(a, k) = past[a][<<e, m + i>>]
      BY <2>3 DEF Preceding
    <3> QED
      BY <2>3, <3>1, <3>2 DEF BodyOK
  <2>5. U(i + 1) = U(i) \cup lanes[a][k].body
    <3>1. Contents(a, SegmentsFrom(e, m, i) \cup {k})
             = Contents(a, SegmentsFrom(e, m, i)) \cup lanes[a][k].body
      BY DEF Contents
    <3> QED
      BY <2>2, <3>1
  <2>6. LaneReplay(U(i)) = past[a][<<e, m + i>>]
    BY <1>2, <2>0
  <2>7. LaneReplay(U(i) \cup lanes[a][k].body)
           = LaneReplay(LaneReplay(U(i)) \cup lanes[a][k].body)
    BY ReplayTwice
  <2> QED
    BY <2>4, <2>5, <2>6, <2>7
<1>3. n \in T
  <2> HIDE DEF T
  <2> QED
    BY <1>1, <1>2, Induction
<1> QED
  BY <1>3

ChainOf(B) == {k \in B : InChain(B, k)}

\* The chain of some keys of an epoch: its head, and the segments that follow.
LEMMA ChainShape ==
    ASSUME NEW B \in SUBSET Key, NEW e \in Nat, \A k \in B : k.epoch = e,
           NEW b \in Nat, \A k \in B : k.hi <= b, ChainOf(B) # {}
    PROVE  \E w \in B, n \in Nat :
              /\ IsHead(B, w) /\ w.hi + n <= b
              /\ SegmentsFrom(e, w.hi, n) \subseteq B
              /\ Segment(e, (w.hi + n) + 1) \notin B
              /\ ChainOf(B) = {w} \cup SegmentsFrom(e, w.hi, n)
<1> DEFINE chain == {k \in B : InChain(B, k)}
<1> USE DEF ChainOf
<1>0. \A k \in B : k.hi \in Nat /\ k.level \in {0, 1} /\ (k.level = 0 => k = Segment(e, k.hi))
  BY KeyParts
<1>1. PICK w \in B : IsHead(B, w)
  BY DEF InChain, Follows
<1>2. ASSUME NEW k \in B, IsHead(B, k)  PROVE k = w
  <2>1. k.hi = w.hi /\ k.level = w.level
    BY <1>0, <1>1, <1>2 DEF IsHead
  <2> QED
    BY <2>1 DEF Key
<1> DEFINE S == {k.hi : k \in chain}
<1>3. S \in SUBSET Nat /\ w.hi \in S /\ \A x \in S : x <= b
  BY <1>0, <1>1 DEF InChain
<1>4. PICK h \in S : \A x \in S : x <= h
  <2> HIDE DEF S
  <2> QED
    BY <1>3, Greatest
<1>5. PICK top \in chain : top.hi = h
  BY <1>4
<1>6. h \in Nat /\ w.hi \in Nat /\ w.hi <= h /\ h <= b /\ \A k \in chain : k.hi <= h
  BY <1>0, <1>3, <1>4
<1>7. \A k \in B : Follows(B, k) <=> /\ k.level = 0 /\ w.hi < k.hi
                                     /\ \A s \in (w.hi + 1)..k.hi : Segment(e, s) \in B
  BY <1>1, <1>2 DEF Follows
<1>8. \A s \in (w.hi + 1)..h : Segment(e, s) \in B
  <2>1. CASE top = w
    BY <1>5, <1>6, <2>1
  <2>2. CASE top # w
    BY <1>2, <1>5, <1>7, <2>2 DEF InChain
  <2> QED
    BY <2>1, <2>2
<1>9. PICK n \in Nat : w.hi + n = h
  <2>1. h - w.hi \in Nat /\ w.hi + (h - w.hi) = h
    BY <1>6
  <2> QED
    BY <2>1
<1>10. SegmentsFrom(e, w.hi, n) \subseteq B
  BY <1>8, <1>9 DEF SegmentsFrom
<1>11. ASSUME NEW k \in chain  PROVE k \in {w} \cup SegmentsFrom(e, w.hi, n)
  <2>1. CASE IsHead(B, k)
    BY <1>2, <2>1
  <2>2. CASE Follows(B, k)
    <3>1. k = Segment(e, k.hi) /\ k.hi \in (w.hi + 1)..(w.hi + n)
      BY <1>0, <1>6, <1>7, <1>9, <2>2
    <3> QED
      BY <3>1 DEF SegmentsFrom
  <2> QED
    BY <2>1, <2>2 DEF InChain
<1>12. ASSUME NEW s \in (w.hi + 1)..(w.hi + n)  PROVE Segment(e, s) \in chain
  <2>1. Segment(e, s) \in B /\ Segment(e, s).level = 0 /\ Segment(e, s).hi = s
    BY <1>8, <1>9 DEF Segment
  <2>2. w.hi < s /\ (w.hi + 1)..s \subseteq (w.hi + 1)..h
    BY <1>6, <1>9
  <2>3. Follows(B, Segment(e, s))
    BY <1>7, <1>8, <2>1, <2>2
  <2> QED
    BY <2>1, <2>3 DEF InChain
<1>13. w \in chain
  BY <1>1 DEF InChain
<1>14. chain = {w} \cup SegmentsFrom(e, w.hi, n)
  BY <1>11, <1>12, <1>13 DEF SegmentsFrom
<1>15. Segment(e, h + 1) \notin B
  <2> DEFINE k == Segment(e, h + 1)
  <2>1. SUFFICES ASSUME k \in B  PROVE FALSE
    OBVIOUS
  <2>2. k.level = 0 /\ k.hi = h + 1
    BY DEF Segment
  <2>3. w.hi < h + 1 /\ \A s \in (w.hi + 1)..(h + 1) : s = h + 1 \/ s \in (w.hi + 1)..h
    BY <1>6
  <2>4. Follows(B, k)
    BY <1>7, <1>8, <2>1, <2>2, <2>3
  <2>5. k \in chain /\ ~(k.hi <= h)
    BY <1>6, <2>1, <2>2, <2>4 DEF InChain
  <2> QED
    BY <1>6, <2>5
<1> QED
  BY <1>1, <1>6, <1>9, <1>10, <1>14, <1>15

\* Such a chain replays what the commit at its end left.
LEMMA ChainReplay ==
    ASSUME BodiesOK, NEW a \in Agent, NEW B \in SUBSET Key, B \subseteq DOMAIN lanes[a],
           NEW e \in Nat, \A k \in B : k.epoch = e,
           NEW w \in B, IsHead(B, w), NEW n \in Nat, SegmentsFrom(e, w.hi, n) \subseteq B
    PROVE  LaneReplay(Contents(a, {w} \cup SegmentsFrom(e, w.hi, n)))
              = past[a][<<e, w.hi + n>>]
<1>1. w.hi \in Nat /\ w.epoch = e /\ (w.level = 1 \/ w.hi = 0)
  BY KeyParts DEF IsHead, Heads
<1>2. LaneReplay(lanes[a][w].body) = past[a][<<e, w.hi>>]
  <2>1. BodyOK(a, w)
    BY DEF BodiesOK
  <2>2. Preceding(a, w) = {} /\ {} \cup lanes[a][w].body = lanes[a][w].body
    BY <1>1 DEF Preceding
  <2> QED
    BY <1>1, <2>1, <2>2 DEF BodyOK
<1>3. Contents(a, {w} \cup SegmentsFrom(e, w.hi, n))
         = lanes[a][w].body \cup Contents(a, SegmentsFrom(e, w.hi, n))
  BY DEF Contents
<1>4. LaneReplay(lanes[a][w].body \cup Contents(a, SegmentsFrom(e, w.hi, n)))
         = past[a][<<e, w.hi + n>>]
  BY <1>1, <1>2, SegmentsReplay
<1> QED
  BY <1>3, <1>4

\* Time travel never shows the future, nor what never was: whatever gc() has left
\* of a lane, what is replayed up to a commit is the lane as one of the commits
\* up to there left it, or nothing.
THEOREM PastStaysReal == TravelSpec => []PastIsReal
<1>1. TravelInv => PastIsReal
  <2> SUFFICES ASSUME TravelInv, NEW a \in Agent, NEW p \in DOMAIN past[a],
                      ChainAt(a, p) # {}
               PROVE  \E s \in 0..p[2] :
                         LaneReplay(Contents(a, ChainAt(a, p))) = past[a][<<p[1], s>>]
    BY DEF PastIsReal
  <2>1. PICK e \in Nat, until \in Nat : e = p[1] /\ until = p[2]
    BY DEF TravelInv, PastOK, CommitsOK
  <2> DEFINE K == {k \in DOMAIN lanes[a] : k.epoch = e}
             B == {k \in K : k.hi <= until}
             chain == ChainAt(a, p)
  <2>2. K \in SUBSET Key /\ \A k \in K : k.epoch = e
    BY DEF TravelInv, ShapeInv, LanesOK
  <2>3. chain = ChainOf(B)
    <3>1. chain = BuildChain(K, until)
      BY <2>1 DEF ChainAt
    <3> HIDE DEF K, chain
    <3> QED
      BY <2>2, <3>1, GreedyIsClosed DEF ChainOf
  <2>4. /\ B \in SUBSET Key /\ B \subseteq DOMAIN lanes[a] /\ chain # {}
        /\ (\A k \in B : k.epoch = e) /\ (\A k \in B : k.hi <= until)
    BY <2>2
  <2> HIDE DEF K, B, chain
  <2>5. PICK w \in B, n \in Nat :
           /\ IsHead(B, w) /\ w.hi + n <= until
           /\ SegmentsFrom(e, w.hi, n) \subseteq B
           /\ chain = {w} \cup SegmentsFrom(e, w.hi, n)
    BY <2>3, <2>4, ChainShape
  <2>6. w.hi + n \in 0..until
    BY <2>4, <2>5, KeyParts
  <2>7. LaneReplay(Contents(a, chain)) = past[a][<<e, w.hi + n>>]
    BY <2>4, <2>5, ChainReplay DEF TravelInv
  <2> QED
    BY <2>1, <2>6, <2>7 DEF chain
<1> QED
  BY <1>1, TravelAlways, PTL

-----------------------------------------------------------------------------
(***************************************************************************)
(* Checkpoints: what joins the commits of a lane, what is left of it in    *)
(* the bucket, and what a reader has made of it.                           *)
(***************************************************************************)

\* Commits in their order.
NotAfter(p, q) == p[1] < q[1] \/ (p[1] = q[1] /\ p[2] <= q[2])

IsNewest(a, p) == p \in DOMAIN past[a] /\ \A q \in DOMAIN past[a] : NotAfter(q, p)

\* A later commit has all that an earlier one had, but for what was forgotten.
GrowthOK(a) ==
    \A p, q \in DOMAIN past[a] :
        NotAfter(p, q) => LaneReplay(past[a][p] \cup past[a][q]) = past[a][q]

\* A Space has what the last commit of its lane left, through restarts too.
OwnOK(a) ==
    /\ epoch[a] > 0 /\ \A p \in DOMAIN past[a] : p[1] > 0
    /\ IF DOMAIN past[a] = {} THEN own[a] = {}
       ELSE \E p : IsNewest(a, p) /\ own[a] = past[a][p]

\* Of an epoch that gc() has not been through every segment is there; of the
\* newest one, every segment or an L1 object over it.
CoverOK(a) ==
    \A p \in DOMAIN past[a] :
        \/ Segment(p[1], p[2]) \in DOMAIN lanes[a]
        \/ /\ <<a, p[1]>> \in collected
           /\ \/ \E q \in DOMAIN past[a] : q[1] > p[1]
              \/ \E k \in DOMAIN lanes[a] : k.level = 1 /\ k.epoch = p[1] /\ p[2] <= k.hi

LaneStory == \A a \in Agent : GrowthOK(a) /\ OwnOK(a) /\ CoverOK(a)

\* What a reader has of one lane.
OnLane(rd, b) == {e \in rd.log : e.agent = b}
Told(rd, b) == {r \in RecordSet : <<r, b>> \in rd.heard}

HasReadNothing(rd, b) == OnLane(rd, b) = {} /\ Told(rd, b) = {}

\* It has read the lane up to commit p: that is its last entry, and the records
\* it was told, in pieces and in any order, replay to what that commit left.
HasRead(rd, b, p) ==
    /\ p \in DOMAIN past[b]
    /\ \E x \in OnLane(rd, b) : p = <<x.epoch, x.seq>>
    /\ \A x \in OnLane(rd, b) : NotAfter(<<x.epoch, x.seq>>, p)
    /\ LaneReplay(Told(rd, b)) = past[b][p]

\* The objects of a peer's lane that it has applied span the epoch up to there.
PeerOK(rd, b) ==
    IF rd.peerEpoch[b] = 0 THEN HasReadNothing(rd, b)
    ELSE \E s \in Nat : /\ HasRead(rd, b, <<rd.peerEpoch[b], s>>)
                        /\ UNION {Span(k) : k \in rd.applied[b]} = 0..s

\* Of its own lane it knows all.
OwnLaneOK(rd) ==
    IF DOMAIN past[Me] = {} THEN HasReadNothing(rd, Me)
    ELSE \E p : IsNewest(Me, p) /\ HasRead(rd, Me, p)

ReaderOK(rd) == OwnLaneOK(rd) /\ \A b \in Agent \ {Me} : PeerOK(rd, b)

\* The records that a pair of a cut and a state stands for.
SeenAt(cut, seen, H) ==
    /\ IsMerge(seen, H)
    /\ DOMAIN cut \subseteq Agent
    /\ \A h \in H : h[2] \in DOMAIN cut
    /\ \A a \in DOMAIN cut :
          /\ cut[a] \in DOMAIN past[a]
          /\ LaneReplay({r \in RecordSet : <<r, a>> \in H}) = past[a][cut[a]]

TagsOK ==
    \A n \in DOMAIN tags :
        /\ tags[n].seen \in StateSet
        /\ \E H \in SUBSET HeardSet : SeenAt(tags[n].cut, tags[n].seen, H)

StoryInv == TravelInv /\ LaneStory /\ ReaderOK(reader) /\ TagsOK

-----------------------------------------------------------------------------
(***************************************************************************)
(* The chain of a lane's newest epoch, which is what a reader reads.       *)
(***************************************************************************)

LEMMA ReplayOfBoth ==
    ASSUME NEW A, NEW B
    PROVE  LaneReplay(LaneReplay(A) \cup LaneReplay(B)) = LaneReplay(A \cup B)
<1>1. LaneReplay(LaneReplay(A) \cup LaneReplay(B)) = LaneReplay(A \cup LaneReplay(B))
  BY ReplayTwice
<1>2. LaneReplay(LaneReplay(B) \cup A) = LaneReplay(B \cup A)
  BY ReplayTwice
<1>3. LaneReplay(B) \cup A = A \cup LaneReplay(B) /\ B \cup A = A \cup B
  OBVIOUS
<1> QED
  BY <1>1, <1>2, <1>3

\* Where every position up to b has its segment or an L1 object over it, there is
\* a chain, and it ends at b.
LEMMA ChainReaches ==
    ASSUME NEW B \in SUBSET Key, NEW e \in Nat, \A k \in B : k.epoch = e,
           NEW b \in Nat, \A k \in B : k.hi <= b,
           \A s \in 0..b : Segment(e, s) \in B \/ \E k \in B : k.level = 1 /\ s <= k.hi
    PROVE  \E w \in B, n \in Nat :
              /\ IsHead(B, w) /\ w.hi + n = b
              /\ SegmentsFrom(e, w.hi, n) \subseteq B
              /\ ChainOf(B) = {w} \cup SegmentsFrom(e, w.hi, n)
<1>1. Heads(B, e) \in SUBSET Key /\ \A k \in Heads(B, e) : k \in B /\ k.hi <= b
  BY DEF Heads
<1>2. Heads(B, e) # {}
  <2>1. Segment(e, 0) \in B \/ \E k \in B : k.level = 1
    <3>1. 0 \in 0..b
      OBVIOUS
    <3> QED
      BY <3>1
  <2>2. Segment(e, 0) \in B => Segment(e, 0) \in Heads(B, e)
    BY DEF Heads, Segment
  <2> QED
    BY <2>1, <2>2 DEF Heads
<1>3. \E k \in B : IsHead(B, k)
  <2> DEFINE v == Widest(Heads(B, e))
  <2>1. v \in Heads(B, e)
        /\ \A j \in Heads(B, e) : j.hi < v.hi \/ (j.hi = v.hi /\ j.level <= v.level)
    BY <1>1, <1>2, WidestIsWidest
  <2> HIDE DEF v
  <2>2. v \in B /\ v.epoch = e
    BY <1>1, <2>1
  <2> QED
    BY <2>1, <2>2 DEF IsHead
<1>4. ChainOf(B) # {}
  BY <1>3 DEF ChainOf, InChain
<1>5. PICK w \in B, n \in Nat :
         /\ IsHead(B, w) /\ w.hi + n <= b
         /\ SegmentsFrom(e, w.hi, n) \subseteq B
         /\ Segment(e, (w.hi + n) + 1) \notin B
         /\ ChainOf(B) = {w} \cup SegmentsFrom(e, w.hi, n)
  BY <1>4, ChainShape
<1>6. ASSUME w.hi + n # b  PROVE FALSE
  <2>1. w.hi \in Nat /\ w.epoch = e /\ \A k \in B : k.hi \in Nat
    BY KeyParts
  <2>2. (w.hi + n) + 1 \in 0..b
    BY <1>5, <1>6, <2>1
  <2>3. PICK k \in B : k.level = 1 /\ (w.hi + n) + 1 <= k.hi
    BY <1>5, <2>2
  <2>4. k \in Heads(B, e)
    BY <2>3 DEF Heads
  <2>5. k.hi < w.hi \/ k.hi = w.hi
    BY <1>5, <2>1, <2>4 DEF IsHead
  <2> QED
    BY <2>1, <2>3, <2>5
<1> QED
  BY <1>5, <1>6

\* The objects of a lane are at commits that there were.
LEMMA ObjectsAreCommits ==
    ASSUME TravelInv, NEW a \in Agent, NEW k \in DOMAIN lanes[a]
    PROVE  k \in Key /\ <<k.epoch, k.hi>> \in DOMAIN past[a]
<1>1. [agent |-> a, at |-> lanes[a][k].at, epoch |-> k.epoch, seq |-> k.hi] \in Marked
  BY ObjectIsMarked DEF Marked
<1> QED
  BY <1>1 DEF TravelInv, ShapeInv, LanesOK, MarksOK

Whole(a, p, w, n) ==
    LET chain == {w} \cup SegmentsFrom(p[1], w.hi, n)
    IN  /\ w \in DOMAIN lanes[a] /\ w.epoch = p[1] /\ (w.level = 1 \/ w.hi = 0)
        /\ w.hi + n = p[2]
        /\ SelectChain(DOMAIN lanes[a], epoch[a] + 1) = chain
        /\ chain \subseteq DOMAIN lanes[a]
        /\ LaneReplay(Contents(a, chain)) = past[a][p]

\* A LIST of a lane finds a chain that ends at the newest commit, and replays to
\* what that commit left, whatever gc() has been through.
LEMMA NewestIsListed ==
    ASSUME TravelInv, NEW a \in Agent, CoverOK(a), NEW p, IsNewest(a, p)
    PROVE  \E w \in Key, n \in Nat : Whole(a, p, w, n)
<1>0. p \in DOMAIN past[a] /\ p \in Nat \X Nat /\ CommitsOK(a)
  BY DEF TravelInv, PastOK, CommitsOK, IsNewest
<1>1. PICK e \in Nat, b \in Nat : p = <<e, b>> /\ p[1] = e /\ p[2] = b
  BY <1>0
<1> DEFINE K == DOMAIN lanes[a]
           B == {k \in K : k.epoch = e}
           chain == SelectChain(K, epoch[a] + 1)
<1>2. \A k \in K : k \in Key /\ k.epoch \in Nat /\ k.hi \in Nat
                   /\ (k.epoch < e \/ (k.epoch = e /\ k.hi <= b))
  BY <1>1, ObjectsAreCommits, KeyParts DEF IsNewest, NotAfter
<1>3. e < epoch[a] + 1 /\ epoch[a] \in Nat
  <2>1. epoch[a] \in Nat
    BY DEF TravelInv, ShapeInv, LanesOK
  <2>2. e < epoch[a] \/ e = epoch[a]
    BY <1>0, <1>1 DEF CommitsOK
  <2> QED
    BY <2>1, <2>2
<1>4. \A s \in 0..b : Segment(e, s) \in B \/ \E k \in B : k.level = 1 /\ s <= k.hi
  <2>1. ASSUME NEW s \in 0..b
        PROVE  Segment(e, s) \in B \/ \E k \in B : k.level = 1 /\ s <= k.hi
    <3>1. <<e, s>> \in DOMAIN past[a]
      BY <1>1 DEF TravelInv, PastOK, CommitsOK, IsNewest
    <3>2. \A q \in DOMAIN past[a] : ~(q[1] > e)
      <4>1. \A q \in DOMAIN past[a] : q[1] \in Nat
        BY DEF TravelInv, PastOK, CommitsOK
      <4> QED
        BY <1>1, <4>1 DEF IsNewest, NotAfter
    <3>3. Segment(e, s) \in K \/ \E k \in K : k.level = 1 /\ k.epoch = e /\ s <= k.hi
      BY <3>1, <3>2 DEF CoverOK
    <3> QED
      BY <3>3 DEF Segment
  <2> QED
    BY <2>1
<1>5. B \in SUBSET Key /\ B \subseteq K /\ (\A k \in B : k.epoch = e) /\ (\A k \in B : k.hi <= b)
  BY <1>2
<1>6. chain = ChainOf(B)
  <2>1. Heads(B, e) = Heads(K, e)
    BY DEF Heads
  <2>2. \A k \in B : IsHead(B, k) <=> IsHead(K, k)
    BY <2>1 DEF IsHead
  <2>3. \A k \in B : Follows(B, k) <=> Follows(K, k)
    BY <2>2 DEF Follows, Segment
  <2>4. \A k \in B : InChain(B, k) <=> InChain(K, k)
    BY <2>2, <2>3 DEF InChain
  <2>5. ASSUME NEW k \in chain  PROVE k \in B
    <3>1. \E j \in B : j \in Heads(K, e)
      <4>1. 0 \in 0..b
        OBVIOUS
      <4>2. Segment(e, 0) \in B \/ \E j \in B : j.level = 1
        BY <1>4, <4>1
      <4> QED
        BY <4>2 DEF Heads, Segment
    <3>2. ~(k.epoch < e)
      BY <1>3, <3>1 DEF SelectChain
    <3> QED
      BY <1>2, <3>2 DEF SelectChain
  <2>6. ASSUME NEW k \in B, InChain(K, k)  PROVE k \in chain
    <3>1. k.epoch < epoch[a] + 1 /\ \A j \in K : ~(k.epoch < j.epoch)
      BY <1>2, <1>3
    <3> QED
      BY <2>6, <3>1 DEF SelectChain
  <2>7. \A k \in chain : InChain(K, k)
    BY DEF SelectChain
  <2> HIDE DEF B, K, chain
  <2> QED
    BY <2>4, <2>5, <2>6, <2>7 DEF ChainOf
<1> HIDE DEF K, B, chain
<1>7. PICK w \in B, n \in Nat : /\ IsHead(B, w) /\ w.hi + n = b
                                /\ SegmentsFrom(e, w.hi, n) \subseteq B
                                /\ ChainOf(B) = {w} \cup SegmentsFrom(e, w.hi, n)
  BY <1>4, <1>5, ChainReaches
<1>8. w \in Key /\ (w.level = 1 \/ w.hi = 0)
  BY <1>5, <1>7 DEF IsHead, Heads
<1>9. LaneReplay(Contents(a, {w} \cup SegmentsFrom(e, w.hi, n))) = past[a][p]
  BY <1>1, <1>5, <1>7, ChainReplay DEF TravelInv, K
<1> QED
  BY <1>1, <1>5, <1>6, <1>7, <1>8, <1>9 DEF Whole, K, chain

LEMMA NothingIsListed ==
    ASSUME TravelInv, NEW a \in Agent, DOMAIN past[a] = {}
    PROVE  DOMAIN lanes[a] = {} /\ SelectChain(DOMAIN lanes[a], epoch[a] + 1) = {}
BY ObjectsAreCommits DEF SelectChain

-----------------------------------------------------------------------------
(***************************************************************************)
(* What reading makes of a reader.                                         *)
(***************************************************************************)

LEMMA NotAfterIsOrder ==
    ASSUME NEW p \in Nat \X Nat, NEW q \in Nat \X Nat, NEW r \in Nat \X Nat
    PROVE  /\ NotAfter(p, p)
           /\ NotAfter(p, q) /\ NotAfter(q, r) => NotAfter(p, r)
           /\ NotAfter(p, q) /\ NotAfter(q, p) => p = q
           /\ NotAfter(p, q) \/ NotAfter(q, p)
<1>1. p[1] \in Nat /\ p[2] \in Nat /\ q[1] \in Nat /\ q[2] \in Nat /\ r[1] \in Nat /\ r[2] \in Nat
      /\ p = <<p[1], p[2]>> /\ q = <<q[1], q[2]>>
  OBVIOUS
<1>2. NotAfter(p, q) /\ NotAfter(q, p) => p[1] = q[1] /\ p[2] = q[2]
  BY <1>1 DEF NotAfter
<1> QED
  BY <1>1, <1>2 DEF NotAfter

LEMMA SpansOfWhole ==
    ASSUME NEW w \in Key, NEW n \in Nat, NEW e \in Nat, w.level = 1 \/ w.hi = 0
    PROVE  UNION {Span(k) : k \in {w} \cup SegmentsFrom(e, w.hi, n)} = 0..(w.hi + n)
<1>1. w.hi \in Nat /\ Span(w) = 0..w.hi
  BY KeyParts DEF Span
<1>2. \A s : Span(Segment(e, s)) = s..s
  BY DEF Span, Segment
<1>3. ASSUME NEW i \in 0..(w.hi + n)
      PROVE  \E k \in {w} \cup SegmentsFrom(e, w.hi, n) : i \in Span(k)
  <2>1. CASE i <= w.hi
    BY <1>1, <2>1
  <2>2. CASE ~(i <= w.hi)
    <3>1. i \in (w.hi + 1)..(w.hi + n)
      BY <1>1, <2>2
    <3>2. Segment(e, i) \in SegmentsFrom(e, w.hi, n) /\ i \in Span(Segment(e, i))
      BY <1>2, <3>1 DEF SegmentsFrom
    <3> QED
      BY <3>2
  <2> QED
    BY <2>1, <2>2
<1>4. ASSUME NEW k \in {w} \cup SegmentsFrom(e, w.hi, n), NEW i \in Span(k)
      PROVE  i \in 0..(w.hi + n)
  <2>1. CASE k = w
    BY <1>1, <2>1
  <2>2. CASE k # w
    <3>1. PICK s \in (w.hi + 1)..(w.hi + n) : k = Segment(e, s)
      BY <2>2 DEF SegmentsFrom
    <3> QED
      BY <1>1, <1>2, <3>1
  <2> QED
    BY <2>1, <2>2
<1> QED
  BY <1>3, <1>4

LEMMA LastOfSegments ==
    ASSUME NEW e, NEW m \in Nat, NEW n \in Nat \ {0}
    PROVE  \E k \in SegmentsFrom(e, m, n) : k.epoch = e /\ k.hi = m + n
<1> DEFINE k == Segment(e, m + n)
<1>1. m + n \in (m + 1)..(m + n)
  OBVIOUS
<1>2. k \in SegmentsFrom(e, m, n)
  BY <1>1 DEF SegmentsFrom
<1>3. k.epoch = e /\ k.hi = m + n
  BY DEF Segment
<1> QED
  BY <1>2, <1>3

LEMMA LastOfWhole ==
    ASSUME NEW w \in Key, NEW n \in Nat, NEW e, w.epoch = e
    PROVE  \E k \in {w} \cup SegmentsFrom(e, w.hi, n) : k.epoch = e /\ k.hi = w.hi + n
<1>1. w.hi \in Nat
  BY KeyParts
<1>2. CASE n = 0
  BY <1>1, <1>2
<1>3. CASE n # 0
  BY <1>1, <1>3, LastOfSegments
<1> QED
  BY <1>2, <1>3

\* A refresh adds to what is known of a lane what it wants of that lane.
LEMMA RefreshedOnLane ==
    ASSUME LanesOK, NEW rd, Knows(rd), NEW b \in Agent
    PROVE  LET rd2 == Refreshed(rd)
           IN  IF b # Me /\ ListedChain(b) # {}
               THEN /\ OnLane(rd2, b) = OnLane(rd, b) \cup Entries(b, Wanted(rd, b))
                    /\ Told(rd2, b) = Told(rd, b) \cup Contents(b, Wanted(rd, b))
                    /\ rd2.peerEpoch[b] = ListedEpoch(b)
                    /\ rd2.applied[b] = Applied(rd, b) \cup ListedChain(b)
               ELSE /\ OnLane(rd2, b) = OnLane(rd, b) /\ Told(rd2, b) = Told(rd, b)
                    /\ rd2.peerEpoch[b] = rd.peerEpoch[b] /\ rd2.applied[b] = rd.applied[b]
<1> DEFINE peers == {a \in Agent \ {Me} : ListedChain(a) # {}}
           W(a) == Wanted(rd, a)
           H == UNION {Contents(a, W(a)) \X {a} : a \in peers}
           L == UNION {Entries(a, W(a)) : a \in peers}
           E == [a \in Agent |-> IF a \in peers THEN ListedEpoch(a) ELSE rd.peerEpoch[a]]
           A == [a \in Agent |-> IF a \in peers THEN Applied(rd, a) \cup ListedChain(a)
                                 ELSE rd.applied[a]]
           rd2 == Refreshed(rd)
<1>1. \A a \in Agent : Contents(a, W(a)) \subseteq RecordSet
  <2>1. \A a \in Agent : W(a) \in SUBSET DOMAIN lanes[a]
    BY ListedIsThere DEF Wanted
  <2> QED
    BY <2>1, ContentsOK
<1>2. rd2 = [rd EXCEPT !.peerEpoch = E, !.applied = A, !.log = @ \cup L,
                       !.state = ApplyAll(@, H), !.heard = @ \cup H]
  BY DEF Refreshed
<1>3. \A a \in Agent : \A x \in Entries(a, W(a)) : x.agent = a
  BY DEF Entries
<1>4. L = UNION {Entries(a, W(a)) : a \in peers} /\ H = UNION {Contents(a, W(a)) \X {a} : a \in peers}
  OBVIOUS
<1> HIDE DEF H, L, rd2, W
<1>5. rd2.peerEpoch = E /\ rd2.applied = A /\ rd2.log = rd.log \cup L /\ rd2.heard = rd.heard \cup H
  BY <1>2 DEF Knows, ReaderSet
<1>6. {x \in L : x.agent = b} = IF b \in peers THEN Entries(b, W(b)) ELSE {}
  BY <1>3, <1>4
<1>7. \A r : <<r, b>> \in H <=> b \in peers /\ r \in Contents(b, W(b))
  BY <1>4
<1>8. OnLane(rd2, b) = OnLane(rd, b) \cup IF b \in peers THEN Entries(b, W(b)) ELSE {}
  BY <1>5, <1>6 DEF OnLane
<1>9. Told(rd2, b) = Told(rd, b) \cup IF b \in peers THEN Contents(b, W(b)) ELSE {}
  BY <1>1, <1>5, <1>7 DEF Told
<1> QED
  BY <1>5, <1>8, <1>9 DEF rd2, W

\* Who reads the whole of the newest epoch knows what its last commit left,
\* whatever of the lane had been read before.
LEMMA ReadingTheWhole ==
    ASSUME NEW a \in Agent, GrowthOK(a), NEW p, IsNewest(a, p), NEW C,
           LaneReplay(C) = past[a][p], NEW rd,
           HasReadNothing(rd, a) \/ \E q : HasRead(rd, a, q)
    PROVE  LaneReplay(Told(rd, a) \cup C) = past[a][p]
<1>1. CASE HasReadNothing(rd, a)
  <2>1. Told(rd, a) \cup C = C
    BY <1>1 DEF HasReadNothing
  <2> QED
    BY <2>1
<1>2. CASE \E q : HasRead(rd, a, q)
  <2>1. PICK q \in DOMAIN past[a] : LaneReplay(Told(rd, a)) = past[a][q]
    BY <1>2 DEF HasRead
  <2>2. LaneReplay(past[a][q] \cup past[a][p]) = past[a][p]
    BY <2>1 DEF GrowthOK, IsNewest
  <2> QED
    BY <2>1, <2>2, ReplayOfBoth
<1> QED
  BY <1>1, <1>2

\* What a refresh wants of a lane: the segments behind the place that the reader
\* is at, or the whole chain.
LEMMA WhatIsWanted ==
    ASSUME NEW b \in Agent, NEW e \in Nat, NEW w \in Key, NEW n \in Nat,
           w.level = 1 \/ w.hi = 0, w.epoch = e,
           ListedChain(b) = {w} \cup SegmentsFrom(e, w.hi, n), NEW rd
    PROVE  /\ ListedEpoch(b) = e
           /\ Applied(rd, b) = {} => Wanted(rd, b) = ListedChain(b)
           /\ \A s \in Nat :
                 UNION {Span(k) : k \in Applied(rd, b)} = 0..s =>
                    IF w.hi <= s
                    THEN \A i \in Nat : s + i = w.hi + n => Wanted(rd, b) = SegmentsFrom(e, s, i)
                    ELSE Wanted(rd, b) = ListedChain(b)
<1> DEFINE chain == {w} \cup SegmentsFrom(e, w.hi, n)
           spans == UNION {Span(k) : k \in Applied(rd, b)}
<1>1. w.hi \in Nat /\ Span(w) = 0..w.hi
  BY KeyParts DEF Span
<1>2. \A s : Span(Segment(e, s)) = s..s /\ Segment(e, s).epoch = e
  BY DEF Span, Segment
<1>3. ListedEpoch(b) = e
  BY <1>2 DEF ListedEpoch, SegmentsFrom
<1>4. \A k \in chain : k \in Wanted(rd, b) <=> k \notin Applied(rd, b) /\ ~(Span(k) \subseteq spans)
  BY DEF Wanted, SpansCover
<1>5. \A k \in Applied(rd, b) : Span(k) \subseteq spans
  OBVIOUS
<1>6. \A k : k \in Wanted(rd, b) <=> k \in chain /\ ~(Span(k) \subseteq spans)
  BY <1>4, <1>5 DEF Wanted
<1>7. ASSUME NEW k \in SegmentsFrom(e, w.hi, n)
      PROVE  \E j \in (w.hi + 1)..(w.hi + n) : k = Segment(e, j) /\ Span(k) = j..j
  BY <1>2 DEF SegmentsFrom
<1> HIDE DEF spans
<1>8. ASSUME Applied(rd, b) = {}  PROVE Wanted(rd, b) = chain
  <2>1. spans = {}
    BY <1>8 DEF spans
  <2>2. 0 \in Span(w)
    BY <1>1
  <2>3. ASSUME NEW k \in SegmentsFrom(e, w.hi, n)  PROVE Span(k) # {}
    <3>1. PICK j \in (w.hi + 1)..(w.hi + n) : Span(k) = j..j
      BY <1>7
    <3>2. j \in j..j
      BY <1>1, <3>1
    <3> QED
      BY <3>1, <3>2
  <2> QED
    BY <1>6, <2>1, <2>2, <2>3
<1>9. ASSUME NEW s \in Nat, spans = 0..s, w.hi <= s, NEW i \in Nat, s + i = w.hi + n
      PROVE  Wanted(rd, b) = SegmentsFrom(e, s, i)
  <2>1. Span(w) \subseteq spans
    BY <1>1, <1>9
  <2>2. ASSUME NEW j \in (w.hi + 1)..(w.hi + n)
        PROVE  ~(Span(Segment(e, j)) \subseteq spans) <=> j \in (s + 1)..(s + i)
    <3>1. j \in Nat /\ j..j = {j} /\ (j \in 0..s <=> ~(j \in (s + 1)..(s + i)))
      BY <1>1, <1>9
    <3>2. Span(Segment(e, j)) \subseteq spans <=> j \in 0..s
      BY <1>2, <1>9, <3>1
    <3> QED
      BY <3>1, <3>2
  <2>3. (s + 1)..(s + i) \subseteq (w.hi + 1)..(w.hi + n)
    BY <1>1, <1>9
  <2>4. ASSUME NEW k \in Wanted(rd, b)  PROVE k \in SegmentsFrom(e, s, i)
    <3>1. k \in SegmentsFrom(e, w.hi, n) /\ ~(Span(k) \subseteq spans)
      BY <1>6, <2>1
    <3>2. PICK j \in (w.hi + 1)..(w.hi + n) : k = Segment(e, j)
      BY <1>7, <3>1
    <3> QED
      BY <2>2, <3>1, <3>2 DEF SegmentsFrom
  <2>5. ASSUME NEW k \in SegmentsFrom(e, s, i)  PROVE k \in Wanted(rd, b)
    <3>1. PICK j \in (s + 1)..(s + i) : k = Segment(e, j)
      BY DEF SegmentsFrom
    <3>2. k \in SegmentsFrom(e, w.hi, n) /\ ~(Span(k) \subseteq spans)
      BY <2>2, <2>3, <3>1 DEF SegmentsFrom
    <3> QED
      BY <1>6, <3>2
  <2> QED
    BY <2>4, <2>5
<1>10. ASSUME NEW s \in Nat, spans = 0..s, ~(w.hi <= s)  PROVE Wanted(rd, b) = chain
  <2>1. w.hi \in Span(w) /\ w.hi \notin spans
    BY <1>1, <1>10
  <2>2. ASSUME NEW k \in SegmentsFrom(e, w.hi, n)  PROVE ~(Span(k) \subseteq spans)
    <3>1. PICK j \in (w.hi + 1)..(w.hi + n) : Span(k) = j..j
      BY <1>7
    <3>2. j \in Span(k) /\ j \notin spans
      BY <1>1, <1>10, <3>1
    <3> QED
      BY <3>2
  <2> QED
    BY <1>6, <2>1, <2>2
<1> QED
  BY <1>3, <1>8, <1>9, <1>10 DEF spans

\* A refresh brings a reader to the newest commit of a peer's lane, wherever in
\* the lane it was and whatever gc() and compact() have made of it since.
LEMMA PeerCatchesUp ==
    ASSUME TravelInv, LaneStory, NEW rd, Knows(rd), NEW b \in Agent \ {Me}, PeerOK(rd, b)
    PROVE  PeerOK(Refreshed(rd), b)
<1> DEFINE rd2 == Refreshed(rd)
<1>0. b \in Agent /\ LanesOK /\ CommitsOK(b) /\ GrowthOK(b) /\ OwnOK(b) /\ CoverOK(b)
  BY DEF TravelInv, ShapeInv, PastOK, LaneStory
<1>1. CASE DOMAIN past[b] = {}
  <2>1. ListedChain(b) = {}
    BY <1>0, <1>1, NothingIsListed DEF ListedChain
  <2>2. /\ OnLane(rd2, b) = OnLane(rd, b) /\ Told(rd2, b) = Told(rd, b)
        /\ rd2.peerEpoch[b] = rd.peerEpoch[b] /\ rd2.applied[b] = rd.applied[b]
    BY <1>0, <2>1, RefreshedOnLane
  <2> QED
    BY <2>2 DEF PeerOK, HasRead, HasReadNothing
<1>2. CASE DOMAIN past[b] # {}
  <2>1. PICK p : IsNewest(b, p)
    BY <1>0, <1>2 DEF OwnOK
  <2>2. PICK w \in Key, n \in Nat : Whole(b, p, w, n)
    BY <1>0, <2>1, NewestIsListed
  <2>3. p \in DOMAIN past[b] /\ p \in Nat \X Nat /\ p[1] > 0
    BY <1>0, <2>1 DEF CommitsOK, OwnOK, IsNewest
  <2>4. PICK e \in Nat, top \in Nat : p = <<e, top>> /\ e = p[1] /\ top = p[2] /\ e # 0
    BY <2>3
  <2> DEFINE chain == {w} \cup SegmentsFrom(e, w.hi, n)
  <2>5. /\ w.epoch = e /\ (w.level = 1 \/ w.hi = 0) /\ w.hi + n = top /\ w.hi \in Nat
        /\ ListedChain(b) = chain /\ chain \subseteq DOMAIN lanes[b]
        /\ LaneReplay(Contents(b, chain)) = past[b][p]
    BY <2>2, <2>4, KeyParts DEF Whole, ListedChain
  <2>6. /\ OnLane(rd2, b) = OnLane(rd, b) \cup Entries(b, Wanted(rd, b))
        /\ Told(rd2, b) = Told(rd, b) \cup Contents(b, Wanted(rd, b))
        /\ rd2.peerEpoch[b] = ListedEpoch(b)
        /\ rd2.applied[b] = Applied(rd, b) \cup ListedChain(b)
    BY <1>0, <2>5, RefreshedOnLane
  <2>7. /\ ListedEpoch(b) = e
        /\ Applied(rd, b) = {} => Wanted(rd, b) = chain
        /\ \A s \in Nat :
              UNION {Span(k) : k \in Applied(rd, b)} = 0..s =>
                 IF w.hi <= s
                 THEN \A i \in Nat : s + i = w.hi + n => Wanted(rd, b) = SegmentsFrom(e, s, i)
                 ELSE Wanted(rd, b) = chain
    BY <1>0, <2>5, WhatIsWanted
  <2>8. UNION {Span(k) : k \in chain} = 0..top
    BY <2>5, SpansOfWhole
  <2> HIDE DEF chain, rd2
  \* The entry of the last object of the chain, or of what was there before.
  <2>9. ASSUME Wanted(rd, b) = chain  PROVE \E x \in OnLane(rd2, b) : p = <<x.epoch, x.seq>>
    <3>1. PICK k \in chain : k.epoch = e /\ k.hi = top
      BY <2>5, LastOfWhole DEF chain
    <3>2. [agent |-> b, at |-> lanes[b][k].at, epoch |-> k.epoch, seq |-> k.hi]
             \in Entries(b, Wanted(rd, b))
      BY <2>9, <3>1 DEF Entries
    <3> QED
      BY <2>4, <2>6, <3>1, <3>2
  <2>10. ASSUME Wanted(rd, b) = chain, HasReadNothing(rd, b) \/ \E q : HasRead(rd, b, q)
         PROVE  LaneReplay(Told(rd2, b)) = past[b][p]
    BY <1>0, <2>1, <2>5, <2>6, <2>10, ReadingTheWhole
  <2>11. HasReadNothing(rd, b) \/ \E q : HasRead(rd, b, q)
    BY DEF PeerOK
  <2>12. \A x \in OnLane(rd2, b) : NotAfter(<<x.epoch, x.seq>>, p)
    <3>1. ASSUME NEW x \in OnLane(rd, b)  PROVE <<x.epoch, x.seq>> \in Nat \X Nat
      BY DEF Knows, ReaderSet, OnLane, LogEntry
    <3>2. ASSUME NEW x \in OnLane(rd, b)  PROVE NotAfter(<<x.epoch, x.seq>>, p)
      <4>1. PICK q \in DOMAIN past[b] : NotAfter(<<x.epoch, x.seq>>, q)
        BY <2>11 DEF HasRead, HasReadNothing
      <4>2. NotAfter(q, p) /\ q \in Nat \X Nat
        BY <1>0, <2>1 DEF IsNewest, CommitsOK
      <4> QED
        BY <2>3, <3>1, <4>1, <4>2, NotAfterIsOrder
    <3>3. ASSUME NEW x \in Entries(b, Wanted(rd, b))  PROVE NotAfter(<<x.epoch, x.seq>>, p)
      <4>1. PICK k \in Wanted(rd, b) : x.epoch = k.epoch /\ x.seq = k.hi
        BY DEF Entries
      <4>2. k \in DOMAIN lanes[b]
        BY <2>5, <4>1 DEF Wanted
      <4>3. <<k.epoch, k.hi>> \in DOMAIN past[b]
        BY <1>0, <4>2, ObjectsAreCommits
      <4> QED
        BY <2>1, <4>1, <4>3 DEF IsNewest
    <3> QED
      BY <2>6, <3>2, <3>3
  <2>13. CASE rd.peerEpoch[b] = e
    <3>1. PICK s \in Nat : /\ HasRead(rd, b, <<e, s>>)
                           /\ UNION {Span(k) : k \in rd.applied[b]} = 0..s
      BY <2>4, <2>13 DEF PeerOK
    <3>2. s <= top
      BY <2>1, <2>4, <3>1 DEF IsNewest, HasRead, NotAfter
    <3>3. UNION {Span(k) : k \in Applied(rd, b)} = 0..s
      BY <2>7, <2>13, <3>1 DEF Applied
    <3>4. UNION {Span(k) : k \in rd2.applied[b]} = 0..top
      <4>1. UNION {Span(k) : k \in Applied(rd, b) \cup chain} = (0..s) \cup (0..top)
        BY <2>8, <3>3
      <4>2. (0..s) \cup (0..top) = 0..top
        BY <3>2
      <4> QED
        BY <2>5, <2>6, <4>1, <4>2
    <3>5. CASE w.hi <= s
      <4>1. PICK i \in Nat : s + i = top
        <5>1. top - s \in Nat /\ s + (top - s) = top
          BY <3>2
        <5> QED
          BY <5>1
      <4>2. Wanted(rd, b) = SegmentsFrom(e, s, i)
        BY <2>5, <2>7, <3>3, <3>5, <4>1
      <4>3. SegmentsFrom(e, s, i) \subseteq DOMAIN lanes[b]
        BY <2>5, <4>2 DEF Wanted
      <4>4. LaneReplay(Told(rd2, b)) = past[b][p]
        <5>1. LaneReplay(Told(rd, b)) = past[b][<<e, s>>]
          BY <3>1 DEF HasRead
        <5>2. LaneReplay(Told(rd, b) \cup Contents(b, SegmentsFrom(e, s, i)))
                 = past[b][<<e, s + i>>]
          BY <1>0, <4>3, <5>1, SegmentsReplay DEF TravelInv
        <5> QED
          BY <2>4, <2>6, <4>1, <4>2, <5>2
      <4>5. \E x \in OnLane(rd2, b) : p = <<x.epoch, x.seq>>
        <5>1. CASE i = 0
          <6>1. PICK x \in OnLane(rd, b) : <<e, s>> = <<x.epoch, x.seq>>
            BY <3>1 DEF HasRead
          <6>2. p = <<e, s>>
            BY <2>4, <4>1, <5>1
          <6> QED
            BY <2>6, <6>1, <6>2
        <5>2. CASE i # 0
          <6>1. PICK k \in Wanted(rd, b) : k.epoch = e /\ k.hi = top
            BY <4>1, <4>2, <5>2, LastOfSegments
          <6>2. [agent |-> b, at |-> lanes[b][k].at, epoch |-> k.epoch, seq |-> k.hi]
                   \in Entries(b, Wanted(rd, b))
            BY <6>1 DEF Entries
          <6> QED
            BY <2>4, <2>6, <6>1, <6>2
        <5> QED
          BY <5>1, <5>2
      <4>6. HasRead(rd2, b, p)
        BY <2>3, <2>12, <4>4, <4>5 DEF HasRead
      <4> QED
        BY <2>4, <2>6, <2>7, <3>4, <4>6 DEF PeerOK, rd2
    <3>6. CASE ~(w.hi <= s)
      <4>1. Wanted(rd, b) = chain
        BY <2>7, <3>3, <3>6
      <4>2. HasRead(rd2, b, p)
        BY <2>3, <2>9, <2>10, <2>11, <2>12, <4>1 DEF HasRead
      <4> QED
        BY <2>4, <2>6, <2>7, <3>4, <4>2 DEF PeerOK, rd2
    <3> QED
      BY <3>5, <3>6
  <2>14. CASE rd.peerEpoch[b] # e
    <3>1. Applied(rd, b) = {} /\ Wanted(rd, b) = chain
      BY <2>7, <2>14 DEF Applied
    <3>2. HasRead(rd2, b, p)
      BY <2>3, <2>9, <2>10, <2>11, <2>12, <3>1 DEF HasRead
    <3>3. rd2.applied[b] = chain
      BY <2>5, <2>6, <3>1
    <3> QED
      BY <2>4, <2>6, <2>7, <2>8, <3>2, <3>3 DEF PeerOK, rd2
  <2> QED
    BY <2>13, <2>14
<1> QED
  BY <1>1, <1>2

LEMMA RefreshedOK ==
    ASSUME TravelInv, LaneStory, NEW rd, Knows(rd), ReaderOK(rd)
    PROVE  ReaderOK(Refreshed(rd))
<1>1. \A b \in Agent \ {Me} : PeerOK(Refreshed(rd), b)
  BY PeerCatchesUp DEF ReaderOK
<1>2. OnLane(Refreshed(rd), Me) = OnLane(rd, Me) /\ Told(Refreshed(rd), Me) = Told(rd, Me)
  BY TimeTravelAssumption, RefreshedOnLane DEF TravelInv, ShapeInv
<1>3. OwnLaneOK(Refreshed(rd))
  BY <1>2 DEF ReaderOK, OwnLaneOK, HasRead, HasReadNothing
<1> QED
  BY <1>1, <1>3 DEF ReaderOK

\* A Space that wakes has read its own lane, and nothing else yet.
LEMMA WokenOK ==
    ASSUME TravelInv, LaneStory
    PROVE  /\ Knows(Heard(Unread, Me, ListedChain(Me)))
           /\ ReaderOK(Heard(Unread, Me, ListedChain(Me)))
<1> DEFINE C == Contents(Me, ListedChain(Me))
           rd == Heard(Unread, Me, ListedChain(Me))
<1>0. Me \in Agent /\ LanesOK /\ CommitsOK(Me) /\ OwnOK(Me) /\ CoverOK(Me)
  BY TimeTravelAssumption DEF TravelInv, ShapeInv, PastOK, LaneStory
<1>1. Knows(Unread)
  BY FS_EmptySet, BlankIsMerge DEF Knows, Unread, ReaderSet
<1>2. ListedChain(Me) \in SUBSET DOMAIN lanes[Me]
  BY <1>0, ListedIsThere
<1>3. Knows(rd)
  BY <1>0, <1>1, <1>2, HeardReads DEF Reads
<1>4. C \subseteq RecordSet
  BY <1>0, <1>2, ContentsOK
<1>5. /\ rd.peerEpoch = [a \in Agent |-> 0] /\ rd.log = Entries(Me, ListedChain(Me))
      /\ rd.heard = C \X {Me}
  BY DEF Heard, Unread
<1> HIDE DEF rd, C
<1>6. ASSUME NEW b \in Agent \ {Me}  PROVE PeerOK(rd, b)
  <2>1. OnLane(rd, b) = {} /\ Told(rd, b) = {}
    BY <1>5 DEF OnLane, Told, Entries
  <2> QED
    BY <1>5, <2>1 DEF PeerOK, HasReadNothing
<1>7. Told(rd, Me) = C /\ OnLane(rd, Me) = Entries(Me, ListedChain(Me))
  BY <1>4, <1>5 DEF OnLane, Told, Entries
<1>8. OwnLaneOK(rd)
  <2>1. CASE DOMAIN past[Me] = {}
    <3>1. ListedChain(Me) = {}
      BY <1>0, <2>1, NothingIsListed DEF ListedChain
    <3>2. C = {} /\ Entries(Me, ListedChain(Me)) = {}
      BY <3>1 DEF C, Contents, Entries
    <3> QED
      BY <1>7, <2>1, <3>2 DEF OwnLaneOK, HasReadNothing
  <2>2. CASE DOMAIN past[Me] # {}
    <3>1. PICK p : IsNewest(Me, p)
      BY <1>0, <2>2 DEF OwnOK
    <3>2. PICK w \in Key, n \in Nat : Whole(Me, p, w, n)
      BY <1>0, <3>1, NewestIsListed
    <3>3. p \in DOMAIN past[Me] /\ p = <<p[1], p[2]>>
      BY <1>0, <3>1 DEF CommitsOK, IsNewest
    <3>4. /\ ListedChain(Me) = {w} \cup SegmentsFrom(p[1], w.hi, n)
          /\ w.epoch = p[1] /\ w.hi + n = p[2] /\ LaneReplay(C) = past[Me][p]
      BY <3>2 DEF Whole, ListedChain, C
    <3>5. PICK k \in ListedChain(Me) : k.epoch = p[1] /\ k.hi = p[2]
      BY <3>4, LastOfWhole
    <3>6. \E x \in OnLane(rd, Me) : p = <<x.epoch, x.seq>>
      <4>1. [agent |-> Me, at |-> lanes[Me][k].at, epoch |-> k.epoch, seq |-> k.hi]
               \in OnLane(rd, Me)
        BY <1>7, <3>5 DEF Entries
      <4> QED
        BY <3>3, <3>5, <4>1
    <3>7. \A x \in OnLane(rd, Me) : NotAfter(<<x.epoch, x.seq>>, p)
      <4>1. ASSUME NEW x \in OnLane(rd, Me)
            PROVE  \E j \in DOMAIN lanes[Me] : x.epoch = j.epoch /\ x.seq = j.hi
        BY <1>2, <1>7 DEF Entries
      <4> QED
        BY <1>0, <3>1, <4>1, ObjectsAreCommits DEF IsNewest
    <3>8. HasRead(rd, Me, p)
      BY <1>7, <3>3, <3>4, <3>6, <3>7 DEF HasRead
    <3> QED
      BY <2>2, <3>1, <3>8 DEF OwnLaneOK
  <2> QED
    BY <2>1, <2>2
<1> QED
  BY <1>3, <1>6, <1>8 DEF ReaderOK, rd

-----------------------------------------------------------------------------
(***************************************************************************)
(* The steps, and what they make of checkpoints.                           *)
(***************************************************************************)

\* A reader, or what a step has made of it, where no commit was made.
LEMMA ReaderMoves ==
    ASSUME NEW rd, ReaderOK(rd), UNCHANGED past, rd = reader'
    PROVE  ReaderOK(reader)'
BY DEF ReaderOK, OwnLaneOK, PeerOK, HasRead, HasReadNothing, IsNewest, OnLane, Told, NotAfter

\* Commits are not unmade, so checkpoints stay what they were.
LEMMA TagsKept ==
    ASSUME TagsOK, UNCHANGED tags,
           \A a \in Agent : \A p \in DOMAIN past[a] :
              p \in DOMAIN past'[a] /\ past'[a][p] = past[a][p]
    PROVE  TagsOK'
<1>1. ASSUME NEW n \in DOMAIN tags'
      PROVE  /\ tags'[n].seen \in StateSet
             /\ \E H \in SUBSET HeardSet : SeenAt(tags[n].cut, tags[n].seen, H)'
  <2>1. PICK H \in SUBSET HeardSet : SeenAt(tags[n].cut, tags[n].seen, H)
    BY DEF TagsOK
  <2>2. SeenAt(tags[n].cut, tags[n].seen, H)'
    BY <2>1 DEF SeenAt
  <2> QED
    BY <2>2 DEF TagsOK
<1> QED
  BY <1>1 DEF TagsOK

LEMMA InitStory == TravelInit => StoryInv
<1> SUFFICES ASSUME TravelInit  PROVE StoryInv
  OBVIOUS
<1>1. TravelInv
  BY InitTravelInv
<1>2. LaneStory
  BY DEF TravelInit, LaneStory, GrowthOK, OwnOK, CoverOK
<1>3. \A b \in Agent : HasReadNothing(reader, b)
  BY DEF TravelInit, Unread, OnLane, Told, HasReadNothing
<1>4. ReaderOK(reader)
  <2>1. DOMAIN past[Me] = {} /\ \A b \in Agent : reader.peerEpoch[b] = 0
    BY TimeTravelAssumption DEF TravelInit, Unread
  <2> QED
    BY <1>3, <2>1, TimeTravelAssumption DEF ReaderOK, OwnLaneOK, PeerOK
<1>5. TagsOK
  BY DEF TravelInit, TagsOK
<1> QED
  BY <1>1, <1>2, <1>4, <1>5 DEF StoryInv

\* Compaction adds an object.
LEMMA CompactStory ==
    ASSUME StoryInv, NEW a \in Agent, Compact(a)
    PROVE  StoryInv'
<1>1. TravelInv'
  BY CompactInv DEF StoryInv
<1>2. PICK k, object : /\ Write(a, k, object)
                       /\ UNCHANGED <<epoch, nextSeq, own, reader, tags, past, collected>>
  BY DEF Compact
<1>3. \A b \in Agent : DOMAIN lanes[b] \subseteq DOMAIN lanes'[b]
  BY <1>2 DEF Write, With, StoryInv, TravelInv, ShapeInv, LanesOK
<1>4. ASSUME NEW b \in Agent  PROVE GrowthOK(b)' /\ OwnOK(b)' /\ CoverOK(b)'
  <2>1. GrowthOK(b)' /\ OwnOK(b)'
    BY <1>2 DEF StoryInv, LaneStory, GrowthOK, OwnOK, IsNewest
  <2>2. CoverOK(b)'
    BY <1>2, <1>3 DEF StoryInv, LaneStory, CoverOK
  <2> QED
    BY <2>1, <2>2
<1>5. ReaderOK(reader)'
  BY <1>2, ReaderMoves DEF StoryInv
<1>6. TagsOK'
  BY <1>2, TagsKept DEF StoryInv
<1> QED
  BY <1>1, <1>4, <1>5, <1>6 DEF StoryInv, LaneStory

\* gc() leaves an L1 object over what it deletes of the newest epoch.
LEMMA GcStory ==
    ASSUME StoryInv, NEW a \in Agent, Gc(a)
    PROVE  StoryInv'
<1>1. TravelInv' /\ TravelInv
  BY GcInv DEF StoryInv
<1>2. PICK D \in SUBSET Doomed(DOMAIN lanes[a], KeepEpochs) :
         /\ lanes' = [lanes EXCEPT ![a] = [k \in DOMAIN @ \ D |-> @[k]]]
         /\ collected' = collected \cup ({a} \X {k.epoch : k \in D})
         /\ UNCHANGED <<clock, epoch, nextSeq, own, reader, tags, past>>
  BY DEF Gc
<1> DEFINE K == DOMAIN lanes[a]
<1>3. DOMAIN lanes'[a] = K \ D /\ \A b \in Agent \ {a} : DOMAIN lanes'[b] = DOMAIN lanes[b]
  <2> DEFINE lane == [k \in K \ D |-> lanes[a][k]]
  <2>1. lanes' = [lanes EXCEPT ![a] = lane] /\ DOMAIN lane = K \ D
    BY <1>2
  <2> HIDE DEF lane
  <2>2. lanes = [b \in Agent |-> lanes[b]]
    BY <1>1 DEF TravelInv, ShapeInv, LanesOK
  <2>3. lanes'[a] = lane /\ \A b \in Agent \ {a} : lanes'[b] = lanes[b]
    BY <2>1, <2>2
  <2> QED
    BY <2>1, <2>3
<1>4. GrowthOK(a) /\ OwnOK(a) /\ CoverOK(a) /\ CommitsOK(a)
  BY DEF StoryInv, LaneStory, TravelInv, PastOK
\* In an epoch that no commit lies beyond.
<1>5. ASSUME NEW e \in Nat, \A q \in DOMAIN past[a] : ~(q[1] > e),
             NEW k \in D, k.epoch = e
      PROVE  \E w \in K \ D : w.level = 1 /\ w.epoch = e /\ k.hi <= w.hi
  <2>1. Newer(K, e) = {}
    <3>1. ASSUME NEW j \in K  PROVE ~(j.epoch > e)
      <4>1. <<j.epoch, j.hi>> \in DOMAIN past[a]
        BY <1>1, <3>1, ObjectsAreCommits
      <4> QED
        BY <1>5, <4>1
    <3> QED
      BY <3>1 DEF Newer
  <2>2. Cardinality(Newer(K, e)) < KeepEpochs
    BY <2>1, FS_EmptySet, TimeTravelAssumption
  <2>3. PICK w \in K : w.epoch = e /\ w.level = 1 /\ w.hi > 0 /\ k.hi <= w.hi
    BY <1>2, <1>5, <2>2 DEF Doomed
  <2>4. w \notin Doomed(K, KeepEpochs)
    BY <2>2, <2>3 DEF Doomed
  <2> QED
    BY <1>2, <2>3, <2>4
<1>6. CoverOK(a)'
  <2>1. SUFFICES ASSUME NEW p \in DOMAIN past[a]
        PROVE  \/ Segment(p[1], p[2]) \in K \ D
               \/ /\ <<a, p[1]>> \in collected'
                  /\ \/ \E q \in DOMAIN past[a] : q[1] > p[1]
                     \/ \E k \in K \ D : k.level = 1 /\ k.epoch = p[1] /\ p[2] <= k.hi
    BY <1>2, <1>3 DEF CoverOK
  <2>2. p[1] \in Nat /\ p[2] \in Nat
    BY <1>4 DEF CommitsOK
  <2>3. ASSUME \A q \in DOMAIN past[a] : ~(q[1] > p[1]),
               NEW k \in D, k.epoch = p[1], p[2] <= k.hi
        PROVE  \E j \in K \ D : j.level = 1 /\ j.epoch = p[1] /\ p[2] <= j.hi
    <3>1. PICK w \in K \ D : w.level = 1 /\ w.epoch = p[1] /\ k.hi <= w.hi
      BY <1>5, <2>2, <2>3
    <3>2. k \in Key /\ w \in Key
      BY <1>1, <1>2, ObjectsAreCommits DEF Doomed
    <3>3. p[2] <= w.hi
      BY <2>2, <2>3, <3>1, <3>2, KeyParts
    <3> QED
      BY <3>1, <3>3
  <2>4. CASE Segment(p[1], p[2]) \in D
    <3>1. Segment(p[1], p[2]).epoch = p[1] /\ Segment(p[1], p[2]).hi = p[2]
      BY DEF Segment
    <3>2. <<a, p[1]>> \in collected'
      BY <1>2, <2>4, <3>1
    <3> QED
      BY <2>2, <2>3, <2>4, <3>1, <3>2
  <2>5. CASE Segment(p[1], p[2]) \in K \ D
    BY <2>5
  <2>6. CASE Segment(p[1], p[2]) \notin K
    <3>1. <<a, p[1]>> \in collected'
      BY <1>2, <1>4, <2>6 DEF CoverOK
    <3>2. ASSUME \A q \in DOMAIN past[a] : ~(q[1] > p[1])
          PROVE  \E j \in K \ D : j.level = 1 /\ j.epoch = p[1] /\ p[2] <= j.hi
      <4>1. PICK k \in K : k.level = 1 /\ k.epoch = p[1] /\ p[2] <= k.hi
        BY <1>4, <2>6, <3>2 DEF CoverOK
      <4> QED
        BY <2>3, <3>2, <4>1
    <3> QED
      BY <3>1, <3>2
  <2> QED
    BY <2>4, <2>5, <2>6
<1>7. ASSUME NEW b \in Agent  PROVE GrowthOK(b)' /\ OwnOK(b)' /\ CoverOK(b)'
  <2>1. GrowthOK(b)' /\ OwnOK(b)'
    BY <1>2 DEF StoryInv, LaneStory, GrowthOK, OwnOK, IsNewest
  <2>2. ASSUME b # a  PROVE CoverOK(b)'
    <3>1. \A e : <<b, e>> \in collected => <<b, e>> \in collected'
      BY <1>2
    <3> QED
      BY <1>2, <1>3, <2>2, <3>1 DEF StoryInv, LaneStory, CoverOK
  <2> QED
    BY <1>6, <2>1, <2>2
<1>8. ReaderOK(reader)'
  BY <1>2, ReaderMoves DEF StoryInv
<1>9. TagsOK'
  BY <1>2, TagsKept DEF StoryInv
<1> QED
  BY <1>1, <1>7, <1>8, <1>9 DEF StoryInv, LaneStory

\* A lane wakes with what its last commit left, and its agent has read no more.
LEMMA RestartStory ==
    ASSUME StoryInv, NEW a \in Agent, Restart(a)
    PROVE  StoryInv'
<1>1. TravelInv' /\ TravelInv /\ LaneStory
  BY RestartInv DEF StoryInv
<1>2. /\ epoch' = [epoch EXCEPT ![a] = @ + 1]
      /\ own' = [own EXCEPT ![a] = LaneReplay(Contents(a, ListedChain(a)))]
      /\ reader' = IF a = Me THEN Refreshed(Heard(Unread, a, ListedChain(a))) ELSE reader
      /\ UNCHANGED <<clock, lanes, tags, past, collected>>
  BY DEF Restart, ListedChain
<1>3. GrowthOK(a) /\ OwnOK(a) /\ CoverOK(a) /\ CommitsOK(a)
  BY <1>1 DEF LaneStory, TravelInv, PastOK
<1>4. own'[a] = LaneReplay(Contents(a, ListedChain(a))) /\ epoch'[a] = epoch[a] + 1
      /\ epoch[a] \in Nat /\ \A b \in Agent \ {a} : own'[b] = own[b] /\ epoch'[b] = epoch[b]
  BY <1>1, <1>2 DEF TravelInv, ShapeInv, LanesOK
<1>5. own'[a] = own[a]
  <2>1. CASE DOMAIN past[a] = {}
    <3>1. ListedChain(a) = {}
      BY <1>1, <2>1, NothingIsListed DEF ListedChain
    <3>2. own'[a] = {}
      BY <1>4, <3>1 DEF Contents, LaneReplay
    <3> QED
      BY <1>3, <2>1, <3>2 DEF OwnOK
  <2>2. CASE DOMAIN past[a] # {}
    <3>1. PICK p : IsNewest(a, p) /\ own[a] = past[a][p]
      BY <1>3, <2>2 DEF OwnOK
    <3>2. PICK w \in Key, n \in Nat : Whole(a, p, w, n)
      BY <1>1, <1>3, <3>1, NewestIsListed
    <3> QED
      BY <1>4, <3>1, <3>2 DEF Whole, ListedChain
  <2> QED
    BY <2>1, <2>2
<1>6. ASSUME NEW b \in Agent  PROVE GrowthOK(b)' /\ OwnOK(b)' /\ CoverOK(b)'
  <2>1. own'[b] = own[b] /\ epoch'[b] > 0
    BY <1>1, <1>3, <1>4, <1>5 DEF LaneStory, OwnOK
  <2> QED
    BY <1>1, <1>2, <2>1 DEF LaneStory, GrowthOK, OwnOK, CoverOK, IsNewest
<1>7. ReaderOK(reader)'
  <2>1. CASE a = Me
    <3>1. PICK rd : rd = Refreshed(Heard(Unread, a, ListedChain(a)))
      OBVIOUS
    <3>2. ReaderOK(rd) /\ rd = reader'
      BY <1>1, <1>2, <2>1, <3>1, WokenOK, RefreshedOK
    <3> QED
      BY <1>2, <3>2, ReaderMoves
  <2>2. CASE a # Me
    BY <1>2, <2>2, ReaderMoves DEF StoryInv
  <2> QED
    BY <2>1, <2>2
<1>8. TagsOK'
  BY <1>2, TagsKept DEF StoryInv
<1> QED
  BY <1>1, <1>6, <1>7, <1>8 DEF StoryInv, LaneStory

LEMMA RefreshStory ==
    ASSUME StoryInv, Refresh
    PROVE  StoryInv'
<1>1. TravelInv' /\ TravelInv /\ LaneStory /\ Knows(reader) /\ ReaderOK(reader)
  BY TravelNextInv DEF StoryInv, TravelInv, ShapeInv, TravelNext
<1>2. reader' = Refreshed(reader) /\ UNCHANGED <<laneVars, tags>>
  BY DEF Refresh
<1>3. LaneStory'
  BY <1>1, <1>2 DEF laneVars, LaneStory, GrowthOK, OwnOK, CoverOK, IsNewest
<1>4. PICK rd : rd = Refreshed(reader)
  OBVIOUS
<1>5. ReaderOK(rd) /\ rd = reader'
  BY <1>1, <1>2, <1>4, RefreshedOK
<1>6. ReaderOK(reader)'
  BY <1>2, <1>5, ReaderMoves DEF laneVars
<1>7. TagsOK'
  BY <1>2, TagsKept DEF StoryInv, laneVars
<1> QED
  BY <1>1, <1>3, <1>6, <1>7 DEF StoryInv

\* What a flush makes of its lane, and of a reader that is its agent's.
FlushMade(a, p, R) ==
    /\ DOMAIN past'[a] = DOMAIN past[a] \cup {p} /\ p[1] = epoch[a]
    /\ \A q \in DOMAIN past[a] : q \in Nat \X Nat /\ NotAfter(q, p) /\ q # p
                                 /\ past'[a][q] = past[a][q]
    /\ past'[a][p] = own'[a] /\ own'[a] = LaneReplay(own[a] \cup R)
    /\ \A b \in Agent \ {a} : past'[b] = past[b] /\ own'[b] = own[b]
    /\ Segment(p[1], p[2]) \in DOMAIN lanes'[a]
    /\ \A b \in Agent : DOMAIN lanes[b] \subseteq DOMAIN lanes'[b]
    /\ UNCHANGED <<epoch, tags, collected>>
    /\ a # Me => UNCHANGED reader
    /\ a = Me =>
          /\ reader'.peerEpoch = reader.peerEpoch /\ reader'.applied = reader.applied
          /\ \E x : /\ reader'.log = reader.log \cup {x}
                    /\ x.agent = a /\ p = <<x.epoch, x.seq>>
          /\ reader'.heard = reader.heard \cup (R \X {a})

LEMMA FlushMakes ==
    ASSUME TravelInv, NEW a \in Agent, Flush(a)
    PROVE  \E p \in Nat \X Nat, R \in SUBSET RecordSet : FlushMade(a, p, R)
<1>0. PICK k, p : k = Segment(epoch[a], nextSeq[a]) /\ p = <<epoch[a], nextSeq[a]>>
  OBVIOUS
<1>1. PICK t, R :
         /\ t \in {clock[a], clock[a] + 1} \cap 0..MaxTime /\ R \in Staged(a, t)
         /\ Write(a, k, [body |-> Body(a, R), at |-> t])
         /\ own' = [own EXCEPT ![a] = LaneReplay(@ \cup R)]
         /\ past' = [past EXCEPT ![a] = With(@, p, own'[a])]
         /\ reader' =
               IF a # Me THEN reader
               ELSE [reader EXCEPT
                        !.log = @ \cup {[agent |-> a, at |-> t, epoch |-> epoch[a],
                                         seq |-> nextSeq[a]]},
                        !.state = ApplyAll(@, R \X {a}),
                        !.heard = @ \cup (R \X {a})]
         /\ UNCHANGED <<epoch, tags, collected>>
  BY <1>0 DEF Flush
<1>2. /\ epoch[a] \in Nat /\ nextSeq[a] \in Nat /\ clock[a] \in Nat
      /\ p \in Nat \X Nat /\ p[1] = epoch[a] /\ p[2] = nextSeq[a]
  BY <1>0 DEF TravelInv, ShapeInv, LanesOK
<1>3. R \in SUBSET RecordSet
  BY <1>1, <1>2, StagedOK
<1>4. ASSUME NEW q \in DOMAIN past[a]  PROVE q \in Nat \X Nat /\ NotAfter(q, p) /\ q # p
  <2>1. q \in Nat \X Nat /\ (q[1] < epoch[a] \/ (q[1] = epoch[a] /\ q[2] < nextSeq[a]))
    BY DEF TravelInv, PastOK, CommitsOK
  <2> QED
    BY <1>2, <2>1 DEF NotAfter
<1>5. /\ DOMAIN past'[a] = DOMAIN past[a] \cup {p} /\ past'[a][p] = own'[a]
      /\ \A q \in DOMAIN past[a] : past'[a][q] = past[a][q]
      /\ \A b \in Agent \ {a} : past'[b] = past[b]
  <2> DEFINE more == With(past[a], p, own'[a])
  <2>1. past' = [past EXCEPT ![a] = more]
    BY <1>1
  <2>2. DOMAIN more = DOMAIN past[a] \cup {p} /\ more[p] = own'[a]
        /\ \A q \in DOMAIN past[a] : more[q] = past[a][q]
    BY <1>4 DEF With
  <2> HIDE DEF more
  <2>3. past'[a] = more /\ \A b \in Agent \ {a} : past'[b] = past[b]
    <3>1. past = [b \in Agent |-> past[b]]
      BY DEF TravelInv, PastOK
    <3> QED
      BY <2>1, <3>1
  <2> QED
    BY <2>2, <2>3
<1>6. own'[a] = LaneReplay(own[a] \cup R) /\ \A b \in Agent \ {a} : own'[b] = own[b]
  BY <1>1 DEF TravelInv, ShapeInv, LanesOK
<1>7. /\ Segment(p[1], p[2]) \in DOMAIN lanes'[a]
      /\ \A b \in Agent : DOMAIN lanes[b] \subseteq DOMAIN lanes'[b]
  BY <1>0, <1>1, <1>2 DEF Write, With, TravelInv, ShapeInv, LanesOK
<1>8. ASSUME a = Me
      PROVE  /\ reader'.peerEpoch = reader.peerEpoch /\ reader'.applied = reader.applied
             /\ \E x : /\ reader'.log = reader.log \cup {x}
                       /\ x.agent = a /\ p = <<x.epoch, x.seq>>
             /\ reader'.heard = reader.heard \cup (R \X {a})
  <2>1. PICK x : x = [agent |-> a, at |-> t, epoch |-> epoch[a], seq |-> nextSeq[a]]
    OBVIOUS
  <2>2. reader' = [reader EXCEPT !.log = @ \cup {x}, !.state = ApplyAll(@, R \X {a}),
                                 !.heard = @ \cup (R \X {a})]
    BY <1>1, <1>8, <2>1
  <2>3. reader \in ReaderSet
    BY DEF TravelInv, ShapeInv, Knows
  <2>4. /\ reader'.peerEpoch = reader.peerEpoch /\ reader'.applied = reader.applied
        /\ reader'.log = reader.log \cup {x} /\ reader'.heard = reader.heard \cup (R \X {a})
    BY <2>2, <2>3 DEF ReaderSet
  <2> QED
    BY <1>0, <2>1, <2>4
<1>9. a # Me => UNCHANGED reader
  BY <1>1
<1>10. p \in Nat \X Nat /\ R \in SUBSET RecordSet
  BY <1>2, <1>3
<1>11. FlushMade(a, p, R)
  <2>1. UNCHANGED <<epoch, tags, collected>>
    BY <1>1
  <2> QED
    BY <1>2, <1>4, <1>5, <1>6, <1>7, <1>8, <1>9, <2>1 DEF FlushMade
<1> QED
  BY <1>10, <1>11

\* A flush carries the lane on from its last commit.
LEMMA FlushStory ==
    ASSUME StoryInv, NEW a \in Agent, Flush(a)
    PROVE  StoryInv'
<1>1. TravelInv' /\ TravelInv /\ LaneStory
  BY FlushInv DEF StoryInv
<1>0. PICK p \in Nat \X Nat, R \in SUBSET RecordSet : FlushMade(a, p, R)
  BY <1>1, FlushMakes
<1>2. /\ DOMAIN past'[a] = DOMAIN past[a] \cup {p} /\ p[1] = epoch[a]
      /\ \A q \in DOMAIN past[a] : q \in Nat \X Nat /\ NotAfter(q, p) /\ q # p
                                   /\ past'[a][q] = past[a][q]
      /\ past'[a][p] = own'[a] /\ own'[a] = LaneReplay(own[a] \cup R)
      /\ \A b \in Agent \ {a} : past'[b] = past[b] /\ own'[b] = own[b]
      /\ Segment(p[1], p[2]) \in DOMAIN lanes'[a]
      /\ \A b \in Agent : DOMAIN lanes[b] \subseteq DOMAIN lanes'[b]
      /\ UNCHANGED <<epoch, tags, collected>>
      /\ a # Me => UNCHANGED reader
      /\ a = Me =>
            /\ reader'.peerEpoch = reader.peerEpoch /\ reader'.applied = reader.applied
            /\ \E x : /\ reader'.log = reader.log \cup {x}
                      /\ x.agent = a /\ p = <<x.epoch, x.seq>>
            /\ reader'.heard = reader.heard \cup (R \X {a})
  BY <1>0 DEF FlushMade
<1>3. GrowthOK(a) /\ OwnOK(a) /\ CoverOK(a)
  BY <1>1 DEF LaneStory
<1>4. /\ IsNewest(a, p)' /\ NotAfter(p, p)
      /\ \A q \in DOMAIN past[a] : ~NotAfter(p, q)
  <2>1. NotAfter(p, p) /\ \A q \in DOMAIN past[a] : ~NotAfter(p, q)
    BY <1>2, NotAfterIsOrder
  <2> QED
    BY <1>2, <2>1 DEF IsNewest, NotAfter
<1>5. GrowthOK(a)'
  <2>1. ASSUME NEW q \in DOMAIN past[a]
        PROVE  LaneReplay(past[a][q] \cup own'[a]) = own'[a]
    <3>1. PICK m \in DOMAIN past[a] : NotAfter(q, m) /\ own[a] = past[a][m]
      BY <1>3, <2>1 DEF OwnOK, IsNewest
    <3>2. LaneReplay(past[a][q] \cup own[a]) = own[a]
      BY <1>3, <3>1 DEF GrowthOK
    <3>3. LaneReplay(past[a][q] \cup own'[a]) = LaneReplay((past[a][q] \cup own[a]) \cup R)
      <4>1. LaneReplay(LaneReplay(own[a] \cup R) \cup past[a][q])
               = LaneReplay((own[a] \cup R) \cup past[a][q])
        BY ReplayTwice
      <4>2. /\ LaneReplay(own[a] \cup R) \cup past[a][q] = past[a][q] \cup LaneReplay(own[a] \cup R)
            /\ (own[a] \cup R) \cup past[a][q] = (past[a][q] \cup own[a]) \cup R
        OBVIOUS
      <4> QED
        BY <1>2, <4>1, <4>2
    <3>4. LaneReplay((past[a][q] \cup own[a]) \cup R) = LaneReplay(own[a] \cup R)
      <4>1. LaneReplay(LaneReplay(past[a][q] \cup own[a]) \cup R)
               = LaneReplay((past[a][q] \cup own[a]) \cup R)
        BY ReplayTwice
      <4> QED
        BY <3>2, <4>1
    <3> QED
      BY <1>2, <3>3, <3>4
  <2>2. LaneReplay(own'[a] \cup own'[a]) = own'[a]
    <3>1. own'[a] \cup own'[a] = own'[a]
      OBVIOUS
    <3>2. LaneReplay(LaneReplay(own[a] \cup R)) = LaneReplay(own[a] \cup R)
      BY ReplayTwice
    <3> QED
      BY <1>2, <3>1, <3>2
  <2>3. ASSUME NEW q \in DOMAIN past[a], NEW r \in DOMAIN past[a], NotAfter(q, r)
        PROVE  LaneReplay(past'[a][q] \cup past'[a][r]) = past'[a][r]
    BY <1>2, <1>3, <2>3 DEF GrowthOK
  <2>4. ASSUME NEW q \in DOMAIN past[a] \cup {p}, NEW r \in DOMAIN past[a] \cup {p},
               NotAfter(q, r)
        PROVE  LaneReplay(past'[a][q] \cup past'[a][r]) = past'[a][r]
    <3>1. CASE q = p /\ r = p
      BY <1>2, <2>2, <3>1
    <3>2. CASE q # p /\ r = p
      BY <1>2, <2>1, <2>4, <3>2
    <3>3. CASE r # p
      <4>1. r \in DOMAIN past[a] /\ q # p
        BY <1>4, <2>4, <3>3
      <4> QED
        BY <2>3, <2>4, <4>1
    <3> QED
      BY <3>1, <3>2, <3>3
  <2> QED
    BY <1>2, <2>4 DEF GrowthOK, NotAfter
<1>6. OwnOK(a)'
  <2>1. epoch'[a] > 0 /\ p[1] > 0 /\ \A q \in DOMAIN past[a] : q[1] > 0
    BY <1>2, <1>3 DEF OwnOK
  <2> QED
    BY <1>2, <1>4, <2>1 DEF OwnOK
<1>7. CoverOK(a)'
  <2>1. ASSUME NEW q \in DOMAIN past[a]
        PROVE  \/ Segment(q[1], q[2]) \in DOMAIN lanes'[a]
               \/ /\ <<a, q[1]>> \in collected'
                  /\ \/ \E r \in DOMAIN past'[a] : r[1] > q[1]
                     \/ \E k \in DOMAIN lanes'[a] : k.level = 1 /\ k.epoch = q[1] /\ q[2] <= k.hi
    BY <1>2, <1>3 DEF CoverOK
  <2> QED
    BY <1>2, <2>1 DEF CoverOK
<1>8. ASSUME NEW b \in Agent  PROVE GrowthOK(b)' /\ OwnOK(b)' /\ CoverOK(b)'
  <2>1. CASE b = a
    BY <1>5, <1>6, <1>7, <2>1
  <2>2. CASE b # a
    <3>1. GrowthOK(b)' /\ OwnOK(b)'
      BY <1>1, <1>2, <2>2 DEF LaneStory, GrowthOK, OwnOK, IsNewest
    <3>2. CoverOK(b)'
      BY <1>1, <1>2, <2>2 DEF LaneStory, CoverOK
    <3> QED
      BY <3>1, <3>2
  <2> QED
    BY <2>1, <2>2
<1>9. ASSUME NEW b \in Agent, NEW q, NEW rd, HasRead(rd, b, q)
      PROVE  HasRead(rd, b, q)'
  BY <1>2, <1>9 DEF HasRead, NotAfter, OnLane, Told
<1>10. ReaderOK(reader)'
  <2>1. PICK rd : rd = reader'
    OBVIOUS
  <2>2. ASSUME NEW b \in Agent \ {Me}  PROVE PeerOK(rd, b)'
    <3>1. /\ OnLane(rd, b) = OnLane(reader, b) /\ Told(rd, b) = Told(reader, b)
          /\ rd.peerEpoch[b] = reader.peerEpoch[b] /\ rd.applied[b] = reader.applied[b]
      BY <1>2, <2>1 DEF OnLane, Told
    <3>2. PeerOK(rd, b)
      BY <3>1 DEF StoryInv, ReaderOK, PeerOK, HasRead, HasReadNothing
    <3> QED
      BY <1>9, <3>2 DEF PeerOK, HasReadNothing, OnLane, Told
  <2>3. OwnLaneOK(rd)'
    <3>1. CASE a # Me
      <4>1. OwnLaneOK(rd) /\ past'[Me] = past[Me]
        BY <1>2, <2>1, <3>1, TimeTravelAssumption DEF StoryInv, ReaderOK
      <4> QED
        BY <1>9, <4>1, TimeTravelAssumption
        DEF OwnLaneOK, HasReadNothing, OnLane, Told, IsNewest, NotAfter
    <3>2. CASE a = Me
      <4>1. PICK x : /\ rd.log = reader.log \cup {x} /\ x.agent = a /\ p = <<x.epoch, x.seq>>
                     /\ rd.heard = reader.heard \cup (R \X {a})
        BY <1>2, <2>1, <3>2
      <4>2. OnLane(rd, a) = OnLane(reader, a) \cup {x} /\ Told(rd, a) = Told(reader, a) \cup R
        BY <4>1 DEF OnLane, Told
      <4>3. LaneReplay(Told(reader, a)) = own[a]
            /\ \A y \in OnLane(reader, a) : NotAfter(<<y.epoch, y.seq>>, p)
        <5>1. CASE DOMAIN past[a] = {}
          <6>1. HasReadNothing(reader, a) /\ own[a] = {}
            BY <1>3, <3>2, <5>1 DEF StoryInv, ReaderOK, OwnLaneOK, OwnOK
          <6> QED
            BY <6>1 DEF HasReadNothing, LaneReplay
        <5>2. CASE DOMAIN past[a] # {}
          <6>1. PICK q : IsNewest(a, q) /\ HasRead(reader, a, q)
            BY <3>2, <5>2 DEF StoryInv, ReaderOK, OwnLaneOK
          <6>2. PICK m : IsNewest(a, m) /\ own[a] = past[a][m]
            BY <1>3, <5>2 DEF OwnOK
          <6>3. q = m
            BY <1>2, <6>1, <6>2, NotAfterIsOrder DEF IsNewest
          <6>4. ASSUME NEW y \in OnLane(reader, a)  PROVE NotAfter(<<y.epoch, y.seq>>, p)
            <7>1. <<y.epoch, y.seq>> \in Nat \X Nat
              BY <1>1 DEF TravelInv, ShapeInv, Knows, ReaderSet, OnLane, LogEntry
            <7>2. NotAfter(<<y.epoch, y.seq>>, q) /\ q \in Nat \X Nat /\ NotAfter(q, p)
              BY <1>2, <6>1 DEF HasRead, IsNewest
            <7> QED
              BY <7>1, <7>2, NotAfterIsOrder
          <6> QED
            BY <6>1, <6>2, <6>3, <6>4 DEF HasRead
        <5> QED
          BY <5>1, <5>2
      <4>4. LaneReplay(Told(rd, a)) = own'[a]
        <5>1. LaneReplay(LaneReplay(Told(reader, a)) \cup R) = LaneReplay(Told(reader, a) \cup R)
          BY ReplayTwice
        <5> QED
          BY <1>2, <4>2, <4>3, <5>1
      <4>5. \A y \in OnLane(rd, a) : NotAfter(<<y.epoch, y.seq>>, p)
        BY <1>4, <4>1, <4>2, <4>3
      <4>6. HasRead(rd, a, p)'
        BY <1>2, <4>1, <4>2, <4>4, <4>5 DEF HasRead, NotAfter, OnLane, Told
      <4> QED
        BY <1>2, <1>4, <3>2, <4>6 DEF OwnLaneOK
    <3> QED
      BY <3>1, <3>2
  <2> QED
    BY <2>1, <2>2, <2>3 DEF ReaderOK
<1>11. TagsOK'
  <2>1. ASSUME NEW b \in Agent, NEW q \in DOMAIN past[b]
        PROVE  q \in DOMAIN past'[b] /\ past'[b][q] = past[b][q]
    BY <1>2
  <2> QED
    BY <1>2, <2>1, TagsKept DEF StoryInv
<1> QED
  BY <1>1, <1>8, <1>10, <1>11 DEF StoryInv, LaneStory

\* A reader has read nothing of a lane, or up to one of its commits.
LEMMA ReadUpTo ==
    ASSUME ReaderOK(reader), NEW b \in Agent
    PROVE  HasReadNothing(reader, b) \/ \E q : HasRead(reader, b, q)
<1>1. CASE b = Me
  BY <1>1 DEF ReaderOK, OwnLaneOK
<1>2. CASE b # Me
  BY <1>2 DEF ReaderOK, PeerOK
<1> QED
  BY <1>1, <1>2

\* That commit is where its cuts say that the lane had got to.
LEMMA CutIsRead ==
    ASSUME TravelInv, NEW b \in Agent, NEW q, HasRead(reader, b, q)
    PROVE  b \in DOMAIN CutOf(reader.log) /\ CutOf(reader.log)[b] = q
<1>1. PICK x \in OnLane(reader, b) : q = <<x.epoch, x.seq>>
  BY DEF HasRead
<1>2. x \in reader.log /\ x.agent = b
  BY <1>1 DEF OnLane
<1>3. PICK last \in reader.log : /\ last.agent = b
                                 /\ CutOf(reader.log)[b] = <<last.epoch, last.seq>>
                                 /\ ~Behind(last, x)
  BY <1>2, CutIsNewest
<1>4. /\ x.epoch \in Nat /\ x.seq \in Nat /\ last.epoch \in Nat /\ last.seq \in Nat
  BY <1>2, <1>3 DEF TravelInv, ShapeInv, Knows, ReaderSet, LogEntry
<1>5. NotAfter(<<last.epoch, last.seq>>, <<x.epoch, x.seq>>)
  BY <1>1, <1>3 DEF HasRead, OnLane
<1>6. last.epoch = x.epoch /\ last.seq = x.seq
  BY <1>3, <1>4, <1>5 DEF NotAfter, Behind
<1>7. b \in DOMAIN CutOf(reader.log)
  BY <1>2 DEF CutOf
<1> QED
  BY <1>1, <1>3, <1>6, <1>7

\* So a checkpoint made now is of what its author has heard.
LEMMA SeenNow ==
    ASSUME StoryInv
    PROVE  /\ reader.state \in StateSet /\ reader.heard \in SUBSET HeardSet
           /\ SeenAt(CutOf(reader.log), reader.state, reader.heard)
<1> DEFINE cut == CutOf(reader.log)
<1>1. /\ reader.state \in StateSet /\ reader.heard \in SUBSET HeardSet
      /\ reader.log \subseteq LogEntry /\ IsMerge(reader.state, reader.heard)
  BY DEF StoryInv, TravelInv, ShapeInv, Knows, ReaderSet
<1>2. DOMAIN cut = {e.agent : e \in reader.log}
  BY DEF CutOf
<1>3. DOMAIN cut \subseteq Agent
  BY <1>1, <1>2 DEF LogEntry
<1>4. ASSUME NEW b \in Agent, NEW q, HasRead(reader, b, q)
      PROVE  b \in DOMAIN cut /\ cut[b] = q
  BY <1>4, CutIsRead DEF StoryInv
<1> HIDE DEF cut
<1>5. ASSUME NEW h \in reader.heard  PROVE h[2] \in DOMAIN cut
  <2>1. h[1] \in RecordSet /\ h[2] \in Agent /\ h = <<h[1], h[2]>>
    BY <1>1 DEF HeardSet
  <2>2. h[1] \in Told(reader, h[2])
    BY <2>1 DEF Told
  <2>3. PICK q : HasRead(reader, h[2], q)
    BY <2>1, <2>2, ReadUpTo DEF StoryInv, HasReadNothing
  <2> QED
    BY <1>4, <2>1, <2>3
<1>6. ASSUME NEW a \in DOMAIN cut
      PROVE  /\ cut[a] \in DOMAIN past[a]
             /\ LaneReplay({r \in RecordSet : <<r, a>> \in reader.heard}) = past[a][cut[a]]
  <2>1. a \in Agent /\ OnLane(reader, a) # {}
    BY <1>2, <1>3 DEF OnLane
  <2>2. PICK q : HasRead(reader, a, q)
    BY <2>1, ReadUpTo DEF StoryInv, HasReadNothing
  <2> QED
    BY <1>4, <2>1, <2>2 DEF HasRead, Told
<1> QED
  BY <1>1, <1>3, <1>5, <1>6 DEF SeenAt, cut

LEMMA TagStory ==
    ASSUME StoryInv, NEW n, Tag(n)
    PROVE  StoryInv'
<1>1. /\ tags' = With(tags, n, [cut |-> CutOf(reader.log), seen |-> reader.state])
      /\ n \notin DOMAIN tags /\ UNCHANGED <<laneVars, reader>>
  BY DEF Tag
<1>2. TravelInv'
  BY <1>1, ReadingInv DEF StoryInv
<1>3. LaneStory'
  BY <1>1 DEF laneVars, StoryInv, LaneStory, GrowthOK, OwnOK, CoverOK, IsNewest
<1>4. ReaderOK(reader)'
  BY <1>1, ReaderMoves DEF StoryInv, laneVars
<1>5. /\ DOMAIN tags' = DOMAIN tags \cup {n}
      /\ tags'[n].cut = CutOf(reader.log) /\ tags'[n].seen = reader.state
      /\ \A m \in DOMAIN tags : tags'[m] = tags[m]
  BY <1>1 DEF With
<1>6. ASSUME NEW cut, NEW seen, NEW H, SeenAt(cut, seen, H)
      PROVE  SeenAt(cut, seen, H)'
  BY <1>1, <1>6 DEF SeenAt, laneVars
<1>7. ASSUME NEW m \in DOMAIN tags'
      PROVE  /\ tags'[m].seen \in StateSet
             /\ \E H \in SUBSET HeardSet : SeenAt(tags[m].cut, tags[m].seen, H)'
  <2>1. PICK cut, seen : cut = tags'[m].cut /\ seen = tags'[m].seen
    OBVIOUS
  <2>2. seen \in StateSet /\ \E H \in SUBSET HeardSet : SeenAt(cut, seen, H)
    <3>1. CASE m = n
      BY <1>5, <2>1, <3>1, SeenNow
    <3>2. CASE m # n
      BY <1>5, <2>1, <3>2 DEF StoryInv, TagsOK
    <3> QED
      BY <3>1, <3>2
  <2>3. PICK H \in SUBSET HeardSet : SeenAt(cut, seen, H)'
    BY <1>6, <2>2
  <2>4. SeenAt(tags[m].cut, tags[m].seen, H)'
    BY <2>1, <2>3 DEF SeenAt
  <2> QED
    BY <2>1, <2>2, <2>4
<1>8. TagsOK'
  BY <1>7 DEF TagsOK
<1> QED
  BY <1>2, <1>3, <1>4, <1>8 DEF StoryInv

LEMMA StoryNextInv == StoryInv /\ [TravelNext]_travelVars => StoryInv'
<1> SUFFICES ASSUME StoryInv, [TravelNext]_travelVars  PROVE StoryInv'
  OBVIOUS
<1>1. CASE TravelNext
  BY <1>1, FlushStory, CompactStory, GcStory, RestartStory, RefreshStory, TagStory
  DEF TravelNext
<1>2. CASE UNCHANGED travelVars
  <2>1. TravelInv'
    BY <1>2, TravelNextInv DEF StoryInv
  <2>2. LaneStory'
    BY <1>2 DEF travelVars, laneVars, StoryInv, LaneStory, GrowthOK, OwnOK, CoverOK, IsNewest
  <2>3. ReaderOK(reader)'
    BY <1>2, ReaderMoves DEF StoryInv, travelVars, laneVars
  <2>4. TagsOK'
    BY <1>2, TagsKept DEF StoryInv, travelVars, laneVars
  <2> QED
    BY <2>1, <2>2, <2>3, <2>4 DEF StoryInv
<1> QED
  BY <1>1, <1>2

\* Commits, what is left of them, what a reader has read of them and what its
\* checkpoints stand for keep together.
THEOREM StoryAlways == TravelSpec => []StoryInv
BY InitStory, StoryNextInv, PTL DEF TravelSpec

\* Of an epoch that gc() has not been through, what is replayed up to a commit is
\* the lane as that commit left it.
LEMMA CutReplays ==
    ASSUME TravelInv, NEW a \in Agent, CoverOK(a), NEW p \in DOMAIN past[a],
           <<a, p[1]>> \notin collected
    PROVE  /\ ChainAt(a, p) # {} /\ ChainAt(a, p) \subseteq DOMAIN lanes[a]
           /\ LaneReplay(Contents(a, ChainAt(a, p))) = past[a][p]
<1>0. p \in Nat \X Nat
  BY DEF TravelInv, PastOK, CommitsOK
<1>1. PICK e \in Nat, until \in Nat : p = <<e, until>>
  BY <1>0
<1> DEFINE K == {k \in DOMAIN lanes[a] : k.epoch = e}
           B == {k \in K : k.hi <= until}
           chain == ChainAt(a, p)
<1>2. K \in SUBSET Key /\ \A k \in K : k.epoch = e
  BY DEF TravelInv, ShapeInv, LanesOK
<1>3. chain = ChainOf(B)
  <2>1. chain = BuildChain(K, until)
    BY <1>1 DEF ChainAt
  <2> HIDE DEF K, chain
  <2> QED
    BY <1>2, <2>1, GreedyIsClosed DEF ChainOf
<1>4. /\ B \in SUBSET Key /\ B \subseteq DOMAIN lanes[a]
      /\ (\A k \in B : k.epoch = e) /\ (\A k \in B : k.hi <= until)
  BY <1>2
<1>5. ASSUME NEW s \in 0..until  PROVE Segment(e, s) \in B
  <2>1. <<e, s>> \in DOMAIN past[a]
    BY <1>1 DEF TravelInv, PastOK, CommitsOK
  <2>2. Segment(e, s) \in DOMAIN lanes[a]
    BY <1>1, <2>1 DEF CoverOK
  <2> QED
    BY <2>2 DEF Segment
<1> HIDE DEF K, B, chain
<1>6. PICK w \in B, n \in Nat : /\ IsHead(B, w) /\ w.hi + n = until
                                /\ SegmentsFrom(e, w.hi, n) \subseteq B
                                /\ ChainOf(B) = {w} \cup SegmentsFrom(e, w.hi, n)
  BY <1>4, <1>5, ChainReaches
<1>7. LaneReplay(Contents(a, {w} \cup SegmentsFrom(e, w.hi, n))) = past[a][<<e, until>>]
  BY <1>4, <1>6, ChainReplay DEF TravelInv
<1>8. chain # {} /\ chain \subseteq DOMAIN lanes[a]
  BY <1>3, <1>4, <1>6
<1>9. LaneReplay(Contents(a, chain)) = past[a][p]
  BY <1>1, <1>3, <1>6, <1>7
<1> QED
  BY <1>8, <1>9 DEF chain

\* What was heard of a lane.
Of(H, a) == {r \in RecordSet : <<r, a>> \in H}

LEMMA ReplaysOffer ==
    ASSUME NEW G \in SUBSET HeardSet, NEW H \in SUBSET HeardSet,
           \A a \in Agent : LaneReplay(Of(G, a)) = LaneReplay(Of(H, a))
    PROVE  /\ Forgotten(G) \subseteq Forgotten(H)
           /\ \A f : f \notin Forgotten(G) => Origins(G, f) \subseteq Origins(H, f)
<1>1. ASSUME NEW g \in G
      PROVE  /\ g = <<g[1], g[2]>> /\ g[1] \in RecordSet /\ g[2] \in Agent
             /\ g[1] \in Of(G, g[2])
  BY DEF HeardSet, Of
<1>2. ASSUME NEW g \in G, g[1] \in LaneReplay(Of(G, g[2]))  PROVE g \in H
  BY <1>1, <1>2 DEF LaneReplay, Of
<1>3. ASSUME NEW g \in G, g[1].op = "forget"  PROVE g[1].frag \in Forgotten(H)
  <2>1. g \in H
    BY <1>1, <1>2, <1>3 DEF LaneReplay
  <2> QED
    BY <1>3, <2>1 DEF Forgotten
<1>4. ASSUME NEW f, f \notin Forgotten(G), NEW o \in Origins(G, f)
      PROVE  o \in Origins(H, f)
  <2>1. PICK g \in G : g[1].op = "put" /\ g[1].frag = f /\ o = <<g[1].at, g[2]>>
    BY InOrigins
  <2>2. ForgetRecord(f) \notin Of(G, g[2])
    <3>1. SUFFICES ASSUME ForgetRecord(f) \in Of(G, g[2])  PROVE f \in Forgotten(G)
      BY <1>4
    <3>2. PICK h \in G : h = <<ForgetRecord(f), g[2]>>
      BY <3>1 DEF Of
    <3>3. h[1].op = "forget" /\ h[1].frag = f
      BY <3>2 DEF ForgetRecord
    <3> QED
      BY <3>3 DEF Forgotten
  <2>3. g[1] \in LaneReplay(Of(G, g[2]))
    BY <1>1, <2>1, <2>2 DEF LaneReplay
  <2>4. g \in H
    BY <1>2, <2>3
  <2> QED
    BY <2>1, <2>4, InOrigins
<1>5. Forgotten(G) \subseteq Forgotten(H)
  BY <1>3 DEF Forgotten
<1> QED
  BY <1>4, <1>5

\* What was heard of the lanes counts by what it replays to: two who heard lanes
\* that replay to the same have the same state.
LEMMA MergeOfReplays ==
    ASSUME NEW G \in SUBSET HeardSet, NEW H \in SUBSET HeardSet,
           \A a \in Agent : LaneReplay(Of(G, a)) = LaneReplay(Of(H, a)),
           NEW s, IsMerge(s, H)
    PROVE  IsMerge(s, G)
<1>1. Forgotten(G) = Forgotten(H)
  BY ReplaysOffer
<1>2. /\ \A f : f \notin Forgotten(G) => Origins(G, f) \subseteq Origins(H, f)
      /\ \A f : f \notin Forgotten(H) => Origins(H, f) \subseteq Origins(G, f)
  BY ReplaysOffer
<1>3. ASSUME NEW f, f \notin Forgotten(H)  PROVE Origins(G, f) = Origins(H, f)
  BY <1>1, <1>2, <1>3
<1> QED
  BY <1>1, <1>3 DEF IsMerge

\* "What did the team know then?": a checkpoint of lanes that gc() has not been
\* through replays what its author knew, through the compactions, restarts and
\* flushes since, and though the author read those lanes in pieces.
THEOREM CheckpointsHold == TravelSpec => []CheckpointHolds
<1>1. StoryInv => CheckpointHolds
  <2> SUFFICES ASSUME StoryInv, NEW n \in DOMAIN tags,
                      \A a \in DOMAIN tags[n].cut : <<a, tags[n].cut[a][1]>> \notin collected
               PROVE  ~Broken(tags[n].cut) /\ StateAt(tags[n].cut) = tags[n].seen
    BY DEF CheckpointHolds
  <2>1. PICK cut, seen : cut = tags[n].cut /\ seen = tags[n].seen
    OBVIOUS
  <2>2. PICK H \in SUBSET HeardSet : SeenAt(cut, seen, H)
    BY <2>1 DEF StoryInv, TagsOK
  <2>3. seen \in StateSet
    BY <2>1 DEF StoryInv, TagsOK
  <2>4. /\ IsMerge(seen, H) /\ DOMAIN cut \subseteq Agent
        /\ \A h \in H : h[2] \in DOMAIN cut
        /\ \A a \in DOMAIN cut : LaneReplay(Of(H, a)) = past[a][cut[a]]
    BY <2>2 DEF SeenAt, Of
  <2>5. ASSUME NEW a \in DOMAIN cut
        PROVE  /\ ChainAt(a, cut[a]) # {} /\ ChainAt(a, cut[a]) \subseteq DOMAIN lanes[a]
               /\ LaneReplay(Contents(a, ChainAt(a, cut[a]))) = past[a][cut[a]]
    <3>1. a \in Agent /\ cut[a] \in DOMAIN past[a] /\ <<a, cut[a][1]>> \notin collected
      BY <2>1, <2>2 DEF SeenAt
    <3>2. CoverOK(a) /\ TravelInv
      BY <3>1 DEF StoryInv, LaneStory
    <3> QED
      BY <3>1, <3>2, CutReplays
  <2> DEFINE News == [a \in DOMAIN cut |-> Contents(a, ChainAt(a, cut[a])) \X {a}]
             G == UNION {News[a] : a \in DOMAIN cut}
  <2>6. ASSUME NEW a \in DOMAIN cut
        PROVE  /\ News[a] = Contents(a, ChainAt(a, cut[a])) \X {a}
               /\ Contents(a, ChainAt(a, cut[a])) \subseteq RecordSet
               /\ News[a] \subseteq HeardSet /\ IsFiniteSet(News[a])
    BY <2>4, <2>5, ContentsOK DEF StoryInv, TravelInv, ShapeInv
  <2>7. G = UNION {Contents(a, ChainAt(a, cut[a])) \X {a} : a \in DOMAIN cut}
    BY <2>6
  <2>8. News = [a \in DOMAIN cut |-> News[a]]
    OBVIOUS
  <2> HIDE DEF News
  <2>9. G \in SUBSET HeardSet
    BY <2>6
  <2>10. IsFiniteSet(G)
    <3>1. IsFiniteSet(DOMAIN cut)
      BY <2>4, TimeTravelAssumption, FS_Subset
    <3>2. IsFiniteSet({News[a] : a \in DOMAIN cut})
      BY <2>8, <3>1, FiniteImage
    <3> QED
      BY <2>6, <3>2, FS_UNION
  <2>11. ASSUME NEW a \in Agent  PROVE LaneReplay(Of(G, a)) = LaneReplay(Of(H, a))
    <3>1. CASE a \in DOMAIN cut
      <4>1. Of(G, a) = Contents(a, ChainAt(a, cut[a]))
        BY <2>6, <3>1 DEF Of
      <4> QED
        BY <2>4, <2>5, <3>1, <4>1
    <3>2. CASE a \notin DOMAIN cut
      <4>1. Of(G, a) = {}
        BY <2>6, <3>2 DEF Of
      <4>2. Of(H, a) = {}
        <5>1. ASSUME NEW r, <<r, a>> \in H  PROVE FALSE
          BY <2>4, <3>2, <5>1
        <5> QED
          BY <5>1 DEF Of
      <4> QED
        BY <4>1, <4>2
    <3> QED
      BY <3>1, <3>2
  <2> HIDE DEF G
  <2>12. IsMerge(seen, G)
    BY <2>4, <2>9, <2>11, MergeOfReplays
  <2>13. ApplyAll(Blank, G) \in StateSet /\ IsMerge(ApplyAll(Blank, G), {} \cup G)
    BY <2>9, <2>10, BlankIsMerge, ApplyAllMerges
  <2>14. {} \cup G = G
    OBVIOUS
  <2>15. ApplyAll(Blank, G) = seen
    BY <2>3, <2>9, <2>12, <2>13, <2>14, SameLanesSameState
  <2>16. StateAt(cut) = seen
    BY <2>7, <2>15 DEF StateAt
  <2>17. ~Broken(cut)
    BY <2>5 DEF Broken
  <2> QED
    BY <2>1, <2>16, <2>17
<1> QED
  BY <1>1, StoryAlways, PTL
=============================================================================
