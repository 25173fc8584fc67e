---------------------------- MODULE MergeProofs ----------------------------
(***************************************************************************)
(* SharedState.apply computes the merge of what was heard, whatever the    *)
(* fragments, agents, times and orders; so states depend on sets alone.    *)
(***************************************************************************)
EXTENDS Merge, TLAPS, FiniteSetTheorems, WellFoundedInduction

HeardSet == RecordSet \X Agent

\* What is offered for a fragment, element by element.
LEMMA InOrigins ==
    ASSUME NEW H \in SUBSET HeardSet, NEW f, NEW o
    PROVE  o \in Origins(H, f) <=>
              \E h \in H : h[1].op = "put" /\ h[1].frag = f /\ o = <<h[1].at, h[2]>>
BY DEF Origins

LEMMA OriginsAreOrigins ==
    ASSUME NEW H \in SUBSET HeardSet, NEW f
    PROVE  Origins(H, f) \subseteq Nat \X Agent
<1> SUFFICES ASSUME NEW o \in Origins(H, f) PROVE o \in Nat \X Agent
  OBVIOUS
<1>1. PICK h \in H : o = <<h[1].at, h[2]>>
  BY InOrigins
<1>2. h[1] \in RecordSet /\ h[2] \in Agent
  BY DEF HeardSet
<1> QED
  BY <1>1, <1>2 DEF RecordSet

LEMMA OriginsOfMore ==
    ASSUME NEW H \in SUBSET HeardSet, NEW r \in RecordSet, NEW a \in Agent, NEW f
    PROVE  Origins(H \cup {<<r, a>>}, f) =
              IF r.op = "put" /\ r.frag = f THEN Origins(H, f) \cup {<<r.at, a>>}
              ELSE Origins(H, f)
<1>1. H \cup {<<r, a>>} \in SUBSET HeardSet
  BY DEF HeardSet
<1>2. ASSUME NEW o
      PROVE  o \in Origins(H \cup {<<r, a>>}, f) <=>
                \/ o \in Origins(H, f)
                \/ r.op = "put" /\ r.frag = f /\ o = <<r.at, a>>
  <2>1. <<r, a>>[1] = r /\ <<r, a>>[2] = a
    OBVIOUS
  <2>2. o \in Origins(H \cup {<<r, a>>}, f) <=>
           \E h \in H \cup {<<r, a>>} :
               h[1].op = "put" /\ h[1].frag = f /\ o = <<h[1].at, h[2]>>
    BY <1>1, InOrigins
  <2>3. o \in Origins(H, f) <=>
           \E h \in H : h[1].op = "put" /\ h[1].frag = f /\ o = <<h[1].at, h[2]>>
    BY InOrigins
  <2> QED
    BY <2>1, <2>2, <2>3, Zenon
<1> QED
  BY <1>2

LEMMA ForgottenOfMore ==
    ASSUME NEW H \in SUBSET HeardSet, NEW r \in RecordSet, NEW a \in Agent
    PROVE  Forgotten(H \cup {<<r, a>>}) =
              IF r.op = "forget" THEN Forgotten(H) \cup {r.frag} ELSE Forgotten(H)
<1>1. ASSUME NEW f
      PROVE  f \in Forgotten(H \cup {<<r, a>>}) <=>
                f \in Forgotten(H) \/ (r.op = "forget" /\ f = r.frag)
  <2>1. <<r, a>>[1] = r
    OBVIOUS
  <2>2. f \in Forgotten(H \cup {<<r, a>>}) <=>
           \E h \in H \cup {<<r, a>>} : h[1].op = "forget" /\ f = h[1].frag
    BY DEF Forgotten
  <2>3. f \in Forgotten(H) <=> \E h \in H : h[1].op = "forget" /\ f = h[1].frag
    BY DEF Forgotten
  <2> QED
    BY <2>1, <2>2, <2>3, Zenon
<1> QED
  BY <1>1

\* Tuples (created_at, author) are totally ordered.
LEMMA EarlierIsOrder ==
    ASSUME NEW o \in Nat \X Agent, NEW p \in Nat \X Agent, NEW q \in Nat \X Agent
    PROVE  /\ ~Earlier(o, o)
           /\ Earlier(o, p) => ~Earlier(p, o)
           /\ Earlier(o, p) /\ Earlier(p, q) => Earlier(o, q)
           /\ ~Earlier(o, p) /\ ~Earlier(p, o) => o = p
<1>1. /\ o[1] \in Nat /\ p[1] \in Nat /\ q[1] \in Nat
      /\ o[2] \in Nat /\ p[2] \in Nat /\ q[2] \in Nat
  BY MergeAssumption
<1>2. o = <<o[1], o[2]>> /\ p = <<p[1], p[2]>>
  OBVIOUS
<1>3. ~Earlier(o, p) /\ ~Earlier(p, o) => o[1] = p[1] /\ o[2] = p[2]
  BY <1>1 DEF Earlier
<1>4. /\ ~Earlier(o, o)
      /\ Earlier(o, p) => ~Earlier(p, o)
      /\ Earlier(o, p) /\ Earlier(p, q) => Earlier(o, q)
  BY <1>1 DEF Earlier
<1> QED
  BY <1>2, <1>3, <1>4

\* What apply() makes of the state, field by field.
LEMMA ApplyFields ==
    ASSUME NEW s \in StateSet, NEW r \in RecordSet, NEW a \in Agent
    PROVE  LET t == Apply(s, r, a)
           IN  /\ t \in StateSet
               /\ t.tombstones = IF r.op = "forget" THEN s.tombstones \cup {r.frag}
                                 ELSE s.tombstones
               /\ \A f \in Fragment : f # r.frag =>
                     t.authors[f] = s.authors[f] /\ t.origins[f] = s.origins[f]
               /\ r.op = "forget" =>
                     t.authors[r.frag] = {} /\ t.origins[r.frag] = None
               /\ r.op = "put" /\ r.frag \in s.tombstones => t = s
               /\ r.op = "put" /\ r.frag \notin s.tombstones =>
                     /\ t.authors[r.frag] = s.authors[r.frag] \cup {a}
                     /\ t.origins[r.frag] =
                           IF s.origins[r.frag] = None \/ Earlier(<<r.at, a>>, s.origins[r.frag])
                           THEN <<r.at, a>> ELSE s.origins[r.frag]
<1>1. r.op \in {"put", "forget"} /\ r.frag \in Fragment /\ r.at \in Nat
  BY DEF RecordSet
<1>2. CASE r.op = "forget"
  BY <1>1, <1>2 DEF Apply, ApplyForget, StateSet
<1>3. CASE r.op = "put" /\ r.frag \in s.tombstones
  BY <1>1, <1>3 DEF Apply
<1>4. CASE r.op = "put" /\ r.frag \notin s.tombstones
  BY <1>1, <1>4 DEF Apply, ApplyPut, StateSet
<1> QED
  BY <1>1, <1>2, <1>3, <1>4

\* The heart of it: a Space that has heard H and applies one record more has
\* heard just that more, be it new, old or a repeat.
THEOREM ApplyMerges ==
    ASSUME NEW H \in SUBSET HeardSet, NEW s \in StateSet, IsMerge(s, H),
           NEW r \in RecordSet, NEW a \in Agent
    PROVE  IsMerge(Apply(s, r, a), H \cup {<<r, a>>})
<1> DEFINE t == Apply(s, r, a)
           G == H \cup {<<r, a>>}
           new == <<r.at, a>>
<1>1. r.op = "put" \/ r.op = "forget"
  BY DEF RecordSet
<1>2. r.frag \in Fragment /\ r.at \in Nat
  BY DEF RecordSet
<1>3. /\ t.tombstones = IF r.op = "forget" THEN s.tombstones \cup {r.frag}
                         ELSE s.tombstones
      /\ \A f \in Fragment : f # r.frag =>
            t.authors[f] = s.authors[f] /\ t.origins[f] = s.origins[f]
      /\ r.op = "forget" => t.authors[r.frag] = {} /\ t.origins[r.frag] = None
      /\ r.op = "put" /\ r.frag \in s.tombstones => t = s
      /\ r.op = "put" /\ r.frag \notin s.tombstones =>
            /\ t.authors[r.frag] = s.authors[r.frag] \cup {a}
            /\ t.origins[r.frag] =
                  IF s.origins[r.frag] = None \/ Earlier(new, s.origins[r.frag])
                  THEN new ELSE s.origins[r.frag]
  BY ApplyFields
<1>4. \A f : Origins(G, f) = IF r.op = "put" /\ r.frag = f
                              THEN Origins(H, f) \cup {new} ELSE Origins(H, f)
  BY OriginsOfMore
<1>5. Forgotten(G) = IF r.op = "forget" THEN Forgotten(H) \cup {r.frag} ELSE Forgotten(H)
  BY ForgottenOfMore
<1>6. new \in Nat \X Agent /\ new[2] = a /\ new # None
  BY <1>2 DEF None
<1> HIDE DEF t, G, new
<1>7. s.tombstones = Forgotten(H) /\ t.tombstones = Forgotten(G)
  BY <1>3, <1>5 DEF IsMerge
<1>8. ASSUME NEW f \in Fragment
      PROVE  IF f \in t.tombstones \/ Origins(G, f) = {}
             THEN t.authors[f] = {} /\ t.origins[f] = None
             ELSE /\ t.authors[f] = {o[2] : o \in Origins(G, f)}
                  /\ t.origins[f] \in Origins(G, f)
                  /\ \A o \in Origins(G, f) : ~Earlier(o, t.origins[f])
  <2>1. CASE f # r.frag
    <3>1. Origins(G, f) = Origins(H, f)
      BY <1>4, <2>1
    <3>2. f \in t.tombstones <=> f \in s.tombstones
      BY <1>3, <2>1
    <3>3. t.authors[f] = s.authors[f] /\ t.origins[f] = s.origins[f]
      BY <1>3, <2>1
    <3> QED
      BY <3>1, <3>2, <3>3 DEF IsMerge
  <2>2. CASE f = r.frag /\ r.op = "forget"
    BY <1>3, <2>2
  <2>3. CASE f = r.frag /\ r.op = "put" /\ f \in s.tombstones
    <3>1. s.authors[f] = {} /\ s.origins[f] = None
      BY <2>3 DEF IsMerge
    <3> QED
      BY <1>3, <2>3, <3>1
  <2>4. CASE f = r.frag /\ r.op = "put" /\ f \notin s.tombstones
    <3>1. Origins(G, f) = Origins(H, f) \cup {new}
      BY <1>4, <2>4
    <3>2. f \notin t.tombstones
      BY <1>3, <2>4
    <3>3. t.authors[f] = s.authors[f] \cup {a}
      BY <1>3, <2>4
    <3>4. t.origins[f] = IF s.origins[f] = None \/ Earlier(new, s.origins[f])
                         THEN new ELSE s.origins[f]
      BY <1>3, <2>4
    <3>5. Origins(H, f) \subseteq Nat \X Agent
      BY OriginsAreOrigins
    <3>6. CASE Origins(H, f) = {}
      <4>1. s.authors[f] = {} /\ s.origins[f] = None
        BY <3>6 DEF IsMerge
      <4>2. Origins(G, f) = {new} /\ t.origins[f] = new /\ t.authors[f] = {a}
        BY <3>1, <3>3, <3>4, <3>6, <4>1
      <4> QED
        BY <1>6, <3>2, <4>2, EarlierIsOrder
    <3>7. CASE Origins(H, f) # {}
      <4>1. /\ s.authors[f] = {o[2] : o \in Origins(H, f)}
            /\ s.origins[f] \in Origins(H, f)
            /\ \A o \in Origins(H, f) : ~Earlier(o, s.origins[f])
        BY <2>4, <3>7 DEF IsMerge
      <4>2. t.authors[f] = {o[2] : o \in Origins(G, f)}
        BY <1>6, <3>1, <3>3, <4>1
      <4>3. s.origins[f] # None
        BY <3>5, <4>1 DEF None
      <4>4. t.origins[f] \in Origins(G, f)
        BY <3>1, <3>4, <4>1
      <4>5. ASSUME NEW o \in Origins(G, f)
            PROVE  ~Earlier(o, t.origins[f])
        <5>1. /\ o \in Nat \X Agent /\ s.origins[f] \in Nat \X Agent
              /\ o = new \/ ~Earlier(o, s.origins[f])
          BY <1>6, <3>1, <3>5, <4>1
        <5>2. CASE Earlier(new, s.origins[f])
          BY <1>6, <3>4, <5>1, <5>2, EarlierIsOrder
        <5>3. CASE ~Earlier(new, s.origins[f])
          BY <3>4, <4>3, <5>1, <5>3
        <5> QED
          BY <5>2, <5>3
      <4> QED
        BY <3>1, <3>2, <4>2, <4>4, <4>5
    <3> QED
      BY <3>6, <3>7
  <2> QED
    BY <1>1, <2>1, <2>2, <2>3, <2>4
<1> QED
  BY <1>7, <1>8 DEF IsMerge, t, G

LEMMA BlankIsMerge == Blank \in StateSet /\ IsMerge(Blank, {})
<1>1. Forgotten({}) = {} /\ \A f : Origins({}, f) = {}
  BY DEF Forgotten, Origins
<1> QED
  BY <1>1 DEF Blank, StateSet, IsMerge, None

\* "Two agents that have seen the same lanes therefore hold identical state"
\* (space.py:238).
THEOREM SameLanesSameState ==
    ASSUME NEW H \in SUBSET HeardSet, NEW s \in StateSet, NEW t \in StateSet,
           IsMerge(s, H), IsMerge(t, H)
    PROVE  s = t
<1>1. s.tombstones = t.tombstones
  BY DEF IsMerge
<1>2. ASSUME NEW f \in Fragment
      PROVE  s.authors[f] = t.authors[f] /\ s.origins[f] = t.origins[f]
  <2>1. CASE f \in s.tombstones \/ Origins(H, f) = {}
    BY <1>1, <2>1 DEF IsMerge
  <2>2. CASE ~(f \in s.tombstones \/ Origins(H, f) = {})
    <3>1. s.authors[f] = t.authors[f]
      BY <1>1, <2>2 DEF IsMerge
    <3>2. /\ s.origins[f] \in Origins(H, f) /\ t.origins[f] \in Origins(H, f)
          /\ ~Earlier(t.origins[f], s.origins[f]) /\ ~Earlier(s.origins[f], t.origins[f])
      BY <1>1, <2>2 DEF IsMerge
    <3> QED
      BY <3>1, <3>2, OriginsAreOrigins, EarlierIsOrder
  <2> QED
    BY <2>1, <2>2
<1>3. s.authors = t.authors /\ s.origins = t.origins
  BY <1>2 DEF StateSet
<1> QED
  BY <1>1, <1>3 DEF StateSet

\* "apply is deliberately commutative and idempotent" (space.py:235), in every
\* state that a Space can be in: one it got by applying what it has heard.
THEOREM ApplyCommutes ==
    ASSUME NEW H \in SUBSET HeardSet, NEW s \in StateSet, IsMerge(s, H),
           NEW r \in RecordSet, NEW a \in Agent, NEW q \in RecordSet, NEW b \in Agent
    PROVE  /\ Apply(Apply(s, r, a), q, b) = Apply(Apply(s, q, b), r, a)
           /\ Apply(Apply(s, r, a), r, a) = Apply(s, r, a)
<1> DEFINE x == <<r, a>>
           y == <<q, b>>
<1>1. /\ H \cup {x} \in SUBSET HeardSet /\ H \cup {y} \in SUBSET HeardSet
      /\ (H \cup {x}) \cup {y} \in SUBSET HeardSet
  BY DEF HeardSet
<1>2. /\ Apply(s, r, a) \in StateSet /\ IsMerge(Apply(s, r, a), H \cup {x})
      /\ Apply(s, q, b) \in StateSet /\ IsMerge(Apply(s, q, b), H \cup {y})
  BY ApplyMerges, ApplyFields
<1>3. /\ Apply(Apply(s, r, a), q, b) \in StateSet
      /\ IsMerge(Apply(Apply(s, r, a), q, b), (H \cup {x}) \cup {y})
  BY <1>1, <1>2, ApplyMerges, ApplyFields
<1>4. /\ Apply(Apply(s, q, b), r, a) \in StateSet
      /\ IsMerge(Apply(Apply(s, q, b), r, a), (H \cup {y}) \cup {x})
  BY <1>1, <1>2, ApplyMerges, ApplyFields
<1>5. /\ Apply(Apply(s, r, a), r, a) \in StateSet
      /\ IsMerge(Apply(Apply(s, r, a), r, a), (H \cup {x}) \cup {x})
  BY <1>1, <1>2, ApplyMerges, ApplyFields
<1>6. (H \cup {y}) \cup {x} = (H \cup {x}) \cup {y} /\ (H \cup {x}) \cup {x} = H \cup {x}
  OBVIOUS
<1> HIDE DEF x, y
<1> QED
  BY <1>1, <1>2, <1>3, <1>4, <1>5, <1>6, SameLanesSameState

-----------------------------------------------------------------------------
(***************************************************************************)
(* Induction, as a fact about sets of numbers: it turns on what the        *)
(* library knows of well-founded orders, and proves what recursive         *)
(* functions compute.                                                      *)
(***************************************************************************)

LEMMA Induction ==
    ASSUME NEW T, 0 \in T, \A n \in Nat : n \in T => n + 1 \in T
    PROVE  Nat \subseteq T
<1> DEFINE Less == OpToRel(<, Nat)
           Rest == Nat \ T
<1> SUFFICES ASSUME Rest # {}  PROVE FALSE
  OBVIOUS
<1>1. IsWellFoundedOn(Less, Nat)
  BY NatLessThanWellFounded
<1>2. PICK n \in Rest : \A m \in Rest : <<m, n>> \notin Less
  <2> HIDE DEF Less, Rest
  <2>1. Rest \subseteq Nat
    BY DEF Rest
  <2> QED
    BY <1>1, <2>1, WFMin
<1>3. n \in Nat /\ n # 0 /\ n - 1 \in Nat /\ n - 1 < n
  OBVIOUS
<1>4. n - 1 \notin Rest
  BY <1>2, <1>3 DEF OpToRel
<1> QED
  BY <1>3, <1>4

\* One step of the fold in ApplyAll.
FoldStep(s, g, S) ==
    IF S = {} THEN s
    ELSE LET h == CHOOSE x \in S : TRUE IN Apply(g[S \ {h}], h[1], h[2])

\* The fold of ApplyAll is a recursive function over the subsets of H.
LEMMA FoldOfApply ==
    ASSUME NEW s, NEW H
    PROVE  ApplyAll(s, H) = (CHOOSE g : g = [S \in SUBSET H |-> FoldStep(s, g, S)])[H]
BY DEF ApplyAll, FoldSet, MapThenFoldSet, FoldStep

\* There is one: by induction on the size of the subsets.
LEMMA FoldExists ==
    ASSUME NEW s, NEW H, IsFiniteSet(H)
    PROVE  \E g : g = [S \in SUBSET H |-> FoldStep(s, g, S)]
<1> DEFINE Small(n) == {S \in SUBSET H : Cardinality(S) <= n}
           T == {n \in Nat : \E g : g = [S \in Small(n) |-> FoldStep(s, g, S)]}
<1>0. \A S \in SUBSET H : IsFiniteSet(S) /\ Cardinality(S) \in Nat
  BY FS_Subset, FS_CardinalityType
<1>1. 0 \in T
  <2>1. Small(0) = {{}}
    BY <1>0, FS_EmptySet
  <2> DEFINE g == [S \in Small(0) |-> s]
  <2>2. g = [S \in Small(0) |-> FoldStep(s, g, S)]
    BY <2>1 DEF FoldStep
  <2> QED
    BY <2>2
<1>2. ASSUME NEW n \in Nat, n \in T  PROVE n + 1 \in T
  <2>1. PICK g : g = [S \in Small(n) |-> FoldStep(s, g, S)]
    BY <1>2
  <2> DEFINE k == [S \in Small(n + 1) |-> FoldStep(s, g, S)]
  <2>2. Small(n) \subseteq Small(n + 1)
    BY <1>0
  <2>3. \A S \in Small(n) : k[S] = g[S]
    BY <2>1, <2>2
  <2>4. ASSUME NEW S \in Small(n + 1)  PROVE FoldStep(s, g, S) = FoldStep(s, k, S)
    <3>1. CASE S = {}
      BY <3>1 DEF FoldStep
    <3>2. CASE S # {}
      <4> DEFINE h == CHOOSE x \in S : TRUE
      <4>1. h \in S
        BY <3>2
      <4>2. Cardinality(S \ {h}) = Cardinality(S) - 1
        BY <1>0, <4>1, FS_RemoveElement
      <4>3. S \ {h} \in Small(n)
        BY <1>0, <4>2
      <4> QED
        BY <2>3, <3>2, <4>3 DEF FoldStep
    <3> QED
      BY <3>1, <3>2
  <2>5. k = [S \in Small(n + 1) |-> FoldStep(s, k, S)]
    BY <2>4
  <2> HIDE DEF k, Small
  <2>6. \E f : f = [S \in Small(n + 1) |-> FoldStep(s, f, S)]
    BY <2>5, Zenon
  <2> QED
    BY <2>6
<1>3. Cardinality(H) \in T
  <2> HIDE DEF T
  <2> QED
    BY <1>0, <1>1, <1>2, Induction
<1>4. Small(Cardinality(H)) = SUBSET H
  BY <1>0, FS_Subset
<1> QED
  BY <1>3, <1>4

\* Applying a finite set of records, in whatever order the fold takes them, is
\* to have heard them.  ApplyMerges is the step of the induction on their number.
THEOREM ApplyAllMerges ==
    ASSUME NEW G \in SUBSET HeardSet, NEW s \in StateSet, IsMerge(s, G),
           NEW H \in SUBSET HeardSet, IsFiniteSet(H)
    PROVE  ApplyAll(s, H) \in StateSet /\ IsMerge(ApplyAll(s, H), G \cup H)
<1> DEFINE g == CHOOSE f : f = [S \in SUBSET H |-> FoldStep(s, f, S)]
           Good(S) == g[S] \in StateSet /\ IsMerge(g[S], G \cup S)
           T == {n \in Nat : \A S \in SUBSET H : Cardinality(S) = n => Good(S)}
<1>0. \A S \in SUBSET H : IsFiniteSet(S) /\ Cardinality(S) \in Nat
  BY FS_Subset, FS_CardinalityType
<1>1. g = [S \in SUBSET H |-> FoldStep(s, g, S)] /\ ApplyAll(s, H) = g[H]
  BY FoldExists, FoldOfApply
<1> HIDE DEF g
<1>2. \A S \in SUBSET H : g[S] = FoldStep(s, g, S)
  BY <1>1
<1>3. 0 \in T
  <2>1. ASSUME NEW S \in SUBSET H, Cardinality(S) = 0  PROVE Good(S)
    <3>1. S = {}
      BY <1>0, <2>1, FS_EmptySet
    <3> QED
      BY <1>2, <3>1 DEF FoldStep
  <2> QED
    BY <2>1
<1>4. ASSUME NEW n \in Nat, n \in T  PROVE n + 1 \in T
  <2>1. ASSUME NEW S \in SUBSET H, Cardinality(S) = n + 1  PROVE Good(S)
    <3> DEFINE h == CHOOSE x \in S : TRUE
               R == S \ {h}
    <3>1. S # {}
      BY <2>1, FS_EmptySet
    <3>2. h \in S
      BY <3>1
    <3>3. g[S] = Apply(g[R], h[1], h[2])
      BY <1>2, <3>1 DEF FoldStep
    <3> HIDE DEF h
    <3>4. R \in SUBSET H /\ Cardinality(R) = n
      <4>1. Cardinality(R) = Cardinality(S) - 1
        BY <1>0, <3>2, FS_RemoveElement
      <4> QED
        BY <2>1, <4>1
    <3>5. Good(R)
      BY <1>4, <3>4
    <3>6. h[1] \in RecordSet /\ h[2] \in Agent /\ h = <<h[1], h[2]>>
      BY <3>2 DEF HeardSet
    <3>7. G \cup R \in SUBSET HeardSet /\ (G \cup R) \cup {h} = G \cup S
      BY <3>2, <3>4
    <3> HIDE DEF R
    <3>8. Apply(g[R], h[1], h[2]) \in StateSet
      BY <3>5, <3>6, ApplyFields
    <3>9. IsMerge(Apply(g[R], h[1], h[2]), (G \cup R) \cup {<<h[1], h[2]>>})
      BY <3>5, <3>6, <3>7, ApplyMerges
    <3> QED
      BY <3>3, <3>6, <3>7, <3>8, <3>9
  <2> QED
    BY <2>1
<1>5. Cardinality(H) \in T
  <2> HIDE DEF T
  <2> QED
    BY <1>0, <1>3, <1>4, Induction
<1> QED
  BY <1>0, <1>1, <1>5
=============================================================================
