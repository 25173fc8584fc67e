----------------------------- MODULE LaneChain -----------------------------
(***************************************************************************)
(* Which objects of a lane a reader replays, and which ones gc() deletes:  *)
(* build_chain, select_chain and Space.gc of space.py, over sets of keys.  *)
(*                                                                         *)
(* A key is <lane>/e<epoch>/<seq> for a segment and <lane>/e<epoch>/       *)
(* L1-<0>-<hi> for a compaction.  A segment spans [seq, seq]; compact()    *)
(* gives every L1 object the span [0, hi] (space.py:799), so a chain is at *)
(* most one L1 object followed by segments.                                *)
(***************************************************************************)
EXTENDS Naturals, FiniteSets

Segment(e, s) == [level |-> 0, epoch |-> e, hi |-> s]
Compaction(e, hi) == [level |-> 1, epoch |-> e, hi |-> hi]

Key == [level : {0, 1}, epoch : Nat, hi : Nat]

\* The objects of epoch e whose span starts at zero.
Heads(K, e) == {k \in K : k.epoch = e /\ (k.level = 1 \/ k.hi = 0)}

\* The widest of them, an L1 object before a segment of the same span.
IsHead(K, k) ==
    /\ k \in Heads(K, k.epoch)
    /\ \A j \in Heads(K, k.epoch) :
          j.hi < k.hi \/ (j.hi = k.hi /\ j.level <= k.level)

\* k is reached from the head by segments without a gap.
Follows(K, k) ==
    /\ k.level = 0
    /\ \E head \in K :
          /\ IsHead(K, head) /\ head.epoch = k.epoch /\ head.hi < k.hi
          /\ \A s \in (head.hi + 1)..k.hi : Segment(k.epoch, s) \in K

\* build_chain, for all epochs at once.
InChain(K, k) == k \in K /\ (IsHead(K, k) \/ Follows(K, k))

SelectChain_OldestEpoch(K, hint) ==
    {k \in K : /\ k.epoch < hint
               /\ InChain(K, k)
               /\ \A j \in K : j.epoch < k.epoch => Heads(K, j.epoch) = {}}

\* select_chain: the chain of the newest epoch below hint that has one.
SelectChain(K, hint) ==
    {k \in K : /\ k.epoch < hint
               /\ InChain(K, k)
               /\ \A j \in K : k.epoch < j.epoch /\ j.epoch < hint
                                  => Heads(K, j.epoch) = {}}

\* The sequence numbers an object stands for (parse_segment).
Span(k) == (IF k.level = 1 THEN 0 ELSE k.hi)..k.hi

SpansCover_EndOnly(K, k) == \E j \in K : k.hi \in Span(j)

\* spans_cover: the keys in K jointly cover the span of k.
SpansCover(K, k) == Span(k) \subseteq UNION {Span(j) : j \in K}

\* Of the chain that was listed, what _fetch() yields when it finds the
\* objects in `found`: everything before the first hole.
BeforeHole(chain, found) ==
    {k \in chain : \A j \in chain : j.hi <= k.hi => j \in found}

Newer(K, e) == {j.epoch : j \in {i \in K : i.epoch > e}}

Doomed_NewestToo(K, keep) ==
    {k \in K : Cardinality(Newer(K, k.epoch)) >= keep - 1}

\* What gc(keep_epochs) deletes: in the newest `keep` epochs the one-segment
\* objects that a wider L1 covers, and everything in the epochs before them.
Doomed(K, keep) ==
    {k \in K :
        IF Cardinality(Newer(K, k.epoch)) < keep
        THEN /\ k.level = 0 \/ k.hi = 0
             /\ \E w \in K : /\ w.epoch = k.epoch
                             /\ w.level = 1 /\ w.hi > 0 /\ k.hi <= w.hi
        ELSE TRUE}
=============================================================================
