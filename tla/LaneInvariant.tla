--------------------------- MODULE LaneInvariant ---------------------------
(***************************************************************************)
(* The inductive invariant behind AckedSurvives: why whatever a lane has   *)
(* acknowledged is never lost, provided that no renewal's reply is lost    *)
(* and gc() never lists the lane while a wake is reading it.               *)
(*                                                                         *)
(* The argument.  An epoch with a head -- an object whose span starts at   *)
(* zero -- is a lineage of its own: its first segment carries all that the *)
(* lane's earlier lineages acknowledged, because its writer listed them    *)
(* after its claim, and after a claim nothing is acknowledged under an     *)
(* earlier epoch.  So the newest lineage is complete, and that is the one  *)
(* a reader selects.  A lineage that is not the newest may be anything:    *)
(* gc() may have been through it, a late writer may have started it from   *)
(* a lane that gc() emptied.  Hence Superseded in nearly every clause.     *)
(***************************************************************************)
EXTENDS Lane

Objects == DOMAIN bucket

HeadKey(k) == k.level = 1 \/ k.hi = 0

\* A lineage newer than e exists.
Superseded(e) == \E k \in Objects : k.epoch > e /\ HeadKey(k)

EpochChain(e) == {k \in Objects : k.epoch = e /\ InChain(Objects, k)}

AckedUpTo(e) == {r \in Record : \E a \in acked : a[1] <= e /\ a[2] = r}

\* Awake with a claim: may write under epoch[h].
Up(h) == epoch[h] # 0 /\ phase[h] \in {"ready", "put", "compacting", "folded"}

\* With a claim, but nothing written under it yet.
Waking(h) == epoch[h] # 0 /\ phase[h] \in {"off", "claimed", "reading"}

\* Sequence number s of epoch e can be replayed, by itself or in an L1 object.
Present(e, s) ==
    \/ Segment(e, s) \in Objects
    \/ \E w \in Objects : w.epoch = e /\ w.level = 1 /\ s <= w.hi

-----------------------------------------------------------------------------
(* The inductive invariant, part by part.                                  *)

\* Epochs are fencing tokens, and only they appear in keys.
TokensInv ==
    /\ \A g \in issued : 1 <= g[1] /\ g[1] <= top
    /\ \A g1, g2 \in issued : g1[1] = g2[1] => g1[2] = g2[2]
    /\ \A h \in Handle : epoch[h] # 0 => <<epoch[h], h>> \in issued
    /\ \A k \in Objects : 1 <= k.epoch /\ k.epoch <= top
    /\ \A a \in acked : a[1] <= top
    /\ \A h \in Handle :
          phase[h] \in {"claimed", "reading", "put", "compacting", "folded"}
              => epoch[h] # 0
    /\ \A h \in Handle : phase[h] = "gone" => epoch[h] = 0

\* A lane that is waking has written nothing under its new epoch.
WakingInv(h) ==
    Waking(h) =>
        /\ \A k \in Objects : k.epoch # epoch[h]
        /\ own[h] = {} /\ nextSeq[h] = 0 /\ ~based[h]

\* What a wake has listed is all there and complete, and the writers of the
\* listed epoch, who may still overwrite it, know as much; or a newer lineage
\* has made all this of no consequence.
ReadingInv(h) ==
    phase[h] = "reading" =>
        \/ Superseded(epoch[h])
        \/ /\ plan[h] \subseteq Objects
           /\ \A k \in plan[h] : k.epoch < epoch[h]
           /\ Covers(Contents(plan[h]), AckedUpTo(epoch[h]))
           /\ \A g \in Handle : plan[h] \cap doomed[g] = {}
           /\ \A g \in Handle, k \in plan[h] :
                 Up(g) /\ epoch[g] = k.epoch
                     => Covers(own[g], AckedUpTo(epoch[h]))

\* What a writer has written and remembers.
WriterInv(h) ==
    Up(h) =>
        /\ based[h] <=> nextSeq[h] > 0
        /\ \A k \in Objects : k.epoch = epoch[h] =>
              IF k.level = 0 THEN k.hi <= nextSeq[h] ELSE k.hi < nextSeq[h]
        /\ Segment(epoch[h], nextSeq[h]) \in Objects
              => bucket[Segment(epoch[h], nextSeq[h])] \subseteq Body(h)
        /\ \/ Superseded(epoch[h])
           \/ /\ Covers(own[h], AckedUpTo(epoch[h]))
              /\ \A s \in 0..(nextSeq[h] - 1) : Present(epoch[h], s)
        /\ phase[h] = "put" =>
              \/ Superseded(epoch[h])
              \/ /\ Segment(epoch[h], nextSeq[h]) \in Objects
                 /\ bucket[Segment(epoch[h], nextSeq[h])] = Body(h)
        /\ phase[h] \in {"compacting", "folded"} => based[h]

\* What gc() deletes is covered by an L1 object or superseded.
DoomedInv ==
    \A h \in Handle : \A k \in doomed[h] :
        \/ Superseded(k.epoch)
        \/ /\ k.level = 0 \/ k.hi = 0
           /\ \E w \in Objects : /\ w.epoch = k.epoch /\ w.level = 1
                                 /\ w.hi > 0 /\ k.hi <= w.hi

\* Objects belong to lineages, and so does what was acknowledged.
LineageInv ==
    /\ \A k \in Objects :
          Superseded(k.epoch) \/ \E w \in Objects : w.epoch = k.epoch /\ HeadKey(w)
    /\ \A a \in acked : \E w \in Objects : a[1] <= w.epoch /\ HeadKey(w)

\* The newest lineage is complete.
CompleteInv ==
    \A k \in Objects :
        HeadKey(k) /\ ~Superseded(k.epoch)
            => Covers(Contents(EpochChain(k.epoch)), AckedUpTo(k.epoch))

\* Sequence numbers stay below the bound of FlushPut.
SizeInv ==
    /\ \A k \in Objects : k.hi <= MaxSeq
    /\ \A h \in Handle : nextSeq[h] <= MaxSeq + 1
    /\ \A h \in Handle : phase[h] = "put" => nextSeq[h] <= MaxSeq

LaneInv ==
    /\ TokensInv
    /\ SizeInv
    /\ \A h \in Handle : WakingInv(h) /\ ReadingInv(h) /\ WriterInv(h)
    /\ lagging = {}
    /\ DoomedInv
    /\ LineageInv
    /\ CompleteInv
=============================================================================
