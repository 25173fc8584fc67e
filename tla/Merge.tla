------------------------------- MODULE Merge -------------------------------
(***************************************************************************)
(* What a Space knows: SharedState.apply of space.py, the union of all     *)
(* lanes, applied record by record in whatever order the lanes come.       *)
(*                                                                         *)
(* A fragment stands for its content hash.  The payload kept with it (text *)
(* and vector) is that of its origin, so the state records the origin.     *)
(***************************************************************************)
EXTENDS Integers, FiniteSetsExt

CONSTANTS
    Fragment,
    Agent           \* as numbers in the order of the agents' names

ASSUME MergeAssumption == Agent \subseteq Nat

\* A record as segments carry it; `at` is the fragment's created_at, which a
\* forget does not have.
PutRecord(f, t) == [op |-> "put", frag |-> f, at |-> t]
ForgetRecord(f) == [op |-> "forget", frag |-> f, at |-> 0]

RecordSet == [op : {"put", "forget"}, frag : Fragment, at : Nat]

None == <<>>

\* Fragments that are not known have neither authors nor an origin.
StateSet ==
    [tombstones : SUBSET Fragment,
     authors : [Fragment -> SUBSET Agent],
     origins : [Fragment -> (Nat \X Agent) \cup {None}]]

Blank ==
    [tombstones |-> {},
     authors |-> [f \in Fragment |-> {}],
     origins |-> [f \in Fragment |-> None]]

\* The order of tuples (created_at, author).
Earlier(o, p) == o[1] < p[1] \/ (o[1] = p[1] /\ o[2] < p[2])

ApplyForget(s, f) ==
    [tombstones |-> s.tombstones \cup {f},
     authors |-> [s.authors EXCEPT ![f] = {}],
     origins |-> [s.origins EXCEPT ![f] = None]]

ApplyPut_FirstComeStays(s, f, origin) ==
    [s EXCEPT !.authors[f] = @ \cup {origin[2]},
              !.origins[f] = IF @ = None THEN origin ELSE @]

ApplyPut(s, f, origin) ==
    [s EXCEPT !.authors[f] = @ \cup {origin[2]},
              !.origins[f] = IF @ = None \/ Earlier(origin, @) THEN origin ELSE @]

Apply_LatePutWins(s, r, author) ==
    IF r.op = "forget" THEN ApplyForget(s, r.frag)
    ELSE ApplyPut(s, r.frag, <<r.at, author>>)

\* apply(): a tombstone wins whenever it arrives, and of several copies of a
\* memory the one with the earliest origin is kept.
Apply(s, r, author) ==
    IF r.op = "forget" THEN ApplyForget(s, r.frag)
    ELSE IF r.frag \in s.tombstones THEN s
    ELSE ApplyPut(s, r.frag, <<r.at, author>>)

\* All of a set of pairs <<record, author>>, in some order: that it does not
\* matter which is what IsMerge comes to.
ApplyAll(s, H) == FoldSet(LAMBDA h, t : Apply(t, h[1], h[2]), s, H)

-----------------------------------------------------------------------------
\* The origins that a set of pairs <<record, author>> offers for a fragment.
Origins(H, f) ==
    {<<h[1].at, h[2]>> : h \in {g \in H : g[1].op = "put" /\ g[1].frag = f}}

Forgotten(H) == {h[1].frag : h \in {g \in H : g[1].op = "forget"}}

\* "Commutative and idempotent" (space.py:235), as what it comes to: s is the
\* state of one who has heard the set H, in any order, as often as you like.
IsMerge(s, H) ==
    /\ s.tombstones = Forgotten(H)
    /\ \A f \in Fragment :
          IF f \in s.tombstones \/ Origins(H, f) = {}
          THEN s.authors[f] = {} /\ s.origins[f] = None
          ELSE /\ s.authors[f] = {o[2] : o \in Origins(H, f)}
               /\ s.origins[f] \in Origins(H, f)
               /\ \A o \in Origins(H, f) : ~Earlier(o, s.origins[f])
=============================================================================
