----------------------------- MODULE Ownership -----------------------------
(***************************************************************************)
(* The compare-and-swap protocol of ownership.py over one ownership        *)
(* record: acquire, renew, verify and release, as run by any number of     *)
(* Ownership objects ("handles") against one key of the object store.      *)
(*                                                                         *)
(* A GET and a conditional PUT are separate steps, and any other handle,   *)
(* the clock or a crash may come between them.  An etag is a digest of the *)
(* object's bytes, so a conditional PUT compares CONTENTS: it succeeds iff *)
(* the cell still equals the record the handle read.                       *)
(*                                                                         *)
(* Two instances are of interest, and differ only in SessionOf.  For lanes *)
(* (space.py:375) every handle has a session of its own; for task leases   *)
(* (space.py:938) the session is the agent's name, so two handles opened   *)
(* by one agent share it.                                                  *)
(***************************************************************************)
EXTENDS Integers

CONSTANTS
    Handle,        \* Ownership objects; a restarted process has a new one
    Session,       \* session strings
    SessionOf,     \* the session each handle was created with
    NoSession,     \* the JSON null of an unowned record
    TTL,           \* Ownership.ttl
    MaxTries,      \* the acquire loop's `range(4)`
    MaxTime,       \* bound: the clock stops here
    MaxEpoch       \* bound: no claim beyond this epoch is attempted

ASSUME OwnershipAssumption ==
    /\ SessionOf \in [Handle -> Session]
    /\ NoSession \notin Session
    /\ TTL \in Nat \ {0}
    /\ MaxTries \in Nat \ {0}
    /\ MaxTime \in Nat
    /\ MaxEpoch \in Nat

VARIABLES
    now,           \* time.time(), one clock for all handles
    cell,          \* the stored record; Absent before the first claim
    pc,            \* where each handle is in its current call
    seen,          \* the record its last GET returned (stands for the etag)
    wish,          \* the record it is about to PUT
    tries,         \* passes left in the acquire loop
    mine,          \* Ownership.record: the claim it holds, or None
    issued,        \* history: the <<epoch, handle>> of every claim that landed
    inDoubt        \* history: handles told nothing of their release that landed

ownVars == <<now, cell, pc, seen, wish, tries, mine, issued, inDoubt>>

-----------------------------------------------------------------------------
(* Records.                                                                *)

OwnerRecord == [epoch : Nat, session : Session \cup {NoSession},
                owned : BOOLEAN, acquired_at : Nat, expires_at : Nat]

\* No object at the key.  Epoch 0 makes the first claim epoch 1, and no
\* session matches it, which is what the `current is None` tests come to.
Absent == [epoch |-> 0, session |-> NoSession, owned |-> FALSE,
           acquired_at |-> 0, expires_at |-> 0]

None == Absent     \* the Python None of Ownership.record

Live(r) == r.owned /\ now < r.expires_at

Holds(h) == mine[h] # None

SelfFenced(h) == ~Holds(h) \/ now >= mine[h].expires_at

Claim_SameEpoch(h, r) ==
    [epoch |-> IF r = Absent THEN 1 ELSE r.epoch, session |-> SessionOf[h],
     owned |-> TRUE, acquired_at |-> now, expires_at |-> now + TTL]

\* The record an acquire that read r publishes.
Claim(h, r) ==
    [epoch |-> r.epoch + 1, session |-> SessionOf[h], owned |-> TRUE,
     acquired_at |-> now, expires_at |-> now + TTL]

\* The record a renewal publishes: same epoch, new expiry.
Renewal(h) ==
    [epoch |-> mine[h].epoch, session |-> SessionOf[h], owned |-> TRUE,
     acquired_at |-> now, expires_at |-> now + TTL]

Unowned_ResetsEpoch(r) ==
    [epoch |-> 1, session |-> NoSession, owned |-> FALSE,
     acquired_at |-> r.acquired_at, expires_at |-> r.acquired_at]

Unowned_InThePast(r) ==
    [epoch |-> r.epoch, session |-> NoSession, owned |-> FALSE,
     acquired_at |-> r.acquired_at, expires_at |-> r.acquired_at - TTL]

\* The record a release publishes: the epoch survives it.
Unowned(r) ==
    [epoch |-> r.epoch, session |-> NoSession, owned |-> FALSE,
     acquired_at |-> r.acquired_at, expires_at |-> r.acquired_at]

-----------------------------------------------------------------------------
(* acquire()                                                               *)

\* The call returns or raises, and its locals go out of scope.
Return(h) ==
    /\ pc' = [pc EXCEPT ![h] = "idle"]
    /\ seen' = [seen EXCEPT ![h] = Absent]
    /\ wish' = [wish EXCEPT ![h] = Absent]
    /\ tries' = [tries EXCEPT ![h] = 0]

PC == {"idle", "reread", "decide", "claim", "renew", "renewing",
       "releasing", "gone"}

\* Enter the loop, or go round it again: GET the record.
AcquireGet(h) ==
    /\ pc[h] \in {"idle", "reread"}
    /\ seen' = [seen EXCEPT ![h] = cell]
    /\ tries' = [tries EXCEPT ![h] = IF pc[h] = "idle" THEN MaxTries ELSE @]
    /\ pc' = [pc EXCEPT ![h] = "decide"]
    /\ UNCHANGED <<now, cell, wish, mine, issued, inDoubt>>

\* Held: another session's live claim, or our own session's live claim that
\* this handle did not make.
AcquireHeld(h) ==
    /\ pc[h] = "decide"
    /\ Live(seen[h])
    /\ seen[h].session # SessionOf[h] \/ ~Holds(h)
    /\ Return(h)
    /\ UNCHANGED <<now, cell, mine, issued, inDoubt>>

\* Already ours and live: acquire() turns into renew().
AcquireRenews(h) ==
    /\ pc[h] = "decide"
    /\ Live(seen[h])
    /\ seen[h].session = SessionOf[h] /\ Holds(h)
    /\ pc' = [pc EXCEPT ![h] = "renew"]
    /\ seen' = [seen EXCEPT ![h] = Absent]
    /\ UNCHANGED <<now, cell, wish, tries, mine, issued, inDoubt>>

AcquireClaim_StealsLive(h) ==
    /\ pc[h] = "decide"
    /\ seen[h].session # SessionOf[h]
    /\ seen[h].epoch < MaxEpoch
    /\ wish' = [wish EXCEPT ![h] = Claim(h, seen[h])]
    /\ pc' = [pc EXCEPT ![h] = "claim"]
    /\ UNCHANGED <<now, cell, seen, tries, mine, issued, inDoubt>>

\* Absent, unowned or expired: build a claim at the next epoch.
AcquireClaim(h) ==
    /\ pc[h] = "decide"
    /\ ~Live(seen[h])
    /\ seen[h].epoch < MaxEpoch
    /\ wish' = [wish EXCEPT ![h] = Claim(h, seen[h])]
    /\ pc' = [pc EXCEPT ![h] = "claim"]
    /\ UNCHANGED <<now, cell, seen, tries, mine, issued, inDoubt>>

AcquirePut_Unconditional(h) ==
    /\ pc[h] = "claim"
    /\ cell' = wish[h]
    /\ mine' = [mine EXCEPT ![h] = wish[h]]
    /\ issued' = issued \cup {<<wish[h].epoch, h>>}
    /\ inDoubt' = inDoubt \ {h}
    /\ Return(h)
    /\ UNCHANGED now

\* The conditional PUT wins (if_none_match / if_match).
AcquirePut(h) ==
    /\ pc[h] = "claim"
    /\ cell = seen[h]
    /\ cell' = wish[h]
    /\ mine' = [mine EXCEPT ![h] = wish[h]]
    /\ issued' = issued \cup {<<wish[h].epoch, h>>}
    /\ inDoubt' = inDoubt \ {h}
    /\ Return(h)
    /\ UNCHANGED now

\* PreconditionFailed: go round again, or raise Held after the last pass.
AcquireConflict(h) ==
    /\ pc[h] = "claim"
    /\ cell # seen[h]
    /\ \/ /\ tries[h] > 1
          /\ tries' = [tries EXCEPT ![h] = @ - 1]
          /\ pc' = [pc EXCEPT ![h] = "reread"]
          /\ seen' = [seen EXCEPT ![h] = Absent]
          /\ wish' = [wish EXCEPT ![h] = Absent]
       \/ tries[h] <= 1 /\ Return(h)
    /\ UNCHANGED <<now, cell, mine, issued, inDoubt>>

-----------------------------------------------------------------------------
(* renew(), called by itself, by maybe_renew() or from acquire().  Nothing  *)
(* in it looks at the old expiry, so it may stretch a lease that lapsed.   *)

\* The GET, its checks and the clock reading of renew().
RenewGet(h) ==
    /\ pc[h] \in {"idle", "renew"}
    /\ Holds(h)
    /\ cell.session = SessionOf[h] /\ cell.epoch = mine[h].epoch
    /\ seen' = [seen EXCEPT ![h] = cell]
    /\ wish' = [wish EXCEPT ![h] = Renewal(h)]
    /\ pc' = [pc EXCEPT ![h] = "renewing"]
    /\ UNCHANGED <<now, cell, tries, mine, issued, inDoubt>>

\* The record names another session or epoch: Fenced.
RenewFenced(h) ==
    /\ pc[h] \in {"idle", "renew"}
    /\ Holds(h)
    /\ cell.session # SessionOf[h] \/ cell.epoch # mine[h].epoch
    /\ mine' = [mine EXCEPT ![h] = None]
    /\ Return(h)
    /\ UNCHANGED <<now, cell, issued, inDoubt>>

RenewPut_Unconditional(h) ==
    /\ pc[h] = "renewing"
    /\ cell' = wish[h] /\ mine' = [mine EXCEPT ![h] = wish[h]]
    /\ Return(h)
    /\ UNCHANGED <<now, issued, inDoubt>>

\* The conditional PUT of renew(): the new expiry, or Fenced.
RenewPut(h) ==
    /\ pc[h] = "renewing"
    /\ \/ /\ cell = seen[h]
          /\ cell' = wish[h]
          /\ mine' = [mine EXCEPT ![h] = wish[h]]
       \/ /\ cell # seen[h]
          /\ mine' = [mine EXCEPT ![h] = None]
          /\ UNCHANGED cell
    /\ Return(h)
    /\ UNCHANGED <<now, issued, inDoubt>>

-----------------------------------------------------------------------------
(* verify() and release()                                                  *)

\* The acknowledgement gate: own expiry first, then one GET of the record.
\* Raising Fenced drops the claim; passing changes nothing.
Verify(h) ==
    /\ pc[h] = "idle"
    /\ Holds(h)
    /\ mine' = [mine EXCEPT ![h] =
                    IF /\ ~SelfFenced(h)
                       /\ cell.session = SessionOf[h]
                       /\ cell.epoch = mine[h].epoch
                    THEN @ ELSE None]
    /\ UNCHANGED <<now, cell, pc, seen, wish, tries, issued, inDoubt>>

\* The GET of release(), which compares sessions and not epochs.
ReleaseGet(h) ==
    /\ pc[h] = "idle"
    /\ Holds(h)
    /\ \/ /\ cell.session = SessionOf[h]
          /\ seen' = [seen EXCEPT ![h] = cell]
          /\ wish' = [wish EXCEPT ![h] = Unowned(cell)]
          /\ pc' = [pc EXCEPT ![h] = "releasing"]
          /\ UNCHANGED mine
       \/ /\ cell.session # SessionOf[h]
          /\ mine' = [mine EXCEPT ![h] = None]
          /\ UNCHANGED <<pc, seen, wish>>
    /\ UNCHANGED <<now, cell, tries, issued, inDoubt>>

\* The conditional PUT of release(); losing it is as good as winning it.
ReleasePut(h) ==
    /\ pc[h] = "releasing"
    /\ cell' = IF cell = seen[h] THEN wish[h] ELSE cell
    /\ mine' = [mine EXCEPT ![h] = None]
    /\ Return(h)
    /\ UNCHANGED <<now, issued, inDoubt>>

-----------------------------------------------------------------------------
(* What goes wrong around the calls.                                       *)

Putting(h) == pc[h] \in {"claim", "renewing", "releasing"}

\* The PUT landed but its response did not: the error propagates from put(),
\* past every `except PreconditionFailed`, and Ownership.record stays as it was.
ReplyLost(h) ==
    /\ Putting(h)
    /\ cell = seen[h]
    /\ cell' = wish[h]
    /\ issued' = IF pc[h] = "claim" THEN issued \cup {<<wish[h].epoch, h>>}
                 ELSE issued
    /\ inDoubt' = IF pc[h] = "releasing" THEN inDoubt \cup {h} ELSE inDoubt
    /\ Return(h)
    /\ UNCHANGED <<now, mine>>

\* A GET or a PUT fails outright and its error propagates.
RequestFails(h) ==
    /\ Putting(h) \/ pc[h] \in {"reread", "renew"}
    /\ Return(h)
    /\ UNCHANGED <<now, cell, mine, issued, inDoubt>>

\* The process dies, or the handle is dropped without a release.
Crash(h) ==
    /\ pc[h] # "gone"
    /\ pc' = [pc EXCEPT ![h] = "gone"]
    /\ mine' = [mine EXCEPT ![h] = None]
    /\ seen' = [seen EXCEPT ![h] = Absent]
    /\ wish' = [wish EXCEPT ![h] = Absent]
    /\ tries' = [tries EXCEPT ![h] = 0]
    /\ UNCHANGED <<now, cell, issued, inDoubt>>

Tick ==
    /\ now < MaxTime
    /\ now' = now + 1
    /\ UNCHANGED <<cell, pc, seen, wish, tries, mine, issued, inDoubt>>

-----------------------------------------------------------------------------
Init ==
    /\ now = 0
    /\ cell = Absent
    /\ pc = [h \in Handle |-> "idle"]
    /\ seen = [h \in Handle |-> Absent]
    /\ wish = [h \in Handle |-> Absent]
    /\ tries = [h \in Handle |-> 0]
    /\ mine = [h \in Handle |-> None]
    /\ issued = {}
    /\ inDoubt = {}

HandleStep(h) ==
    \/ AcquireGet(h) \/ AcquireHeld(h) \/ AcquireRenews(h)
    \/ AcquireClaim(h) \/ AcquirePut(h) \/ AcquireConflict(h)
    \/ RenewGet(h) \/ RenewFenced(h) \/ RenewPut(h)
    \/ Verify(h) \/ ReleaseGet(h) \/ ReleasePut(h)
    \/ ReplyLost(h) \/ RequestFails(h) \/ Crash(h)

Next == Tick \/ \E h \in Handle : HandleStep(h)

Spec == Init /\ [][Next]_ownVars

-----------------------------------------------------------------------------
(* Properties                                                              *)

TypeOK ==
    /\ now \in Nat
    /\ cell \in OwnerRecord
    /\ pc \in [Handle -> PC]
    /\ seen \in [Handle -> OwnerRecord]
    /\ wish \in [Handle -> OwnerRecord]
    /\ tries \in [Handle -> 0..MaxTries]
    /\ mine \in [Handle -> OwnerRecord]
    /\ issued \subseteq (Nat \X Handle)
    /\ inDoubt \subseteq Handle

\* One writer per epoch: an epoch is granted to one handle, once and for all,
\* whatever the clock does, whoever shares a session, whichever reply is lost
\* -- and a handle writes only under an epoch that was granted to it.  This is
\* what lets flush() PUT its segments unconditionally (space.py:716).
OneWriterPerEpoch ==
    /\ \A g1, g2 \in issued : g1[1] = g2[1] => g1[2] = g2[2]
    /\ \A h \in Handle : Holds(h) => <<mine[h].epoch, h>> \in issued

\* The record never goes back: its epoch never falls, and it passes to a new
\* session only at a new epoch ("renewal never advances the epoch", and a
\* release keeps it, ownership.py:205, 269).
EpochsOnlyAdvance ==
    [][ /\ cell'.epoch >= cell.epoch
        /\ cell'.owned /\ cell'.session # cell.session
               => cell'.epoch = cell.epoch + 1 ]_ownVars

\* h may act as the holder: it has a claim whose expiry has not passed and it
\* has not, to its knowledge or not, handed it back.
Believes(h) == ~SelfFenced(h) /\ h \notin inDoubt

\* "Exactly one agent wins" (space.py:933): no two handles hold unexpired
\* claims to one record at the same moment.
Exclusive ==
    \A h1, h2 \in Handle : Believes(h1) /\ Believes(h2) => h1 = h2

\* "Exactly one agent in the space runs this" (README.md:332): unexpired
\* claims to one task lease never belong to two agents.
ExclusiveAgent ==
    \A h1, h2 \in Handle :
        Believes(h1) /\ Believes(h2) => SessionOf[h1] = SessionOf[h2]

\* The protocol hands out epochs as FencingTokens promises.
Tokens == INSTANCE FencingTokens WITH top <- cell.epoch
IssuesFencingTokens == Tokens!Spec
=============================================================================
