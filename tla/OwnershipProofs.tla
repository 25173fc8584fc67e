-------------------------- MODULE OwnershipProofs --------------------------
(***************************************************************************)
(* Proofs about Ownership, for any handles, sessions, lease lengths and    *)
(* bounds.  EpochInv carries the fence (one writer per epoch), LeaseInv    *)
(* the exclusion of unexpired claims, which needs sessions of their own.   *)
(***************************************************************************)
EXTENDS Ownership, TLAPS

(***************************************************************************)
(* Type correctness.                                                       *)
(***************************************************************************)

LEMMA AbsentIsARecord == Absent \in OwnerRecord /\ None \in OwnerRecord
BY DEF Absent, None, OwnerRecord

\* What acquire, renew and release publish is a record.
LEMMA PublishedAreRecords ==
    ASSUME TypeOK, NEW h \in Handle, NEW r \in OwnerRecord
    PROVE  /\ Claim(h, r) \in OwnerRecord
           /\ Renewal(h) \in OwnerRecord
           /\ Unowned(r) \in OwnerRecord
BY OwnershipAssumption DEF TypeOK, Claim, Renewal, Unowned, OwnerRecord

LEMMA TypeStep ==
    ASSUME TypeOK, [Next]_ownVars
    PROVE  TypeOK'
<1> USE OwnershipAssumption, AbsentIsARecord, PublishedAreRecords
<1>1. CASE UNCHANGED ownVars
  BY <1>1 DEF TypeOK, ownVars
<1>2. CASE Tick
  BY <1>2 DEF TypeOK, Tick
<1>3. ASSUME NEW h \in Handle, HandleStep(h)
      PROVE  TypeOK'
  <2>1. CASE AcquireGet(h)
    BY <2>1 DEF TypeOK, AcquireGet, PC
  <2>2. CASE AcquireHeld(h)
    BY <2>2 DEF TypeOK, AcquireHeld, Return, PC
  <2>3. CASE AcquireRenews(h)
    BY <2>3 DEF TypeOK, AcquireRenews, PC
  <2>4. CASE AcquireClaim(h)
    BY <2>4 DEF TypeOK, AcquireClaim, PC
  <2>5. CASE AcquirePut(h)
    BY <2>5 DEF TypeOK, AcquirePut, Return, PC, OwnerRecord
  <2>6. CASE AcquireConflict(h)
    BY <2>6 DEF TypeOK, AcquireConflict, Return, PC
  <2>7. CASE RenewGet(h)
    BY <2>7 DEF TypeOK, RenewGet, PC
  <2>8. CASE RenewFenced(h)
    BY <2>8 DEF TypeOK, RenewFenced, Return, PC
  <2>9. CASE RenewPut(h)
    BY <2>9 DEF TypeOK, RenewPut, Return, PC
  <2>10. CASE Verify(h)
    BY <2>10 DEF TypeOK, Verify
  <2>11. CASE ReleaseGet(h)
    BY <2>11 DEF TypeOK, ReleaseGet, PC
  <2>12. CASE ReleasePut(h)
    BY <2>12 DEF TypeOK, ReleasePut, Return, PC
  <2>13. CASE ReplyLost(h)
    BY <2>13 DEF TypeOK, ReplyLost, Return, PC, OwnerRecord
  <2>14. CASE RequestFails(h)
    BY <2>14 DEF TypeOK, RequestFails, Return, PC
  <2>15. CASE Crash(h)
    BY <2>15 DEF TypeOK, Crash, PC
  <2> QED
    BY <1>3, <2>1, <2>2, <2>3, <2>4, <2>5, <2>6, <2>7, <2>8, <2>9, <2>10,
       <2>11, <2>12, <2>13, <2>14, <2>15 DEF HandleStep
<1> QED
  BY <1>1, <1>2, <1>3 DEF Next

\* Every variable keeps its type in every behaviour.
THEOREM TypeCorrect == Spec => []TypeOK
<1>1. Init => TypeOK
  BY OwnershipAssumption, AbsentIsARecord DEF Init, TypeOK, PC
<1>2. TypeOK /\ [Next]_ownVars => TypeOK'
  BY TypeStep
<1> QED
  BY <1>1, <1>2, PTL DEF Spec

(***************************************************************************)
(* The fence.  EpochInv: the record's epoch bounds every epoch issued, a   *)
(* handle holds only what it was issued, and a pending PUT follows from    *)
(* the record it will be compared with -- so a claim that wins the         *)
(* comparison is one past every epoch issued before it.                    *)
(***************************************************************************)

PendingClaim(h) ==
    pc[h] = "claim" =>
        /\ wish[h].epoch = seen[h].epoch + 1
        /\ wish[h].session = SessionOf[h]
        /\ wish[h].owned

PendingRenewal(h) ==
    pc[h] = "renewing" =>
        /\ Holds(h)
        /\ wish[h].epoch = mine[h].epoch
        /\ seen[h].epoch = mine[h].epoch
        /\ wish[h].session = SessionOf[h]
        /\ seen[h].session = SessionOf[h]

PendingRelease(h) ==
    pc[h] = "releasing" =>
        /\ wish[h].epoch = seen[h].epoch
        /\ seen[h].session = SessionOf[h]
        /\ ~wish[h].owned

EpochInv ==
    /\ \A g \in issued : g[1] >= 1 /\ g[1] <= cell.epoch
    /\ OneWriterPerEpoch
    /\ \A h \in Handle : PendingClaim(h) /\ PendingRenewal(h) /\ PendingRelease(h)

\* A claim that lands is issued an epoch nobody was issued before.
LEMMA IssueIsFresh ==
    ASSUME TypeOK, EpochInv, NEW h \in Handle, pc[h] = "claim", cell = seen[h],
           issued' = issued \cup {<<wish[h].epoch, h>>}, cell' = wish[h]
    PROVE  /\ wish[h].epoch = cell.epoch + 1
           /\ \A g \in issued' : g[1] >= 1 /\ g[1] <= cell'.epoch
           /\ \A g1, g2 \in issued' : g1[1] = g2[1] => g1[2] = g2[2]
<1>1. wish[h].epoch = cell.epoch + 1 /\ cell.epoch \in Nat
  BY DEF EpochInv, PendingClaim, TypeOK, OwnerRecord
<1>2. \A g \in issued : g[1] \in Nat /\ g[1] >= 1 /\ g[1] <= cell.epoch
  BY DEF EpochInv, TypeOK
<1>3. \A g \in issued' : g \in issued \/ (g[1] = wish[h].epoch /\ g[2] = h)
  OBVIOUS
<1>4. \A g1, g2 \in issued : g1[1] = g2[1] => g1[2] = g2[2]
  BY DEF EpochInv, OneWriterPerEpoch
<1> QED
  BY <1>1, <1>2, <1>3, <1>4

LEMMA EpochStep ==
    ASSUME TypeOK, EpochInv, [Next]_ownVars
    PROVE  EpochInv'
<1> USE OwnershipAssumption DEF Holds
<1> DEFINE Pending(h) == PendingClaim(h) /\ PendingRenewal(h) /\ PendingRelease(h)
<1>1. CASE UNCHANGED ownVars
  BY <1>1 DEF EpochInv, OneWriterPerEpoch, PendingClaim, PendingRenewal,
              PendingRelease, ownVars
<1>2. CASE Tick
  BY <1>2 DEF EpochInv, OneWriterPerEpoch, PendingClaim, PendingRenewal,
              PendingRelease, Tick
<1>3. ASSUME NEW h \in Handle, HandleStep(h)
      PROVE  EpochInv'
  <2> SUFFICES /\ (\A g \in issued : g[1] >= 1 /\ g[1] <= cell.epoch)'
               /\ OneWriterPerEpoch'
               /\ \A k \in Handle : Pending(k)'
    BY DEF EpochInv
  \* A step of h leaves the pending requests of the others as they were.
  <2>a. ASSUME NEW k \in Handle, k # h  PROVE Pending(k)'
    <3>1. /\ pc'[k] = pc[k] /\ seen'[k] = seen[k] /\ wish'[k] = wish[k]
          /\ mine'[k] = mine[k]
      BY <1>3, <2>a DEF HandleStep, TypeOK, AcquireGet, AcquireHeld, AcquireRenews,
         AcquireClaim, AcquirePut, AcquireConflict, RenewGet, RenewFenced, RenewPut,
         Verify, ReleaseGet, ReleasePut, ReplyLost, RequestFails, Crash, Return
    <3> QED
      BY <3>1 DEF EpochInv, PendingClaim, PendingRenewal, PendingRelease
  \* A step that leaves cell and issued alone keeps the fence if h at most
  \* drops its claim.
  <2>b. ASSUME UNCHANGED issued, cell'.epoch = cell.epoch,
               \/ UNCHANGED mine
               \/ mine' = [mine EXCEPT ![h] = None]
               \/ /\ mine' = [mine EXCEPT ![h] = wish[h]]
                  /\ Holds(h) /\ wish[h].epoch = mine[h].epoch
        PROVE  /\ (\A g \in issued : g[1] >= 1 /\ g[1] <= cell.epoch)'
               /\ OneWriterPerEpoch'
    BY <2>b DEF EpochInv, OneWriterPerEpoch, TypeOK
  <2>1. CASE AcquireGet(h)
    <3>1. Pending(h)'
      BY <2>1 DEF AcquireGet, TypeOK, PendingClaim, PendingRenewal, PendingRelease
    <3> QED
      BY <3>1, <2>1, <2>a, <2>b DEF AcquireGet
  <2>2. CASE AcquireHeld(h)
    <3>1. Pending(h)'
      BY <2>2 DEF AcquireHeld, Return, TypeOK, PendingClaim, PendingRenewal, PendingRelease
    <3> QED
      BY <3>1, <2>2, <2>a, <2>b DEF AcquireHeld
  <2>3. CASE AcquireRenews(h)
    <3>1. Pending(h)'
      BY <2>3 DEF AcquireRenews, TypeOK, PendingClaim, PendingRenewal, PendingRelease
    <3> QED
      BY <3>1, <2>3, <2>a, <2>b DEF AcquireRenews
  <2>4. CASE AcquireClaim(h)
    <3>1. Pending(h)'
      BY <2>4 DEF AcquireClaim, Claim, TypeOK, PendingClaim, PendingRenewal, PendingRelease
    <3> QED
      BY <3>1, <2>4, <2>a, <2>b DEF AcquireClaim
  <2>5. CASE AcquirePut(h)
    <3>1. Pending(h)'
      BY <2>5 DEF AcquirePut, Return, TypeOK, PendingClaim, PendingRenewal, PendingRelease
    <3>2. /\ (\A g \in issued : g[1] >= 1 /\ g[1] <= cell.epoch)'
          /\ (\A g1, g2 \in issued : g1[1] = g2[1] => g1[2] = g2[2])'
      BY <2>5, IssueIsFresh DEF AcquirePut
    <3>3. (\A k \in Handle : Holds(k) => <<mine[k].epoch, k>> \in issued)'
      BY <2>5 DEF AcquirePut, EpochInv, OneWriterPerEpoch, TypeOK
    <3> QED
      BY <3>1, <3>2, <3>3, <2>a DEF OneWriterPerEpoch
  <2>6. CASE AcquireConflict(h)
    <3>1. Pending(h)'
      BY <2>6 DEF AcquireConflict, Return, TypeOK, PendingClaim, PendingRenewal, PendingRelease
    <3> QED
      BY <3>1, <2>6, <2>a, <2>b DEF AcquireConflict
  <2>7. CASE RenewGet(h)
    <3>1. Pending(h)'
      BY <2>7 DEF RenewGet, Renewal, TypeOK, PendingClaim, PendingRenewal, PendingRelease
    <3> QED
      BY <3>1, <2>7, <2>a, <2>b DEF RenewGet
  <2>8. CASE RenewFenced(h)
    <3>1. Pending(h)'
      BY <2>8 DEF RenewFenced, Return, TypeOK, PendingClaim, PendingRenewal, PendingRelease
    <3> QED
      BY <3>1, <2>8, <2>a, <2>b DEF RenewFenced
  <2>9. CASE RenewPut(h)
    <3>1. Pending(h)'
      BY <2>9 DEF RenewPut, Return, TypeOK, PendingClaim, PendingRenewal, PendingRelease
    <3>2. /\ Holds(h) /\ wish[h].epoch = mine[h].epoch
          /\ seen[h].epoch = mine[h].epoch
      BY <2>9 DEF RenewPut, EpochInv, PendingRenewal
    <3> QED
      BY <3>1, <3>2, <2>9, <2>a, <2>b DEF RenewPut
  <2>10. CASE Verify(h)
    <3>1. Pending(h)'
      BY <2>10 DEF Verify, TypeOK, PendingClaim, PendingRenewal, PendingRelease
    <3>2. mine' = mine \/ mine' = [mine EXCEPT ![h] = None]
      BY <2>10 DEF Verify, TypeOK
    <3> QED
      BY <3>1, <3>2, <2>10, <2>a, <2>b DEF Verify
  <2>11. CASE ReleaseGet(h)
    <3>1. Pending(h)'
      BY <2>11 DEF ReleaseGet, Unowned, TypeOK, PendingClaim, PendingRenewal, PendingRelease
    <3> QED
      BY <3>1, <2>11, <2>a, <2>b DEF ReleaseGet
  <2>12. CASE ReleasePut(h)
    <3>1. Pending(h)'
      BY <2>12 DEF ReleasePut, Return, TypeOK, PendingClaim, PendingRenewal, PendingRelease
    <3>2. cell'.epoch = cell.epoch
      BY <2>12 DEF ReleasePut, EpochInv, PendingRelease
    <3> QED
      BY <3>1, <3>2, <2>12, <2>a, <2>b DEF ReleasePut
  <2>13. CASE ReplyLost(h)
    <3>1. Pending(h)'
      BY <2>13 DEF ReplyLost, Return, TypeOK, PendingClaim, PendingRenewal, PendingRelease
    <3>2. CASE pc[h] = "claim"
      <4>1. /\ (\A g \in issued : g[1] >= 1 /\ g[1] <= cell.epoch)'
            /\ (\A g1, g2 \in issued : g1[1] = g2[1] => g1[2] = g2[2])'
        BY <2>13, <3>2, IssueIsFresh DEF ReplyLost
      <4> QED
        BY <4>1, <3>1, <2>13, <2>a DEF ReplyLost, EpochInv, OneWriterPerEpoch
    <3>3. CASE pc[h] # "claim"
      <4>1. cell'.epoch = cell.epoch /\ UNCHANGED <<issued, mine>>
        BY <2>13, <3>3 DEF ReplyLost, Putting, EpochInv, PendingRenewal, PendingRelease
      <4> QED
        BY <4>1, <3>1, <2>a, <2>b
    <3> QED
      BY <3>2, <3>3
  <2>14. CASE RequestFails(h)
    <3>1. Pending(h)'
      BY <2>14 DEF RequestFails, Return, TypeOK, PendingClaim, PendingRenewal, PendingRelease
    <3> QED
      BY <3>1, <2>14, <2>a, <2>b DEF RequestFails
  <2>15. CASE Crash(h)
    <3>1. Pending(h)'
      BY <2>15 DEF Crash, TypeOK, PendingClaim, PendingRenewal, PendingRelease
    <3> QED
      BY <3>1, <2>15, <2>a, <2>b DEF Crash
  <2> QED
    BY <1>3, <2>1, <2>2, <2>3, <2>4, <2>5, <2>6, <2>7, <2>8, <2>9, <2>10,
       <2>11, <2>12, <2>13, <2>14, <2>15 DEF HandleStep
<1> QED
  BY <1>1, <1>2, <1>3 DEF Next

LEMMA EpochInvariant == Spec => [](TypeOK /\ EpochInv)
<1>1. Init => EpochInv
  BY DEF Init, EpochInv, OneWriterPerEpoch, Holds, None, Absent, PendingClaim,
         PendingRenewal, PendingRelease
<1>2. TypeOK /\ EpochInv /\ [Next]_ownVars => EpochInv'
  BY EpochStep
<1> QED
  BY <1>1, <1>2, TypeCorrect, PTL DEF Spec

\* No epoch is ever granted twice, and a handle acts only under an epoch it
\* was granted: the fence behind the unconditional segment PUTs of flush().
THEOREM OneWriter == Spec => []OneWriterPerEpoch
<1>1. EpochInv => OneWriterPerEpoch
  BY DEF EpochInv
<1> QED
  BY <1>1, EpochInvariant, PTL

\* What a step does to the record: nothing, a claim of the next epoch, or a
\* renewal or release that keeps the epoch.
LEMMA CellStep ==
    ASSUME TypeOK, EpochInv, [Next]_ownVars
    PROVE  \/ UNCHANGED <<cell, issued>>
           \/ \E h \in Handle :
                /\ cell'.epoch = cell.epoch + 1
                /\ issued' = issued \cup {<<cell.epoch + 1, h>>}
           \/ /\ cell'.epoch = cell.epoch
              /\ UNCHANGED issued
              /\ cell'.session = cell.session \/ ~cell'.owned
<1>1. CASE UNCHANGED ownVars
  BY <1>1 DEF ownVars
<1>2. CASE Tick
  BY <1>2 DEF Tick
<1>3. ASSUME NEW h \in Handle, HandleStep(h)
      PROVE  \/ UNCHANGED <<cell, issued>>
             \/ /\ cell'.epoch = cell.epoch + 1
                /\ issued' = issued \cup {<<cell.epoch + 1, h>>}
             \/ /\ cell'.epoch = cell.epoch
                /\ UNCHANGED issued
                /\ cell'.session = cell.session \/ ~cell'.owned
  <2> USE DEF EpochInv, PendingClaim, PendingRenewal, PendingRelease
  <2>1. CASE AcquirePut(h)
    BY <2>1 DEF AcquirePut
  <2>2. CASE RenewPut(h)
    BY <2>2 DEF RenewPut
  <2>3. CASE ReleasePut(h)
    BY <2>3 DEF ReleasePut
  <2>4. CASE ReplyLost(h)
    BY <2>4 DEF ReplyLost, Putting
  <2>5. CASE UNCHANGED <<cell, issued>>
    BY <2>5
  <2> QED
    BY <1>3, <2>1, <2>2, <2>3, <2>4, <2>5 DEF HandleStep, AcquireGet, AcquireHeld,
       AcquireRenews, AcquireClaim, AcquireConflict, RenewGet, RenewFenced, Verify,
       ReleaseGet, RequestFails, Crash
<1> QED
  BY <1>1, <1>2, <1>3 DEF Next

\* The record's epoch never falls, and moves on whenever the record passes to
\* another session.
THEOREM EpochsAdvance == Spec => EpochsOnlyAdvance
<1>1. ASSUME TypeOK, EpochInv, [Next]_ownVars
      PROVE  [/\ cell'.epoch >= cell.epoch
              /\ cell'.owned /\ cell'.session # cell.session
                     => cell'.epoch = cell.epoch + 1]_ownVars
  <2>1. cell.epoch \in Nat
    BY <1>1 DEF TypeOK, OwnerRecord
  <2> QED
    BY <1>1, <2>1, CellStep
<1> QED
  BY <1>1, EpochInvariant, PTL DEF Spec, EpochsOnlyAdvance

\* The protocol implements the allocator of fencing tokens that the lanes are
\* built on.
THEOREM ImplementsTokens == Spec => IssuesFencingTokens
<1>1. Init => Tokens!Init
  BY DEF Init, Tokens!Init, Absent
<1>2. ASSUME TypeOK, EpochInv, [Next]_ownVars
      PROVE  [Tokens!Next]_(Tokens!tokens)
  BY <1>2, CellStep DEF Tokens!Next, Tokens!Issue, Tokens!tokens
<1> QED
  BY <1>1, <1>2, EpochInvariant, PTL DEF Spec, IssuesFencingTokens, Tokens!Spec

(***************************************************************************)
(* Exclusion.  LeaseInv: whoever is superseded has expired, and whoever is *)
(* not has published at least the expiry it relies on.                     *)
(***************************************************************************)

SessionsOfTheirOwn ==
    \A h1, h2 \in Handle : SessionOf[h1] = SessionOf[h2] => h1 = h2

\* h's claim against the record: current, or superseded and expired.
Backed(h) ==
    Holds(h) /\ h \notin inDoubt =>
        \/ /\ mine[h].epoch = cell.epoch
           /\ cell.session = SessionOf[h]
           /\ cell.owned
           /\ mine[h].expires_at <= cell.expires_at
        \/ mine[h].expires_at <= now

\* Requests in flight, as far as expiries go.
InFlight(h) ==
    /\ Holds(h) => mine[h].expires_at <= now + TTL
    /\ pc[h] = "claim" => /\ ~Live(seen[h])
                          /\ wish[h].expires_at <= now + TTL
    /\ pc[h] = "renewing" => /\ mine[h].expires_at <= wish[h].expires_at
                             /\ wish[h].expires_at <= now + TTL
                             /\ wish[h].owned
    /\ pc[h] = "releasing" => Holds(h)

LeaseInv == \A h \in Handle : Backed(h) /\ InFlight(h)

LEMMA LeaseExcludes ==
    ASSUME TypeOK, EpochInv, LeaseInv, SessionsOfTheirOwn
    PROVE  Exclusive
BY DEF TypeOK, LeaseInv, Backed, Exclusive, Believes, SelfFenced,
       OwnerRecord, SessionsOfTheirOwn

\* A PUT that lands leaves every other claim backed: a claim replaces a record
\* that was not live, and a renewal or release one that is the writer's own.
LEMMA PutKeepsOthersBacked ==
    ASSUME TypeOK, EpochInv, LeaseInv, SessionsOfTheirOwn,
           NEW h \in Handle, NEW k \in Handle, k # h,
           Putting(h), cell = seen[h], cell' = wish[h], now' = now,
           mine'[k] = mine[k], k \in inDoubt' <=> k \in inDoubt
    PROVE  Backed(k)'
<1> USE DEF Holds
<1>1. Backed(k) /\ InFlight(h)
  BY DEF LeaseInv
<1>2. CASE pc[h] = "claim"
  <2>1. ~cell.owned \/ now >= cell.expires_at
    BY <1>1, <1>2 DEF InFlight, Live, TypeOK, OwnerRecord
  <2> QED
    BY <1>1, <2>1 DEF Backed, TypeOK, OwnerRecord
<1>3. CASE pc[h] \in {"renewing", "releasing"}
  <2>1. cell.session = SessionOf[h]
    BY <1>3 DEF EpochInv, PendingRenewal, PendingRelease
  <2> QED
    BY <1>1, <2>1 DEF Backed, SessionsOfTheirOwn
<1> QED
  BY <1>2, <1>3 DEF Putting

LEMMA LeaseStep ==
    ASSUME TypeOK, TypeOK', EpochInv, LeaseInv, SessionsOfTheirOwn, [Next]_ownVars
    PROVE  LeaseInv'
<1> USE OwnershipAssumption DEF Holds, Live
<1>1. CASE UNCHANGED ownVars
  BY <1>1 DEF LeaseInv, Backed, InFlight, ownVars
<1>2. CASE Tick
  <2> SUFFICES ASSUME NEW h \in Handle  PROVE (Backed(h) /\ InFlight(h))'
    BY DEF LeaseInv
  <2>1. Backed(h)'
    BY <1>2 DEF Tick, LeaseInv, Backed, TypeOK, OwnerRecord
  <2>2. InFlight(h)'
    BY <1>2 DEF Tick, LeaseInv, InFlight, TypeOK, OwnerRecord
  <2> QED
    BY <2>1, <2>2
<1>3. ASSUME NEW h \in Handle, HandleStep(h)
      PROVE  LeaseInv'
  <2>z. ASSUME NEW k \in Handle
        PROVE  Backed(k) /\ InFlight(k) /\ now \in Nat
               /\ mine[k] \in OwnerRecord /\ wish[k] \in OwnerRecord
               /\ cell \in OwnerRecord /\ seen[k] \in OwnerRecord
               /\ mine[k].expires_at \in Nat /\ wish[k].expires_at \in Nat
    BY DEF LeaseInv, TypeOK, OwnerRecord
  \* The others' requests are as they were.
  <2>a. ASSUME NEW k \in Handle, k # h  PROVE InFlight(k)'
    <3>1. /\ pc'[k] = pc[k] /\ seen'[k] = seen[k] /\ wish'[k] = wish[k]
          /\ mine'[k] = mine[k] /\ now' = now
      BY <1>3, <2>a DEF HandleStep, TypeOK, AcquireGet, AcquireHeld, AcquireRenews,
         AcquireClaim, AcquirePut, AcquireConflict, RenewGet, RenewFenced, RenewPut,
         Verify, ReleaseGet, ReleasePut, ReplyLost, RequestFails, Crash, Return
    <3> QED
      BY <3>1, <2>z DEF InFlight
  \* A step that leaves the record alone keeps every claim backed.
  <2>b. ASSUME UNCHANGED <<cell, now, inDoubt>>,
               mine' = mine \/ mine' = [mine EXCEPT ![h] = None]
        PROVE  \A k \in Handle : Backed(k)'
    BY <2>b, <2>z DEF Backed, TypeOK
  <2>1. CASE AcquireGet(h)
    <3>1. InFlight(h)'
      BY <2>1, <2>z DEF AcquireGet, InFlight, TypeOK, None, Absent, OwnerRecord
    <3>2. \A k \in Handle : Backed(k)'
      BY <2>1, <2>b DEF AcquireGet, TypeOK
    <3> QED
      BY <3>1, <3>2, <2>a DEF LeaseInv
  <2>2. CASE AcquireHeld(h)
    <3>1. InFlight(h)'
      BY <2>2, <2>z DEF AcquireHeld, Return, InFlight, TypeOK, None, Absent, OwnerRecord
    <3>2. \A k \in Handle : Backed(k)'
      BY <2>2, <2>b DEF AcquireHeld, TypeOK
    <3> QED
      BY <3>1, <3>2, <2>a DEF LeaseInv
  <2>3. CASE AcquireRenews(h)
    <3>1. InFlight(h)'
      BY <2>3, <2>z DEF AcquireRenews, InFlight, TypeOK, None, Absent, OwnerRecord
    <3>2. \A k \in Handle : Backed(k)'
      BY <2>3, <2>b DEF AcquireRenews, TypeOK
    <3> QED
      BY <3>1, <3>2, <2>a DEF LeaseInv
  <2>4. CASE AcquireClaim(h)
    <3>1. InFlight(h)'
      BY <2>4, <2>z DEF AcquireClaim, Claim, InFlight, TypeOK, None, Absent, OwnerRecord
    <3>2. \A k \in Handle : Backed(k)'
      BY <2>4, <2>b DEF AcquireClaim, TypeOK
    <3> QED
      BY <3>1, <3>2, <2>a DEF LeaseInv
  <2>6. CASE AcquireConflict(h)
    <3>1. InFlight(h)'
      BY <2>6, <2>z DEF AcquireConflict, Return, InFlight, TypeOK, None, Absent, OwnerRecord
    <3>2. \A k \in Handle : Backed(k)'
      BY <2>6, <2>b DEF AcquireConflict, TypeOK
    <3> QED
      BY <3>1, <3>2, <2>a DEF LeaseInv
  <2>7. CASE RenewGet(h)
    <3>1. InFlight(h)'
      BY <2>7, <2>z DEF RenewGet, Renewal, InFlight, TypeOK, None, Absent, OwnerRecord
    <3>2. \A k \in Handle : Backed(k)'
      BY <2>7, <2>b DEF RenewGet, TypeOK
    <3> QED
      BY <3>1, <3>2, <2>a DEF LeaseInv
  <2>8. CASE RenewFenced(h)
    <3>1. InFlight(h)'
      BY <2>8, <2>z DEF RenewFenced, Return, InFlight, TypeOK, None, Absent, OwnerRecord
    <3>2. \A k \in Handle : Backed(k)'
      BY <2>8, <2>b DEF RenewFenced, TypeOK
    <3> QED
      BY <3>1, <3>2, <2>a DEF LeaseInv
  <2>10. CASE Verify(h)
    <3>1. InFlight(h)'
      BY <2>10, <2>z DEF Verify, InFlight, TypeOK, None, Absent, OwnerRecord
    <3>2. \A k \in Handle : Backed(k)'
      BY <2>10, <2>b DEF Verify, TypeOK
    <3> QED
      BY <3>1, <3>2, <2>a DEF LeaseInv
  <2>11. CASE ReleaseGet(h)
    <3>1. InFlight(h)'
      BY <2>11, <2>z DEF ReleaseGet, InFlight, TypeOK, None, Absent, OwnerRecord
    <3>2. \A k \in Handle : Backed(k)'
      BY <2>11, <2>b DEF ReleaseGet, TypeOK
    <3> QED
      BY <3>1, <3>2, <2>a DEF LeaseInv
  <2>14. CASE RequestFails(h)
    <3>1. InFlight(h)'
      BY <2>14, <2>z DEF RequestFails, Return, InFlight, TypeOK, None, Absent, OwnerRecord
    <3>2. \A k \in Handle : Backed(k)'
      BY <2>14, <2>b DEF RequestFails, TypeOK
    <3> QED
      BY <3>1, <3>2, <2>a DEF LeaseInv
  <2>15. CASE Crash(h)
    <3>1. InFlight(h)'
      BY <2>15, <2>z DEF Crash, InFlight, TypeOK, None, Absent, OwnerRecord
    <3>2. \A k \in Handle : Backed(k)'
      BY <2>15, <2>b DEF Crash, TypeOK
    <3> QED
      BY <3>1, <3>2, <2>a DEF LeaseInv
  <2>5. CASE AcquirePut(h)
    <3>1. InFlight(h)'
      BY <2>5, <2>z DEF AcquirePut, Return, Putting, InFlight, TypeOK, None, Absent
    <3>2. Backed(h)'
      BY <2>5, <2>z DEF AcquirePut, Putting, Backed, InFlight, TypeOK, EpochInv,
         PendingClaim, PendingRenewal, PendingRelease, None, Absent, OwnerRecord
    <3>3. ASSUME NEW k \in Handle, k # h  PROVE Backed(k)'
      BY <2>5, <3>3, <2>z, PutKeepsOthersBacked DEF AcquirePut, Putting, Backed, TypeOK
    <3> QED
      BY <3>1, <3>2, <3>3, <2>a DEF LeaseInv
  <2>9. CASE RenewPut(h)
    <3>1. InFlight(h)'
      BY <2>9, <2>z DEF RenewPut, Return, Putting, InFlight, TypeOK, None, Absent
    <3>2. Backed(h)'
      BY <2>9, <2>z DEF RenewPut, Putting, Backed, InFlight, TypeOK, EpochInv,
         PendingClaim, PendingRenewal, PendingRelease, None, Absent, OwnerRecord
    <3>3. ASSUME NEW k \in Handle, k # h  PROVE Backed(k)'
      BY <2>9, <3>3, <2>z, PutKeepsOthersBacked DEF RenewPut, Putting, Backed, TypeOK
    <3> QED
      BY <3>1, <3>2, <3>3, <2>a DEF LeaseInv
  <2>12. CASE ReleasePut(h)
    <3>1. InFlight(h)'
      BY <2>12, <2>z DEF ReleasePut, Return, Putting, InFlight, TypeOK, None, Absent
    <3>2. Backed(h)'
      BY <2>12, <2>z DEF ReleasePut, Putting, Backed, InFlight, TypeOK, EpochInv,
         PendingClaim, PendingRenewal, PendingRelease, None, Absent, OwnerRecord
    <3>3. ASSUME NEW k \in Handle, k # h  PROVE Backed(k)'
      BY <2>12, <3>3, <2>z, PutKeepsOthersBacked DEF ReleasePut, Putting, Backed, TypeOK
    <3> QED
      BY <3>1, <3>2, <3>3, <2>a DEF LeaseInv
  <2>13. CASE ReplyLost(h)
    <3>1. InFlight(h)'
      BY <2>13, <2>z DEF ReplyLost, Return, Putting, InFlight, TypeOK, None, Absent
    <3>2. Backed(h)'
      BY <2>13, <2>z DEF ReplyLost, Putting, Backed, InFlight, TypeOK, EpochInv,
         PendingClaim, PendingRenewal, PendingRelease, None, Absent, OwnerRecord
    <3>3. ASSUME NEW k \in Handle, k # h  PROVE Backed(k)'
      BY <2>13, <3>3, <2>z, PutKeepsOthersBacked DEF ReplyLost, Putting, Backed, TypeOK
    <3> QED
      BY <3>1, <3>2, <3>3, <2>a DEF LeaseInv
  <2> QED
    BY <1>3, <2>1, <2>2, <2>3, <2>4, <2>5, <2>6, <2>7, <2>8, <2>9, <2>10, <2>11, <2>12, <2>13, <2>14, <2>15 DEF HandleStep
<1> QED
  BY <1>1, <1>2, <1>3 DEF Next

\* When no two handles share a session -- as for the lanes -- no two of them
\* ever hold unexpired claims at once.
THEOREM LanesExclude ==
    ASSUME SessionsOfTheirOwn
    PROVE  Spec => []Exclusive
<1>1. Init => LeaseInv
  BY OwnershipAssumption DEF Init, LeaseInv, Backed, InFlight, Holds, None
<1>2. TypeOK /\ TypeOK' /\ EpochInv /\ LeaseInv /\ [Next]_ownVars => LeaseInv'
  BY LeaseStep
<1>3. TypeOK /\ EpochInv /\ LeaseInv => Exclusive
  BY LeaseExcludes
<1> QED
  BY <1>1, <1>2, <1>3, EpochInvariant, PTL DEF Spec
=============================================================================
