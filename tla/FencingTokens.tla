--------------------------- MODULE FencingTokens ---------------------------
(***************************************************************************)
(* What an ownership record promises the rest of celluloid3: epochs are    *)
(* fencing tokens.  They are issued one at a time, in increasing order,    *)
(* each to exactly one handle and never again.  Nothing is said of clocks, *)
(* leases, sessions or etags: those are how the compare-and-swap protocol  *)
(* of ownership.py keeps the promise (see Ownership).  The lane replay     *)
(* protocol (see Lane) relies on this promise and on nothing else.         *)
(***************************************************************************)
EXTENDS Naturals

CONSTANT Handle        \* the Ownership objects contending for one record

VARIABLES
    top,               \* the newest epoch issued; 0 before the first claim
    issued             \* the pairs <<epoch, handle>> issued so far

tokens == <<top, issued>>

Init ==
    /\ top = 0
    /\ issued = {}

\* The next epoch goes to h.
Issue(h) ==
    /\ top' = top + 1
    /\ issued' = issued \cup {<<top + 1, h>>}

Next == \E h \in Handle : Issue(h)

Spec == Init /\ [][Next]_tokens
=============================================================================
