----------------------------- MODULE FileStore -----------------------------
(***************************************************************************)
(* FileObjectStore of objectstore.py: a directory that behaves like a      *)
(* bucket.  A conditional write or a delete takes the key's flock, checks, *)
(* writes a temporary file, renames it over the object and unlocks; a      *)
(* plain put does without the lock.  Processes (or threads, whose          *)
(* descriptors flock tells apart) run this side by side and die at any     *)
(* step; the kernel drops the lock of a dead one.                          *)
(***************************************************************************)
EXTENDS ObjectStore

CONSTANTS
    Nobody,         \* nobody holds the flock
    Torn,           \* a temporary file written in part
    Plain           \* keys that are put without conditions, as segments and
                    \* blobs are; others are never put without

ASSUME FileStoreAssumption ==
    /\ Plain \subseteq Key
    /\ Nobody \notin Process
    /\ {Absent, NoReply, Torn} \cap (Value \cup Outcome) = {}
    /\ Absent # NoReply /\ Absent # Torn /\ NoReply # Torn
    /\ NoCall \notin CallSet
    /\ \A c \in Calls : /\ c.op = "put" => c.key \in Plain
                        /\ c.op \in {"create", "swap"} => c.key \notin Plain

VARIABLES
    step,           \* where in put() or delete() a process is
    lock,           \* key -> the process that holds its flock
    tmp             \* process -> its temporary file: a value, Torn or Absent
                    \* (one left behind is never read: it counts as Absent)

fileVars == <<storeVars, step, lock, tmp>>

Step == {"idle", "lock", "check", "write", "rename", "unlink", "unlock", "done"}

\* Calls that take the flock.
Locking(c) == c.op \in {"create", "swap", "delete"}

FileStoreInit ==
    /\ ObjectStoreInit
    /\ step = [p \in Process |-> "idle"]
    /\ lock = [k \in Key |-> Nobody]
    /\ tmp = [p \in Process |-> Absent]

FileCall_Unlocked(p, c) ==
    /\ Call(p, c)
    /\ step' = [step EXCEPT ![p] = IF Locking(c) THEN "check" ELSE
                                   IF c.op = "put" THEN "write" ELSE "done"]
    /\ UNCHANGED <<lock, tmp>>

\* Entry of get(), put() or delete().
FileCall(p, c) ==
    /\ Call(p, c)
    /\ step' = [step EXCEPT ![p] = IF Locking(c) THEN "lock" ELSE
                                   IF c.op = "put" THEN "write" ELSE "done"]
    /\ UNCHANGED <<lock, tmp>>

\* get_with_etag: an open file is one version of the object, whole.
Read(p) ==
    /\ step[p] = "done" /\ call[p].op = "get" /\ reply[p] = NoReply
    /\ reply' = [reply EXCEPT ![p] = store[call[p].key]]
    /\ UNCHANGED <<store, call, step, lock, tmp>>

Lock_Barges(p) ==
    /\ step[p] = "lock"
    /\ lock' = [lock EXCEPT ![call[p].key] = p]
    /\ step' = [step EXCEPT ![p] = "check"]
    /\ UNCHANGED <<storeVars, tmp>>

\* flock(LOCK_EX).
Lock(p) ==
    /\ step[p] = "lock" /\ lock[call[p].key] = Nobody
    /\ lock' = [lock EXCEPT ![call[p].key] = p]
    /\ step' = [step EXCEPT ![p] = "check"]
    /\ UNCHANGED <<storeVars, tmp>>

\* The condition, on the object as it is now.
Check(p) ==
    /\ step[p] = "check" /\ Met(call[p])
    /\ step' = [step EXCEPT ![p] = IF call[p].op = "delete" THEN "unlink" ELSE "write"]
    /\ UNCHANGED <<storeVars, lock, tmp>>

CheckFails_KeepsLock(p) ==
    /\ step[p] = "check" /\ ~Met(call[p])
    /\ reply' = [reply EXCEPT ![p] = "failed"]
    /\ step' = [step EXCEPT ![p] = "done"]
    /\ UNCHANGED <<store, call, lock, tmp>>

CheckFails(p) ==
    /\ step[p] = "check" /\ ~Met(call[p])
    /\ reply' = [reply EXCEPT ![p] = "failed"]
    /\ step' = [step EXCEPT ![p] = "unlock"]
    /\ UNCHANGED <<store, call, lock, tmp>>

\* _write: the temporary file, in two pieces ...
WriteTmp(p) ==
    /\ step[p] = "write"
    /\ tmp' = [tmp EXCEPT ![p] = IF @ = Torn THEN call[p].data ELSE Torn]
    /\ step' = IF tmp[p] = Torn THEN [step EXCEPT ![p] = "rename"] ELSE step
    /\ UNCHANGED <<storeVars, lock>>

\* ... and os.replace.
Rename(p) ==
    /\ step[p] = "rename"
    /\ store' = [store EXCEPT ![call[p].key] = tmp[p]]
    /\ tmp' = [tmp EXCEPT ![p] = Absent]
    /\ reply' = [reply EXCEPT ![p] = "ok"]
    /\ step' = [step EXCEPT ![p] = IF Locking(call[p]) THEN "unlock" ELSE "done"]
    /\ UNCHANGED <<call, lock>>

Unlink(p) ==
    /\ step[p] = "unlink"
    /\ store' = [store EXCEPT ![call[p].key] = Absent]
    /\ reply' = [reply EXCEPT ![p] = "ok"]
    /\ step' = [step EXCEPT ![p] = "unlock"]
    /\ UNCHANGED <<call, lock, tmp>>

Unlock(p) ==
    /\ step[p] = "unlock"
    /\ lock' = [lock EXCEPT ![call[p].key] = Nobody]
    /\ step' = [step EXCEPT ![p] = "done"]
    /\ UNCHANGED <<storeVars, tmp>>

FileReturn(p) ==
    /\ step[p] = "done"
    /\ Return(p)
    /\ step' = [step EXCEPT ![p] = "idle"]
    /\ UNCHANGED <<lock, tmp>>

Unheld(p) == [k \in Key |-> IF lock[k] = p THEN Nobody ELSE lock[k]]

\* An I/O error while writing: the lock is released on the way out.
WriteFails(p) ==
    /\ step[p] \in {"write", "rename"}
    /\ Break(p)
    /\ step' = [step EXCEPT ![p] = "idle"]
    /\ lock' = Unheld(p)
    /\ tmp' = [tmp EXCEPT ![p] = Absent]

\* The process dies inside a call.
Die(p) ==
    /\ Break(p)
    /\ step' = [step EXCEPT ![p] = "idle"]
    /\ lock' = Unheld(p)
    /\ tmp' = [tmp EXCEPT ![p] = Absent]

\* The steps of a call once it is made.
Proceed(p) ==
    \/ Read(p) \/ Lock(p) \/ Check(p) \/ CheckFails(p) \/ WriteTmp(p)
    \/ Rename(p) \/ Unlink(p) \/ Unlock(p)

FileStoreNext ==
    \E p \in Process : \/ \E c \in Calls : FileCall(p, c)
                       \/ Proceed(p) \/ FileReturn(p) \/ WriteFails(p) \/ Die(p)

FileStoreSpec == FileStoreInit /\ [][FileStoreNext]_fileVars

-----------------------------------------------------------------------------
(* Properties                                                              *)

\* The directory's own bookkeeping: whoever is past the lock of a key is the
\* one that holds it, the object is never a torn one, and what is about to be
\* renamed is whole.
FileTypeOK ==
    /\ store \in [Key -> Value \cup {Absent}]
    /\ call \in [Process -> CallSet \cup {NoCall}]
    /\ reply \in [Process -> Value \cup Outcome \cup {Absent, NoReply}]
    /\ step \in [Process -> Step]
    /\ lock \in [Key -> Process \cup {Nobody}]
    /\ tmp \in [Process -> Value \cup {Absent, Torn}]
    /\ \A p \in Process :
          /\ (step[p] = "idle") <=> (call[p] = NoCall)
          /\ step[p] = "rename" => tmp[p] = call[p].data
    /\ \A p \in Process, k \in Key :
          (lock[k] = p) <=> /\ step[p] \notin {"idle", "lock", "done"}
                            /\ call[p].key = k /\ Locking(call[p])

\* "Conditional create and compare-and-swap are emulated with a per-key flock"
\* (objectstore.py:200): with processes that interleave, fail and die at every
\* step, every call takes effect at one moment or not at all.
ActsAtomically == ObjectStoreSpec

\* No lock is kept: not by a failed condition, a failed write or a dead process.
LocksAreReleased ==
    \A k \in Key, p \in Process : lock[k] = p ~> lock[k] # p
=============================================================================
