-------------------------- MODULE FileStoreProofs --------------------------
(***************************************************************************)
(* Proofs about FileStore and StoreConfig, for any processes, keys, values *)
(* and calls: the directory implements ObjectStore, and whoever opens a    *)
(* store agrees on its configuration.                                      *)
(***************************************************************************)
EXTENDS StoreConfig, TLAPS

\* A process inside a call: what step it is at says of its call and reply, and
\* a condition that was checked still holds.
CallInv(p) ==
    /\ call[p] \in Calls \cup {NoCall}
    /\ step[p] \notin {"unlock", "done"} => reply[p] = NoReply
    /\ step[p] = "unlock" => reply[p] # NoReply
    /\ step[p] \in {"lock", "check", "unlink", "unlock"} => Locking(call[p])
    /\ step[p] \in {"write", "rename"} => call[p].op \in {"put", "create", "swap"}
    /\ step[p] = "unlink" => call[p].op = "delete"
    /\ step[p] \in {"write", "rename", "unlink"} => Met(call[p])

FileInv == FileTypeOK /\ \A p \in Process : CallInv(p)

LEMMA CallFacts ==
    ASSUME NEW c \in Calls
    PROVE  /\ c \in CallSet /\ c # NoCall
           /\ c.op \in {"get", "put", "create", "swap", "delete"}
           /\ c.key \in Key
           /\ c.data \in Value \cup {Absent}
           /\ c.op \in {"get", "delete"} => c.data = Absent
           /\ c.op \in {"put", "create", "swap"} => c.data \in Value
           /\ c.op = "put" => c.key \in Plain
           /\ c.op \in {"create", "swap"} => c.key \notin Plain
<1>1. c \in CallSet
  BY CallsAssumption
<1>2. c # NoCall
  BY <1>1, FileStoreAssumption
<1>3. /\ c.op \in {"get", "put", "create", "swap", "delete"}
      /\ c.key \in Key
      /\ c.data \in Value \cup {Absent}
  BY <1>1 DEF CallSet
<1>4. /\ c.op \in {"get", "delete"} => c.data = Absent
      /\ c.op \in {"put", "create", "swap"} => c.data \in Value
  BY CallsAssumption
<1>5. /\ c.op = "put" => c.key \in Plain
      /\ c.op \in {"create", "swap"} => c.key \notin Plain
  BY FileStoreAssumption
<1> QED
  BY <1>1, <1>2, <1>3, <1>4, <1>5

LEMMA Markers ==
    /\ Absent # NoReply /\ Absent # Torn /\ NoReply # Torn
    /\ Absent \notin Value /\ NoReply \notin Value /\ Torn \notin Value
    /\ "ok" # NoReply /\ "failed" # NoReply /\ "ok" # Absent /\ "failed" # Absent
    /\ Nobody \notin Process
BY FileStoreAssumption DEF Outcome

\* A process that touches nothing of another one, and no object whose condition
\* the other has checked, leaves it in order.
LEMMA OthersKeepInv ==
    ASSUME NEW p \in Process, CallInv(p),
           call'[p] = call[p], step'[p] = step[p], reply'[p] = reply[p],
           Met(call[p]) /\ step[p] \in {"write", "rename", "unlink"} => Met(call[p])'
    PROVE  CallInv(p)'
BY DEF CallInv, Locking

-----------------------------------------------------------------------------
(* The invariant of the directory                                          *)

LEMMA FileStep ==
    ASSUME FileInv, NEW p \in Process,
           (\E c \in Calls : FileCall(p, c)) \/ Proceed(p) \/ FileReturn(p)
               \/ WriteFails(p) \/ Die(p)
    PROVE  FileTypeOK'
<1> USE Markers
<1>1. ASSUME NEW c \in Calls, FileCall(p, c)
      PROVE  FileTypeOK'
  BY <1>1, CallFacts DEF FileInv, FileTypeOK, FileCall, Call, Step, Locking, CallInv
<1>2. CASE Read(p)
  BY <1>2, CallFacts DEF FileInv, FileTypeOK, Read, CallInv
<1>3. CASE Lock(p)
  BY <1>3, CallFacts DEF FileInv, FileTypeOK, Lock, Step, storeVars, CallInv
<1>4. CASE Check(p)
  BY <1>4, CallFacts DEF FileInv, FileTypeOK, Check, Step, storeVars, CallInv
<1>5. CASE CheckFails(p)
  BY <1>5, CallFacts DEF FileInv, FileTypeOK, CheckFails, Step, Outcome, CallInv
<1>6. CASE WriteTmp(p)
  BY <1>6, CallFacts DEF FileInv, FileTypeOK, WriteTmp, Step, storeVars, CallInv
<1>7. CASE Rename(p)
  BY <1>7, CallFacts DEF FileInv, FileTypeOK, Rename, Step, Outcome, CallInv
<1>8. CASE Unlink(p)
  BY <1>8, CallFacts DEF FileInv, FileTypeOK, Unlink, Step, Outcome, CallInv
<1>9. CASE Unlock(p)
  BY <1>9, CallFacts DEF FileInv, FileTypeOK, Unlock, Step, storeVars, CallInv
<1>10. CASE FileReturn(p)
  BY <1>10, CallFacts DEF FileInv, FileTypeOK, FileReturn, Return, Step, CallInv
<1>11. CASE WriteFails(p)
  BY <1>11, CallFacts DEF FileInv, FileTypeOK, WriteFails, Break, Unheld, Step, CallInv
<1>12. CASE Die(p)
  BY <1>12, CallFacts DEF FileInv, FileTypeOK, Die, Break, Unheld, Step, CallInv
<1> QED
  BY <1>1, <1>2, <1>3, <1>4, <1>5, <1>6, <1>7, <1>8, <1>9, <1>10, <1>11, <1>12 DEF Proceed

\* Whoever has checked a condition under the flock finds it true when it acts:
\* the others that write conditionally wait, and a plain put may only race a
\* delete, which wants nothing but an object that exists.
LEMMA ChangeKeepsMet ==
    ASSUME FileInv, NEW p \in Process, Rename(p) \/ Unlink(p),
           NEW q \in Process, q # p, step[q] \in {"write", "rename", "unlink"}
    PROVE  Met(call[q])'
<1> DEFINE c == call[p]
           d == call[q]
<1>1. /\ c \in Calls /\ d \in Calls /\ Met(d) /\ d' = d
      /\ step[p] \in {"rename", "unlink"}
  BY CallFacts DEF FileInv, FileTypeOK, CallInv, Rename, Unlink
<1>2. CASE d.op = "put"
  BY <1>1, <1>2 DEF Met
<1>3. CASE d.key # c.key
  <2>1. store'[d.key] = store[d.key]
    BY <1>1, <1>3, CallFacts DEF FileInv, FileTypeOK, Rename, Unlink
  <2> QED
    BY <1>1, <2>1 DEF Met
<1>4. CASE d.op # "put" /\ d.key = c.key
  <2>1. lock[d.key] = q
    BY <1>1, <1>4, CallFacts DEF FileInv, FileTypeOK, CallInv, Locking
  <2>2. ~Locking(c)
    BY <1>1, <1>4, <2>1, CallFacts DEF FileInv, FileTypeOK
  <2>3. c.op = "put" /\ step[p] = "rename" /\ tmp[p] \in Value
    BY <1>1, <2>2, CallFacts DEF FileInv, FileTypeOK, CallInv, Locking
  <2>4. d.op = "delete"
    BY <1>1, <1>4, <2>3, CallFacts DEF FileInv, CallInv
  <2>5. store'[d.key] = tmp[p]
    BY <1>1, <1>4, <2>3, CallFacts DEF FileInv, FileTypeOK, Rename, Unlink
  <2> QED
    BY <1>1, <2>3, <2>4, <2>5, Markers DEF Met
<1> QED
  BY <1>2, <1>3, <1>4

LEMMA CallInvStep ==
    ASSUME FileInv, NEW p \in Process, NEW q \in Process,
           (\E c \in Calls : FileCall(p, c)) \/ Proceed(p) \/ FileReturn(p)
               \/ WriteFails(p) \/ Die(p)
    PROVE  CallInv(q)'
<1> USE Markers
<1> SUFFICES ASSUME CallInv(p), CallInv(q), FileTypeOK PROVE CallInv(q)'
  BY DEF FileInv
<1>1. CASE q # p
  <2>1. call'[q] = call[q] /\ step'[q] = step[q] /\ reply'[q] = reply[q]
    BY <1>1 DEF FileTypeOK, FileCall, Call, Proceed, Read, Lock, Check,
       CheckFails, WriteTmp, Rename, Unlink, Unlock, FileReturn, Return, WriteFails, Die,
       Break, storeVars
  <2>2. Met(call[q]) /\ step[q] \in {"write", "rename", "unlink"} => Met(call[q])'
    <3>1. CASE Rename(p) \/ Unlink(p)
      BY <1>1, <3>1, ChangeKeepsMet
    <3>2. CASE ~(Rename(p) \/ Unlink(p))
      <4>1. store' = store
        BY <3>2 DEF FileCall, Call, Proceed, Read, Lock, Check, CheckFails, WriteTmp,
           Unlock, FileReturn, Return, WriteFails, Die, Break, storeVars
      <4> QED
        BY <2>1, <4>1 DEF Met
    <3> QED
      BY <3>1, <3>2
  <2> QED
    BY <2>1, <2>2, OthersKeepInv
<1>2. CASE q = p
  <2> SUFFICES CallInv(p)'
    BY <1>2
  <2>1. ASSUME NEW c \in Calls, FileCall(p, c)
        PROVE  CallInv(p)'
    <3>1. call'[p] = c /\ step'[p] \in {"lock", "write", "done"} /\ reply'[p] = NoReply
      BY <2>1, CallFacts DEF FileTypeOK, FileCall, Call, CallInv
    <3>2. step'[p] = "lock" <=> Locking(c)
      BY <2>1, CallFacts DEF FileTypeOK, FileCall, Locking
    <3>3. step'[p] = "write" => c.op = "put"
      BY <2>1, CallFacts DEF FileTypeOK, FileCall, Locking
    <3> QED
      BY <3>1, <3>2, <3>3 DEF CallInv, Met, Locking
  <2>2. CASE Read(p)
    BY <2>2, CallFacts DEF FileTypeOK, Read, CallInv
  <2>3. CASE Lock(p)
    BY <2>3 DEF FileTypeOK, Lock, CallInv, storeVars, Locking, Met
  <2>4. CASE Check(p)
    <3>1. Met(call[p])' /\ call' = call /\ reply' = reply
      BY <2>4 DEF Check, Met, storeVars
    <3>2. step'[p] = IF call[p].op = "delete" THEN "unlink" ELSE "write"
      BY <2>4 DEF Check, FileTypeOK
    <3> QED
      BY <2>4, <3>1, <3>2 DEF Check, CallInv, Locking
  <2>5. CASE CheckFails(p)
    BY <2>5 DEF FileTypeOK, CheckFails, CallInv, Locking
  <2>6. CASE WriteTmp(p)
    <3>1. UNCHANGED storeVars /\ step'[p] \in {"write", "rename"} /\ step[p] = "write"
      BY <2>6 DEF FileTypeOK, WriteTmp
    <3> QED
      BY <3>1 DEF CallInv, Met, storeVars, Locking
  <2>7. CASE Rename(p)
    BY <2>7 DEF FileTypeOK, Rename, CallInv, Locking
  <2>8. CASE Unlink(p)
    BY <2>8 DEF FileTypeOK, Unlink, CallInv, Locking
  <2>9. CASE Unlock(p)
    BY <2>9 DEF FileTypeOK, Unlock, CallInv, storeVars
  <2>10. CASE FileReturn(p)
    BY <2>10 DEF FileTypeOK, FileReturn, Return, CallInv
  <2>11. CASE WriteFails(p)
    BY <2>11 DEF FileTypeOK, WriteFails, Break, CallInv
  <2>12. CASE Die(p)
    BY <2>12 DEF FileTypeOK, Die, Break, CallInv
  <2> QED
    BY <2>1, <2>2, <2>3, <2>4, <2>5, <2>6, <2>7, <2>8, <2>9, <2>10, <2>11,
       <2>12 DEF Proceed
<1> QED
  BY <1>1, <1>2

LEMMA FileInvInit == FileStoreInit => FileInv
BY Markers, CallFacts DEF FileStoreInit, ObjectStoreInit, FileInv, FileTypeOK, CallInv, Step

LEMMA FileInvStep ==
    ASSUME FileInv, [FileStoreNext]_fileVars
    PROVE  FileInv'
<1>1. CASE UNCHANGED fileVars
  BY <1>1 DEF FileInv, FileTypeOK, CallInv, fileVars, storeVars, Met, Locking
<1>2. CASE FileStoreNext
  BY <1>2, FileStep, CallInvStep DEF FileStoreNext, FileInv
<1> QED
  BY <1>1, <1>2

-----------------------------------------------------------------------------
(* The directory implements the contract                                   *)

LEMMA ActsStep ==
    ASSUME FileInv, [FileStoreNext]_fileVars
    PROVE  [ObjectStoreNext]_storeVars
<1> USE Markers
<1>1. CASE UNCHANGED fileVars
  BY <1>1 DEF fileVars
<1>2. ASSUME NEW p \in Process, NEW c \in Calls, FileCall(p, c)
      PROVE  ObjectStoreNext
  BY <1>2 DEF FileCall, ObjectStoreNext
<1>3. ASSUME NEW p \in Process, FileReturn(p) \/ WriteFails(p) \/ Die(p)
      PROVE  ObjectStoreNext
  BY <1>3 DEF FileReturn, WriteFails, Die, ObjectStoreNext
<1>4. ASSUME NEW p \in Process, Lock(p) \/ Check(p) \/ WriteTmp(p) \/ Unlock(p)
      PROVE  UNCHANGED storeVars
  BY <1>4 DEF Lock, Check, WriteTmp, Unlock
<1>5. ASSUME NEW p \in Process, Read(p) \/ CheckFails(p) \/ Rename(p) \/ Unlink(p)
      PROVE  Act(p)
  <2> DEFINE c == call[p]
  <2>1. CallInv(p) /\ FileTypeOK
    BY DEF FileInv
  <2>2. c \in Calls
    BY <1>5, <2>1, CallFacts DEF CallInv, FileTypeOK, Read, CheckFails, Rename, Unlink
  <2>3. CASE Read(p)
    BY <2>2, <2>3, CallFacts DEF Read, Act
  <2>4. CASE CheckFails(p)
    BY <2>1, <2>2, <2>4, CallFacts DEF CheckFails, Act, CallInv, Locking
  <2>5. CASE Rename(p)
    <3>1. Met(c) /\ reply[p] = NoReply /\ c.op # "get" /\ tmp[p] = c.data
      BY <2>1, <2>5 DEF CallInv, FileTypeOK, Rename
    <3> QED
      BY <2>2, <2>5, <3>1, CallFacts DEF Rename, Act
  <2>6. CASE Unlink(p)
    <3>1. Met(c) /\ reply[p] = NoReply /\ c.op = "delete" /\ c.data = Absent
      BY <2>1, <2>2, <2>6, CallFacts DEF CallInv, Unlink
    <3> QED
      BY <2>2, <2>6, <3>1, CallFacts DEF Unlink, Act
  <2> QED
    BY <1>5, <2>3, <2>4, <2>5, <2>6
<1>6. CASE FileStoreNext
  <2>1. ASSUME NEW p \in Process, Proceed(p)
        PROVE  [ObjectStoreNext]_storeVars
    BY <1>4, <1>5, <2>1 DEF Proceed, ObjectStoreNext
  <2> QED
    BY <1>6, <1>2, <1>3, <2>1 DEF FileStoreNext
<1> QED
  BY <1>1, <1>6

LEMMA ConfigUsesStore ==
    ASSUME [ConfigNext]_configVars
    PROVE  [FileStoreNext]_fileVars
<1>1. CASE UNCHANGED configVars
  BY <1>1 DEF configVars
<1>2. ASSUME NEW p \in Process,
             Open(p) \/ Use(p) \/ Work(p) \/ Fail(p) \/ Crash(p)
      PROVE  FileStoreNext
  <2>1. /\ Request("get", ConfigKey, Absent, Absent) \in Calls
        /\ Request("create", ConfigKey, Mine[p], Absent) \in Calls
    BY ConfigAssumption
  <2> QED
    BY <1>2, <2>1 DEF Open, Look, Adopt, Refuse, FindNothing, Create, Win, Lose, Reread, Answered,
       Use, Work, Fail, Crash, FileStoreNext
<1> QED
  BY <1>1, <1>2 DEF ConfigNext

\* With any number of processes that open the store and use it, the directory's
\* own state is in order: locks are held by those that are past them, objects
\* and what is renamed over them are never torn.
THEOREM DirectoryInOrder == ConfigSpec => []FileTypeOK
<1>1. ConfigInit => FileInv
  BY FileInvInit DEF ConfigInit
<1>2. FileInv /\ [ConfigNext]_configVars => FileInv'
  BY FileInvStep, ConfigUsesStore
<1>3. FileInv => FileTypeOK
  BY DEF FileInv
<1> QED
  BY <1>1, <1>2, <1>3, PTL DEF ConfigSpec

\* "Conditional create and compare-and-swap are emulated with a per-key flock"
\* (objectstore.py:200): whatever processes interleave, fail and die, each call
\* takes effect at one moment or not at all.
THEOREM FlockIsAtomic == ConfigSpec => ActsAtomically
<1>1. ConfigInit => FileInv /\ ObjectStoreInit
  BY FileInvInit DEF ConfigInit, FileStoreInit
<1>2. FileInv /\ [ConfigNext]_configVars => FileInv' /\ [ObjectStoreNext]_storeVars
  BY FileInvStep, ActsStep, ConfigUsesStore
<1> QED
  BY <1>1, <1>2, PTL DEF ConfigSpec, ActsAtomically, ObjectStoreSpec

-----------------------------------------------------------------------------
(* One configuration                                                       *)

\* What the call of a process that opens the store says: it is about the
\* configuration, what it has read of it is what is stored, and a create that
\* succeeded is its own.
OpeningInv(p) ==
    /\ stage[p] \in {"new", "refused", "dead"} => call[p] = NoCall
    /\ stage[p] \in {"looking", "rereading"} =>
          /\ call[p] = NoCall \/ call[p] = Request("get", ConfigKey, Absent, Absent)
          /\ reply[p] \in Value => reply[p] = store[ConfigKey]
    /\ stage[p] = "creating" =>
          /\ call[p] = NoCall \/ call[p] = Request("create", ConfigKey, Mine[p], Absent)
          /\ reply[p] = "ok" => store[ConfigKey] = Mine[p]
    /\ stage[p] = "open" => call[p] = NoCall \/ call[p].key # ConfigKey

ConfigInv ==
    /\ FileInv
    /\ stage \in [Process -> Stage]
    /\ config \in [Process -> Value \cup {Absent}]
    /\ \A p \in Process : OpeningInv(p)
    /\ ConfigAgreement

LEMMA Requests ==
    /\ \A c \in Calls : c.key = ConfigKey => c.op \in {"get", "create"}
    /\ LET c == Request("get", ConfigKey, Absent, Absent)
       IN  c \in Calls /\ c.key = ConfigKey /\ c.op = "get"
    /\ \A p \in Process :
          LET c == Request("create", ConfigKey, Mine[p], Absent)
          IN  c \in Calls /\ c.key = ConfigKey /\ c.op = "create" /\ c.data = Mine[p]
    /\ ConfigKey \in Key /\ Mine \in [Process -> Value]
<1>1. \A c \in Calls : c.key = ConfigKey =>
         \/ c = Request("get", ConfigKey, Absent, Absent)
         \/ \E p \in Process : c = Request("create", ConfigKey, Mine[p], Absent)
  BY ConfigAssumption
<1>2. /\ Request("get", ConfigKey, Absent, Absent) \in Calls
      /\ \A p \in Process : Request("create", ConfigKey, Mine[p], Absent) \in Calls
  BY ConfigAssumption
<1> QED
  BY <1>1, <1>2, ConfigAssumption DEF Request

\* The stored configuration is written once, by a create.
LEMMA ConfigIsWrittenOnce ==
    ASSUME FileInv, NEW p \in Process,
           (\E c \in Calls : FileCall(p, c)) \/ Proceed(p) \/ FileReturn(p)
               \/ WriteFails(p) \/ Die(p),
           store'[ConfigKey] # store[ConfigKey]
    PROVE  /\ Rename(p) /\ store[ConfigKey] = Absent
           /\ call[p].key = ConfigKey /\ call[p].op = "create"
           /\ store'[ConfigKey] = call[p].data
<1>1. Rename(p) \/ Unlink(p)
  BY DEF FileCall, Call, Proceed, Read, Lock, Check, CheckFails, WriteTmp,
     Unlock, FileReturn, Return, WriteFails, Die, Break, storeVars
<1>2. FileTypeOK /\ CallInv(p) /\ call[p] \in Calls
  BY <1>1, Markers DEF FileInv, FileTypeOK, CallInv, Rename, Unlink
<1>3. call[p].key = ConfigKey
  BY <1>1, <1>2, Requests DEF FileTypeOK, Rename, Unlink
<1>4. call[p].op = "create" /\ Rename(p)
  BY <1>1, <1>2, <1>3, Requests DEF CallInv, Rename, Unlink
<1>5. store[ConfigKey] = Absent
  BY <1>2, <1>3, <1>4 DEF CallInv, Rename, Met
<1> QED
  BY <1>2, <1>3, <1>4, <1>5, Requests DEF FileTypeOK, Rename

LEMMA OthersKeepOpening ==
    ASSUME ConfigInv, NEW p \in Process, NEW q \in Process, q # p,
           (\E c \in Calls : FileCall(p, c)) \/ Proceed(p) \/ FileReturn(p)
               \/ WriteFails(p) \/ Die(p),
           stage'[q] = stage[q], config'[q] = config[q]
    PROVE  /\ OpeningInv(q)'
           /\ config'[q] # Absent => config'[q] = store'[ConfigKey]
<1>1. call'[q] = call[q] /\ reply'[q] = reply[q]
  BY DEF ConfigInv, FileInv, FileTypeOK, FileCall, Call, Proceed, Read, Lock, Check,
     CheckFails, WriteTmp, Rename, Unlink, Unlock, FileReturn, Return, WriteFails, Die,
     Break, storeVars
<1>2. store'[ConfigKey] = store[ConfigKey] \/ store[ConfigKey] = Absent
  BY ConfigIsWrittenOnce DEF ConfigInv
<1>3. Mine[q] # Absent /\ Absent \notin Value
  BY Requests, Markers
<1> QED
  BY <1>1, <1>2, <1>3 DEF ConfigInv, OpeningInv, ConfigAgreement

\* What a process makes of its own call.
LEMMA OpeningStep ==
    ASSUME ConfigInv, NEW p \in Process,
           Open(p) \/ Use(p) \/ Work(p) \/ Fail(p) \/ Crash(p)
    PROVE  /\ stage' \in [Process -> Stage]
           /\ config' \in [Process -> Value \cup {Absent}]
           /\ OpeningInv(p)'
           /\ config'[p] # Absent => config'[p] = store'[ConfigKey]
<1> USE Markers, Requests
<1>0. /\ FileTypeOK /\ CallInv(p) /\ OpeningInv(p) /\ stage \in [Process -> Stage]
      /\ config \in [Process -> Value \cup {Absent}]
      /\ config[p] # Absent => config[p] = store[ConfigKey]
  BY DEF ConfigInv, FileInv, ConfigAgreement
<1>1. CASE Look(p) \/ Reread(p)
  BY <1>0, <1>1, CallFacts DEF Look, Reread, FileCall, Call, OpeningInv, Stage, FileTypeOK, CallInv
<1>2. CASE Create(p)
  BY <1>0, <1>2, CallFacts DEF Create, FileCall, Call, OpeningInv, Stage, FileTypeOK, CallInv
<1>3. CASE Adopt(p) \/ Refuse(p)
  BY <1>0, <1>3 DEF Adopt, Refuse, Answered, FileReturn, Return, OpeningInv, Stage, FileTypeOK
<1>4. CASE FindNothing(p) \/ Lose(p)
  BY <1>0, <1>4 DEF FindNothing, Lose, Answered, FileReturn, Return, OpeningInv, Stage, FileTypeOK
<1>5. CASE Win(p)
  BY <1>0, <1>5 DEF Win, Answered, FileReturn, Return, OpeningInv, Stage, FileTypeOK
<1>6. CASE Use(p)
  BY <1>0, <1>6 DEF Use, FileCall, Call, FileReturn, Return, OpeningInv, Stage, FileTypeOK
<1>7. CASE Fail(p)
  BY <1>0, <1>7 DEF Fail, WriteFails, Break, OpeningInv, Stage, FileTypeOK
<1>8. CASE Crash(p)
  BY <1>0, <1>8 DEF Crash, Die, Break, OpeningInv, Stage, FileTypeOK
<1>9. CASE Work(p)
  <2>1. Proceed(p) /\ UNCHANGED <<stage, config, call>> /\ call[p] # NoCall /\ call[p] \in Calls
    BY <1>0, <1>9, CallFacts DEF Work, Proceed, Read, Lock, Check, CheckFails, WriteTmp, Rename,
       Unlink, Unlock, storeVars, FileTypeOK, CallInv
  <2>2. stage[p] \notin {"new", "refused", "dead"}
    BY <1>0, <2>1 DEF OpeningInv
  <2>3. \/ reply'[p] = reply[p] /\ ~Rename(p)
        \/ Read(p)
        \/ CheckFails(p) /\ Locking(call[p])
        \/ Rename(p) /\ call[p].op # "get"
        \/ Unlink(p) /\ call[p].op = "delete"
    BY <1>0, <2>1 DEF Proceed, Read, Lock, Check, CheckFails, WriteTmp, Rename, Unlink, Unlock,
       storeVars, CallInv
  <2>4. store'[ConfigKey] # store[ConfigKey] =>
            /\ Rename(p) /\ store[ConfigKey] = Absent
            /\ call[p].key = ConfigKey /\ call[p].op = "create"
            /\ store'[ConfigKey] = call[p].data
    BY <2>1, ConfigIsWrittenOnce DEF ConfigInv
  <2>5. config[p] # Absent => config[p] = store'[ConfigKey]
    BY <1>0, <2>4
  <2>6. CASE stage[p] \in {"looking", "rereading"}
    <3>1. call[p] = Request("get", ConfigKey, Absent, Absent) /\ call[p].op = "get"
      BY <1>0, <2>1, <2>6 DEF OpeningInv
    <3>2. store'[ConfigKey] = store[ConfigKey]
      BY <2>4, <3>1
    <3>3. reply'[p] = reply[p] \/ reply'[p] = store[ConfigKey]
      BY <1>0, <2>3, <3>1 DEF Locking, Read, FileTypeOK
    <3> QED
      BY <1>0, <2>1, <2>5, <2>6, <3>1, <3>2, <3>3 DEF OpeningInv
  <2>7. CASE stage[p] = "creating"
    <3>1. /\ call[p] = Request("create", ConfigKey, Mine[p], Absent)
          /\ call[p].op = "create" /\ call[p].key = ConfigKey /\ call[p].data = Mine[p]
      BY <1>0, <2>1, <2>7 DEF OpeningInv
    <3>2. CASE Rename(p)
      <4>1. store'[ConfigKey] = Mine[p]
        BY <1>0, <3>1, <3>2 DEF Rename, FileTypeOK
      <4> QED
        BY <2>1, <2>5, <2>7, <3>1, <4>1, <1>0 DEF OpeningInv
    <3>3. CASE ~Rename(p)
      <4>1. store'[ConfigKey] = store[ConfigKey]
        BY <2>4, <3>3
      <4>2. reply'[p] = reply[p] \/ reply'[p] = "failed"
        BY <1>0, <2>3, <3>1, <3>3 DEF Read, CheckFails, FileTypeOK
      <4> QED
        BY <1>0, <2>1, <2>5, <2>7, <3>1, <4>1, <4>2 DEF OpeningInv
    <3> QED
      BY <3>2, <3>3
  <2>8. CASE stage[p] = "open"
    BY <1>0, <2>1, <2>5, <2>8 DEF OpeningInv
  <2> QED
    BY <1>0, <2>2, <2>6, <2>7, <2>8 DEF Stage
<1> QED
  BY <1>1, <1>2, <1>3, <1>4, <1>5, <1>6, <1>7, <1>8, <1>9 DEF Open

LEMMA ConfigInvStep ==
    ASSUME ConfigInv, [ConfigNext]_configVars
    PROVE  ConfigInv'
<1>1. FileInv'
  BY ConfigUsesStore, FileInvStep DEF ConfigInv
<1>2. CASE UNCHANGED configVars
  BY <1>1, <1>2 DEF ConfigInv, OpeningInv, ConfigAgreement, configVars, fileVars, storeVars
<1>3. ASSUME NEW p \in Process,
             Open(p) \/ Use(p) \/ Work(p) \/ Fail(p) \/ Crash(p)
      PROVE  ConfigInv'
  <2>1. (\E c \in Calls : FileCall(p, c)) \/ Proceed(p) \/ FileReturn(p)
           \/ WriteFails(p) \/ Die(p)
    BY <1>3, Requests DEF Open, Look, Adopt, Refuse, FindNothing, Create, Win, Lose, Reread, Answered,
       Use, Work, Fail, Crash
  <2>2. \A q \in Process : q # p => stage'[q] = stage[q] /\ config'[q] = config[q]
    BY <1>3 DEF ConfigInv, Open, Look, Adopt, Refuse, FindNothing, Create, Win, Lose, Reread, Answered,
       Use, Work, Fail, Crash
  <2>3. \A q \in Process : OpeningInv(q)' /\ (config'[q] # Absent => config'[q] = store'[ConfigKey])
    BY <1>3, <2>1, <2>2, OthersKeepOpening, OpeningStep
  <2> QED
    BY <1>1, <1>3, <2>3, OpeningStep DEF ConfigInv, ConfigAgreement
<1> QED
  BY <1>2, <1>3 DEF ConfigNext

\* "A shared space can never end up with two incompatible codebooks"
\* (memory.py:92): whoever has a store open goes by the configuration that is
\* stored, however many processes open it at once, fail and die at it.
THEOREM OneCodebook == ConfigSpec => []ConfigAgreement
<1>1. ConfigInit => ConfigInv
  BY FileInvInit, Markers DEF ConfigInit, FileStoreInit, ObjectStoreInit, ConfigInv,
     OpeningInv, ConfigAgreement, Stage
<1>2. ConfigInv /\ [ConfigNext]_configVars => ConfigInv'
  BY ConfigInvStep
<1>3. ConfigInv => ConfigAgreement
  BY DEF ConfigInv
<1> QED
  BY <1>1, <1>2, <1>3, PTL DEF ConfigSpec
=============================================================================
