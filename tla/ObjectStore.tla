---------------------------- MODULE ObjectStore ----------------------------
(***************************************************************************)
(* The contract of objectstore.py: get, put, conditional create,           *)
(* compare-and-swap and delete of single objects take effect at one moment *)
(* between the call and the return.  An ETag is a digest of the body, so   *)
(* If-Match compares contents.                                             *)
(*                                                                         *)
(* InMemoryObjectStore does just this, a dictionary behind one lock;       *)
(* module FileStore shows that FileObjectStore does it too.                *)
(***************************************************************************)
CONSTANTS
    Process, Key, Value,
    Calls,          \* the calls that are made
    Absent,         \* no object under the key
    NoCall, NoReply

VARIABLES
    store,          \* key -> value or Absent
    call,           \* the call a process is in, or NoCall
    reply           \* what it will return: a value, Absent, or one of Outcome

storeVars == <<store, call, reply>>

Outcome == {"ok", "failed"}         \* failed: PreconditionFailed, or False from delete()

CallSet ==
    [op : {"get", "put", "create", "swap", "delete"}, key : Key,
     data : Value \cup {Absent}, match : Value \cup {Absent}]

ASSUME CallsAssumption ==
    /\ Calls \subseteq CallSet
    /\ \A c \in Calls : /\ c.op \in {"get", "delete"} => c.data = Absent
                        /\ c.op \in {"put", "create", "swap"} => c.data \in Value
                        /\ c.op = "swap" => c.match \in Value

ObjectStoreInit ==
    /\ store = [k \in Key |-> Absent]
    /\ call = [p \in Process |-> NoCall]
    /\ reply = [p \in Process |-> NoReply]

Call(p, c) ==
    /\ call[p] = NoCall
    /\ call' = [call EXCEPT ![p] = c]
    /\ UNCHANGED <<store, reply>>

\* The precondition of call c holds of what is stored.
Met(c) ==
    CASE c.op = "create" -> store[c.key] = Absent
      [] c.op = "swap" -> store[c.key] = c.match
      [] c.op = "delete" -> store[c.key] # Absent
      [] OTHER -> TRUE

\* The call takes effect: reads, or checks its condition and writes.
Act(p) ==
    LET c == call[p]
    IN  /\ c # NoCall /\ reply[p] = NoReply
        /\ reply' = [reply EXCEPT ![p] =
                        IF c.op = "get" THEN store[c.key]
                        ELSE IF Met(c) THEN "ok" ELSE "failed"]
        /\ store' = IF c.op # "get" /\ Met(c)
                    THEN [store EXCEPT ![c.key] = c.data] ELSE store
        /\ UNCHANGED call

Return(p) ==
    /\ call[p] # NoCall /\ reply[p] # NoReply
    /\ call' = [call EXCEPT ![p] = NoCall]
    /\ reply' = [reply EXCEPT ![p] = NoReply]
    /\ UNCHANGED store

\* The call ends without a reply, whether it took effect or not: an I/O error,
\* or the end of the process.
Break(p) ==
    /\ call[p] # NoCall
    /\ call' = [call EXCEPT ![p] = NoCall]
    /\ reply' = [reply EXCEPT ![p] = NoReply]
    /\ UNCHANGED store

ObjectStoreNext ==
    \E p \in Process : \/ \E c \in Calls : Call(p, c)
                       \/ Act(p) \/ Return(p) \/ Break(p)

ObjectStoreSpec == ObjectStoreInit /\ [][ObjectStoreNext]_storeVars
=============================================================================
