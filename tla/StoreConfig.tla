---------------------------- MODULE StoreConfig ----------------------------
(***************************************************************************)
(* Processes that open a store and then use it: load_or_create_config of   *)
(* memory.py over the directory of FileStore, followed by whatever calls   *)
(* on other keys.  Everybody must end up with one configuration.           *)
(***************************************************************************)
EXTENDS FileStore

CONSTANTS
    ConfigKey,
    Mine            \* process -> the one it would create

Request(o, k, d, m) == [op |-> o, key |-> k, data |-> d, match |-> m]

ASSUME ConfigAssumption ==
    /\ ConfigKey \in Key \ Plain
    /\ Mine \in [Process -> Value]
    /\ {Request("get", ConfigKey, Absent, Absent)} \cup
       {Request("create", ConfigKey, Mine[p], Absent) : p \in Process} =
           {c \in Calls : c.key = ConfigKey}

VARIABLES
    stage,          \* where in opening the store each process is
    config          \* the configuration it goes by, or Absent

configVars == <<fileVars, stage, config>>

Stage == {"new", "looking", "creating", "rereading", "open", "refused", "dead"}

\* A call has got its reply; the caller goes on to stage s.
Answered(p, s) ==
    /\ FileReturn(p)
    /\ stage' = [stage EXCEPT ![p] = s]

Look(p) ==
    /\ stage[p] = "new"
    /\ FileCall(p, Request("get", ConfigKey, Absent, Absent))
    /\ stage' = [stage EXCEPT ![p] = "looking"]
    /\ UNCHANGED config

\* _read_config: what is stored is adopted.
Adopt(p) ==
    /\ stage[p] \in {"looking", "rereading"} /\ reply[p] \in Value
    /\ Answered(p, "open")
    /\ config' = [config EXCEPT ![p] = reply[p]]

\* ValueError: what is stored has not the dim asked for, or there is nothing and
\* no dim to create it with.  Which dim is asked for is left open: a process
\* that names none takes any dim at its first look, but insists on its own
\* default once it has lost the race to create.
Refuse(p) ==
    /\ stage[p] \in {"looking", "rereading"} /\ reply[p] # NoReply
    /\ Answered(p, "refused")
    /\ UNCHANGED config

\* Nothing there: the next call of this process creates its own.
FindNothing(p) ==
    /\ stage[p] = "looking" /\ reply[p] = Absent
    /\ Answered(p, "creating")
    /\ UNCHANGED config

Create(p) ==
    /\ stage[p] = "creating" /\ call[p] = NoCall
    /\ FileCall(p, Request("create", ConfigKey, Mine[p], Absent))
    /\ UNCHANGED <<stage, config>>

Win(p) ==
    /\ stage[p] = "creating" /\ reply[p] = "ok"
    /\ Answered(p, "open")
    /\ config' = [config EXCEPT ![p] = Mine[p]]

Lose_KeepsMine(p) ==
    /\ stage[p] = "creating" /\ reply[p] = "failed"
    /\ Answered(p, "open")
    /\ config' = [config EXCEPT ![p] = Mine[p]]

Lose_Retries(p) ==
    /\ stage[p] = "creating" /\ reply[p] = "failed"
    /\ Answered(p, "creating")
    /\ UNCHANGED config

\* PreconditionFailed: somebody else won.
Lose(p) ==
    /\ stage[p] = "creating" /\ reply[p] = "failed"
    /\ Answered(p, "rereading")
    /\ UNCHANGED config

Reread(p) ==
    /\ stage[p] = "rereading" /\ call[p] = NoCall
    /\ FileCall(p, Request("get", ConfigKey, Absent, Absent))
    /\ UNCHANGED <<stage, config>>

\* The store in use: any call on the other keys.
Use(p) ==
    /\ stage[p] = "open"
    /\ \/ \E c \in Calls : c.key # ConfigKey /\ FileCall(p, c)
       \/ FileReturn(p)
    /\ UNCHANGED <<stage, config>>

\* An error leaves an open store open, and the opening of one undone.
Fail(p) ==
    /\ WriteFails(p)
    /\ stage' = [stage EXCEPT ![p] = IF @ = "open" THEN "open" ELSE "new"]
    /\ UNCHANGED config

Crash(p) ==
    /\ Die(p)
    /\ stage' = [stage EXCEPT ![p] = "dead"]
    /\ config' = [config EXCEPT ![p] = Absent]

Work(p) == Proceed(p) /\ UNCHANGED <<stage, config>>

Open(p) ==
    \/ Look(p) \/ Adopt(p) \/ Refuse(p) \/ FindNothing(p) \/ Create(p)
    \/ Win(p) \/ Lose(p) \/ Reread(p)

ConfigInit ==
    /\ FileStoreInit
    /\ stage = [p \in Process |-> "new"]
    /\ config = [p \in Process |-> Absent]

ConfigNext ==
    \E p \in Process : Open(p) \/ Use(p) \/ Work(p) \/ Fail(p) \/ Crash(p)

\* Whoever has begun a call or an opening goes on with it; the kernel queues
\* those that wait for a flock.
ConfigSpec ==
    /\ ConfigInit /\ [][ConfigNext]_configVars
    /\ \A p \in Process : /\ WF_configVars(Open(p)) /\ WF_configVars(Work(p))
                          /\ SF_configVars(Lock(p) /\ UNCHANGED <<stage, config>>)

-----------------------------------------------------------------------------
(* Properties                                                              *)

\* "A shared space can never end up with two incompatible codebooks"
\* (memory.py:92): whoever has opened the store goes by what it says.
ConfigAgreement ==
    \A p \in Process : config[p] # Absent => config[p] = store[ConfigKey]

\* Whoever opens a store has it open in the end, or is told why not, however
\* many others open it or die at it.  An error sends it back to the start.
StoreOpens ==
    \A p \in Process :
        stage[p] = "looking" ~> stage[p] \in {"open", "refused", "new", "dead"}
=============================================================================
