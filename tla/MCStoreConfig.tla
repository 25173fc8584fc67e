--------------------------- MODULE MCStoreConfig ---------------------------
(* An instance of StoreConfig for TLC: two processes that would create     *)
(* different configurations; a key that is only put under conditions and   *)
(* one that is only put without.                                           *)
EXTENDS StoreConfig

CONSTANTS p1, p2, settings, tag, blob, v1, v2

MCProcess == {p1, p2}
MCKey == {settings, tag, blob}
MCPlain == {blob}
MCValue == {v1, v2}
MCMine == [p \in MCProcess |-> IF p = p1 THEN v1 ELSE v2]

MCCalls ==
    {Request("get", k, Absent, Absent) : k \in MCKey} \cup
    {Request("delete", k, Absent, Absent) : k \in {tag, blob}} \cup
    {Request("create", settings, MCMine[p], Absent) : p \in MCProcess} \cup
    {Request("create", tag, v1, Absent), Request("put", blob, v1, Absent)} \cup
    {Request("swap", tag, d, m) : d \in MCValue, m \in MCValue}
=============================================================================
