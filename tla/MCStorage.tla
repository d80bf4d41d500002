------------------------------ MODULE MCStorage ------------------------------
(* Small instances of what guards a session's data on its way to storage and *)
(* in it: the write path, the two backends' sessions, messages and cards,    *)
(* workspaces, exports and the session cache.  These parts share no state,   *)
(* so a behaviour exercises one of them and the others stay as they were.    *)
EXTENDS WritePath, Messages, SurrealCards, SurrealSessions, RocksSessions,
        Workspaces, Transfer, SessionCache

VARIABLE part   \* the part this behaviour is about

wpVars == <<vars, breakerVars>>
storageVars == <<part, wpVars, messageVars, surrealCardVars, surrealVars, rocksVars,
                 workspaceVars, transferVars, cacheVars>>

StorageInit ==
    /\ part \in {"write", "messages", "cards", "surreal", "rocks", "workspaces",
                 "transfer", "cache"}
    /\ WPInit /\ MessageInit /\ CardInit /\ SurrealInit /\ SessionCacheInit
    /\ RocksInit /\ (part # "rocks" => ~rBlob.some /\ ~rIndex.some)
    /\ WorkspaceInit /\ (part # "workspaces" => wsBackend = "rocksdb")
    /\ TransferInit /\ (part # "transfer" => trBackend.source = "rocksdb" /\ trFile = {})

StorageNext ==
    \/ /\ part = "write" /\ WPNext
       /\ UNCHANGED <<part, messageVars, surrealCardVars, surrealVars, rocksVars,
                      workspaceVars, transferVars, cacheVars>>
    \/ /\ part = "messages" /\ MessageNext
       /\ UNCHANGED <<part, wpVars, surrealCardVars, surrealVars, rocksVars,
                      workspaceVars, transferVars, cacheVars>>
    \/ /\ part = "cards" /\ CardNext
       /\ UNCHANGED <<part, wpVars, messageVars, surrealVars, rocksVars,
                      workspaceVars, transferVars, cacheVars>>
    \/ /\ part = "surreal" /\ SurrealNext
       /\ UNCHANGED <<part, wpVars, messageVars, surrealCardVars, rocksVars,
                      workspaceVars, transferVars, cacheVars>>
    \/ /\ part = "rocks" /\ RocksNext
       /\ UNCHANGED <<part, wpVars, messageVars, surrealCardVars, surrealVars,
                      workspaceVars, transferVars, cacheVars>>
    \/ /\ part = "workspaces" /\ WorkspaceNext
       /\ UNCHANGED <<part, wpVars, messageVars, surrealCardVars, surrealVars, rocksVars,
                      transferVars, cacheVars>>
    \/ /\ part = "transfer" /\ TransferNext
       /\ UNCHANGED <<part, wpVars, messageVars, surrealCardVars, surrealVars, rocksVars,
                      workspaceVars, cacheVars>>
    \/ /\ part = "cache" /\ SessionCacheNext
       /\ UNCHANGED <<part, wpVars, messageVars, surrealCardVars, surrealVars, rocksVars,
                      workspaceVars, transferVars>>

StorageSpec == StorageInit /\ [][StorageNext]_storageVars

-----------------------------------------------------------------------------
(* Constants. *)

TwoTurns ==
    LET M == [turn : Turns, old : BOOLEAN] IN {<<m>> : m \in M} \cup {<<m, n>> : m, n \in M}

MCMentions == <<{"a", "b"}, {"b"}>>

Holding(s, w, c, v) == [sessions |-> s, workspaces |-> w, checks |-> c, vectors |-> v]
MCTrSource ==
    Holding([x \in {"s", "t"} |-> {1}], [x \in {"w"} |-> [s |-> "Primary", t |-> "Related"]],
          {"c"}, {<<"s", 1>>})
MCTrTargets == {Holding([x \in {"t"} |-> {3}], [x \in {"w"} |-> [u |-> "Related"]], {}, {})}
MCTrBackends == {<<"rocksdb", "surrealdb">>, <<"surrealdb", "rocksdb">>}
MCTrKinds ==
    {[kind |-> "full", sessions |-> {}, workspace |-> "", checkpoints |-> TRUE],
     [kind |-> "sessions", sessions |-> {"t"}, workspace |-> "", checkpoints |-> FALSE],
     [kind |-> "workspace", sessions |-> {}, workspace |-> "w", checkpoints |-> FALSE]}
MCTrOptions ==
    {[filter |-> {}, skip |-> FALSE, overwrite |-> TRUE],
     [filter |-> {"s"}, skip |-> TRUE, overwrite |-> FALSE]}
MCTrOld == {<<1, 1, 3>>}
MCTrNew == {<<"t", 2>>}

=============================================================================
