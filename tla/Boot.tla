--------------------------------- MODULE Boot ---------------------------------
(***************************************************************************)
(* The api container (docker/api-entrypoint.sh): it waits for the graph,   *)
(* creates the SQLite tables, restores the committed snapshot when the     *)
(* graph is empty (snapshot.py) and then serves, here the requests of      *)
(* GoldenRecord.  Its two volumes outlive it; a crash ends it anywhere.    *)
(*                                                                         *)
(* Each statement of the snapshot and each chunk's vector is a commit.     *)
(* The container's mode picks the embedder.                                *)
(***************************************************************************)
EXTENDS GoldenRecord

CONSTANTS
    Statements,     \* how many statements the snapshot has
    ChunksAt,       \* statement -> the chunks it creates
    NewChunk,       \* chunks that ingests may add
    Attempts,       \* connection attempts before giving up (60 in the code)
    MaxBoots        \* bound on boots

Chunk == UNION {ChunksAt[i] : i \in 1 .. Statements}
Mode == {"hash", "fastembed"}       \* EMBED_BACKEND of the stub and full modes
NoVector == "none"

ASSUME BootAssumption ==
    /\ Statements \in Nat \ {0} /\ DOMAIN ChunksAt = 1 .. Statements
    /\ Chunk \cap NewChunk = {} /\ Attempts \in Nat \ {0} /\ MaxBoots \in Nat

VARIABLES
    container,      \* "down", "waiting", "sqlite", "restoring", "serving"
    boots,          \* boots so far
    mode,           \* the container's embedder
    attempt,        \* connections tried
    restore,        \* the restore under way: [pc, force, todo]
    loaded,         \* how many of the snapshot's statements the graph has seen
    vector,         \* chunk -> the embedder its vector is from; only chunks in the graph
    cutShort,       \* history: a boot's restore that had begun to load was cut
    switched        \* history: the mode changed over a graph that has vectors

graph == <<loaded, vector>>
bootVars == <<container, boots, mode, attempt, restore, graph, cutShort, switched>>
vars == <<goldenVars, bootVars>>

NoRestore == [pc |-> "off", force |-> FALSE, todo |-> {}]

Init ==
    /\ GoldenInit
    /\ container = "down" /\ boots = 0 /\ mode \in Mode /\ attempt = 0
    /\ restore = NoRestore
    /\ loaded = 0 /\ vector = <<>>
    /\ cutShort = FALSE /\ switched = FALSE

\* bootstrap.sh: MODE may differ from the one of the boot before.
Start ==
    /\ container = "down" /\ boots < MaxBoots
    /\ container' = "waiting" /\ boots' = boots + 1 /\ attempt' = 0
    /\ mode' \in Mode
    /\ switched' = (switched \/ (mode' # mode /\ DOMAIN vector # {}))
    /\ UNCHANGED <<goldenVars, restore, graph, cutShort>>

Reachable ==
    /\ container = "waiting"
    /\ container' = "sqlite"
    /\ UNCHANGED <<goldenVars, boots, mode, attempt, restore, graph, cutShort, switched>>

\* The graph does not answer; after the last attempt the container exits.
Unreachable ==
    /\ container = "waiting"
    /\ attempt' = attempt + 1
    /\ container' = IF attempt + 1 = Attempts THEN "down" ELSE "waiting"
    /\ UNCHANGED <<goldenVars, boots, mode, restore, graph, cutShort, switched>>

InitSqlite ==
    /\ container = "sqlite"
    /\ container' = "restoring"
    /\ restore' = [NoRestore EXCEPT !.pc = "check"]
    /\ UNCHANGED <<goldenVars, boots, mode, attempt, graph, cutShort, switched>>

GraphIsEmpty == loaded = 0 /\ DOMAIN vector = {} /\ \A k \in DOMAIN node : node[k] = NoRow

\* The restore is over: the container goes on to serve.
RestoreEnds ==
    /\ restore' = NoRestore
    /\ container' = "serving"

\* Mutant: the restore waits for the graph to become empty.
CheckGraphWaiting ==
    /\ restore.pc = "check" /\ (restore.force \/ GraphIsEmpty)
    /\ restore' = [restore EXCEPT !.pc = "load", !.todo = 1 .. Statements]
    /\ UNCHANGED <<goldenVars, container, boots, mode, attempt, graph, cutShort, switched>>

CheckGraph ==
    /\ restore.pc = "check"
    /\ IF restore.force \/ GraphIsEmpty
       THEN /\ restore' = [restore EXCEPT !.pc = "load", !.todo = 1 .. Statements]
            /\ UNCHANGED container
       ELSE RestoreEnds
    /\ UNCHANGED <<goldenVars, boots, mode, attempt, graph, cutShort, switched>>

\* Mutant: a statement that fails is passed over.
LoadStatementOrNot ==
    /\ restore.pc = "load" /\ restore.todo # {}
    /\ restore' = [restore EXCEPT !.todo = @ \ {Min(restore.todo)}]
    /\ UNCHANGED <<goldenVars, container, boots, mode, attempt, graph, cutShort, switched>>

\* The statements MERGE: loading again what is there changes nothing.
LoadStatement ==
    /\ restore.pc = "load" /\ restore.todo # {}
    /\ LET i == Min(restore.todo) IN
        /\ loaded' = Max({loaded, i})
        /\ vector' = [c \in DOMAIN vector \cup ChunksAt[i] |->
                        IF c \in DOMAIN vector THEN vector[c] ELSE NoVector]
        /\ restore' = [restore EXCEPT !.todo = @ \ {i}]
    /\ UNCHANGED <<goldenVars, container, boots, mode, attempt, cutShort, switched>>

\* _set_chunk_embeddings reads every chunk of the graph; the vectors are
\* computed before the first is set.
Embed ==
    /\ restore.pc = "load" /\ restore.todo = {}
    /\ restore' = [restore EXCEPT !.pc = "embed", !.todo = DOMAIN vector]
    /\ UNCHANGED <<goldenVars, container, boots, mode, attempt, graph, cutShort, switched>>

SetVector ==
    /\ restore.pc = "embed"
    /\ \E c \in restore.todo :
        /\ vector' = [vector EXCEPT ![c] = mode]
        /\ restore' = [restore EXCEPT !.todo = @ \ {c}]
    /\ UNCHANGED <<goldenVars, container, boots, mode, attempt, loaded, cutShort, switched>>

Restored ==
    /\ restore.pc = "embed" /\ restore.todo = {}
    /\ RestoreEnds
    /\ cutShort' = FALSE /\ switched' = FALSE
    /\ UNCHANGED <<goldenVars, boots, mode, attempt, graph>>

\* Bound: restores and ingests touch other data than the requests of
\* GoldenRecord, and are taken when none is under way.
Quiet == container = "serving" /\ restore.pc = "off" /\ \A r \in Request : req[r] = Idle

\* `python -m api.snapshot --restore --force` in the serving container.
ForceRestore ==
    /\ Quiet
    /\ restore' = [NoRestore EXCEPT !.pc = "check", !.force = TRUE]
    /\ UNCHANGED <<goldenVars, container, boots, mode, attempt, graph, cutShort, switched>>

\* Its process fails or dies, and the container serves on: what the restore
\* had loaded again was there, unless an earlier one was cut.
ForceFails ==
    /\ restore.force
    /\ restore' = NoRestore
    /\ UNCHANGED <<goldenVars, container, boots, mode, attempt, graph, cutShort, switched>>

\* A document's ingest embeds its chunks with the container's embedder.
Ingest ==
    /\ Quiet
    /\ \E c \in NewChunk \ DOMAIN vector :
        vector' = [d \in DOMAIN vector \cup {c} |-> IF d = c THEN mode ELSE vector[d]]
    /\ UNCHANGED <<goldenVars, container, boots, mode, attempt, restore, loaded, cutShort, switched>>

\* Any statement of the entrypoint fails (set -eu), or the container dies.
\* The vectors' computation may fail too, between loading and embedding.
Crash ==
    /\ container # "down"
    /\ container' = "down" /\ restore' = NoRestore
    /\ cutShort' = (cutShort \/ (restore.pc \in {"load", "embed"} /\ loaded > 0 /\ ~restore.force))
    /\ CutAll(Request)
    /\ UNCHANGED <<boots, mode, attempt, graph, switched>>

Serve == container = "serving" /\ restore.pc = "off" /\ GoldenNext /\ UNCHANGED bootVars

Entrypoint ==
    \/ Reachable \/ Unreachable \/ InitSqlite
    \/ CheckGraph \/ LoadStatement \/ Embed \/ SetVector \/ Restored

Next == Start \/ Entrypoint \/ ForceRestore \/ ForceFails \/ Ingest \/ Crash \/ Serve

\* The entrypoint is a script and the restore a loop: they go on until they
\* end or fail.  Nobody has to boot the container.
Spec == Init /\ [][Next]_vars /\ WF_vars(Entrypoint)

-------------------------------------------------------------------------------
(* Properties *)

\* "the api container restores them on first boot when the graph is empty":
\* what serves has every statement and every chunk a vector, unless a boot's
\* restore was cut after its first commit; then the graph is not empty, and only a
\* forced restore, which must complete it, makes up for that.  The chunks are
\* embedded as queries will be ("both must come from the same embedder",
\* docs/ARCHITECTURE.md), unless the mode changed over an embedded graph.
ServesWholeSnapshot ==
    container = "serving" /\ ~cutShort =>
        /\ loaded = Statements /\ Chunk \subseteq DOMAIN vector
        /\ restore.pc = "off" => \A c \in DOMAIN vector :
            vector[c] # NoVector /\ (switched \/ vector[c] = mode)

\* A container that boots comes to serve or to exit; it neither waits for
\* ever for the graph nor hangs on one that is already populated.
BootEnds == container = "waiting" ~> container \in {"serving", "down"}
===============================================================================
