------------------------------- MODULE Transfer -------------------------------
(***************************************************************************)
(* pcx export, pcx import and pcx migrate.  An export walks the source     *)
(* storage and writes one file; an import walks a file and saves it into   *)
(* the target; a migration walks a RocksDB directory and saves it into     *)
(* SurrealDB.  Nothing of it is one transaction: every item is read or     *)
(* saved by a call of its own, which may fail, and the process may be      *)
(* killed between two.  A RocksDB directory is locked by whoever has it    *)
(* open; a SurrealDB server may serve a daemon meanwhile.                  *)
(*                                                                         *)
(* A session is the set of its updates, a workspace the roles of its       *)
(* sessions; names, graphs and texts are left out.                         *)
(***************************************************************************)
EXTENDS Naturals, Sequences, FiniteSets, SequencesExt

CONSTANTS
    TrSource,    \* what the source holds at first
    TrTargets,   \* what the target may hold at first
    TrBackends,  \* pairs of backends <<source, target>>
    TrKinds,     \* exports asked for: [kind, sessions, workspace, checkpoints]
    TrPaths,     \* extensions of the file: "json", "json.gz"
    TrCompress,  \* the --compress option: "unset", "none", "gzip"
    TrOptions,   \* imports asked for: [filter, skip, overwrite]
    TrOld,       \* format versions of files made by other releases
    TrPage,      \* embeddings in a page
    TrNew,       \* updates the source's daemon may add: <<session, update>>
    MaxErrors,   \* bound: failed calls
    MaxTransfers \* bound: commands run

Version == <<1, 2, 0>>
Supported == {<<1, 0, 0>>, <<1, 1, 0>>, <<1, 2, 0>>}

StoreFields == {"sessions", "workspaces", "checks", "vectors"}

\* What an export or a migration can list.
IsStore(x) ==
    /\ DOMAIN x = StoreFields
    /\ IsFiniteSet(DOMAIN x.sessions) /\ IsFiniteSet(DOMAIN x.workspaces) /\ IsFiniteSet(x.checks)
    /\ \A w \in DOMAIN x.workspaces :
        /\ IsFiniteSet(DOMAIN x.workspaces[w])
        /\ x.workspaces[w] = [s \in DOMAIN x.workspaces[w] |-> x.workspaces[w][s]]

ASSUME TransferAssumption ==
    /\ TrPage \in Nat \ {0} /\ MaxErrors \in Nat /\ MaxTransfers \in Nat
    /\ \A k \in TrKinds :
        k.kind \in {"full", "sessions", "workspace"} /\ IsFiniteSet(k.sessions)
    /\ IsStore(TrSource) /\ \A t \in TrTargets : DOMAIN t = StoreFields

VARIABLES
    trBackend,  \* [source, target]
    trSource, trTarget, \* [sessions, workspaces, checks, vectors]
    trFile,     \* the export file: {} or {[version, format, path, data, ...]}
    trRun,      \* the command running
    trErrors, trRuns,
    trMust      \* history: updates stored since the export began

transferVars == <<trBackend, trSource, trTarget, trFile, trRun, trErrors, trRuns, trMust>>

NoRun == [kind |-> "none"]
NoData == [sessions |-> <<>>, workspaces |-> <<>>, checks |-> {}, vectors |-> {}]
Put(f, k, v) == [x \in DOMAIN f \cup {k} |-> IF x = k THEN v ELSE f[x]]
Rows(store) == UNION {{<<s, u>> : u \in store.sessions[s]} : s \in DOMAIN store.sessions}

OldFile(v) ==
    [version |-> v, format |-> "none", path |-> "json", data |-> TrSource,
     must |-> Rows(TrSource), lost |-> {}]

TransferInit ==
    /\ \E b \in TrBackends : trBackend = [source |-> b[1], target |-> b[2]]
    /\ trSource = TrSource /\ trTarget \in TrTargets
    /\ trFile \in {{}} \cup {{OldFile(v)} : v \in TrOld}
    /\ trRun = NoRun /\ trErrors = 0 /\ trRuns = 0 /\ trMust = {}

Fails == trErrors < MaxErrors /\ trErrors' = trErrors + 1
Works == UNCHANGED trErrors

\* The daemon of the source, when a server lets it run beside an export.
DaemonAdds ==
    /\ trBackend.source = "surrealdb" /\ trRun.kind = "export"
    /\ \E x \in TrNew :
        /\ x[1] \in DOMAIN trSource.sessions /\ x \notin Rows(trSource)
        /\ trSource' = [trSource EXCEPT !.sessions[x[1]] = @ \cup {x[2]},
                                        !.vectors = @ \cup {x}]
    /\ UNCHANGED <<trBackend, trTarget, trFile, trRun, trErrors, trRuns, trMust>>

DaemonRemoves ==
    /\ trBackend.source = "surrealdb" /\ trRun.kind = "export"
    /\ \E x \in Rows(trSource) :
        /\ trSource' = [trSource EXCEPT !.sessions[x[1]] = @ \ {x[2]}, !.vectors = @ \ {x}]
        /\ trMust' = trMust \ {x}
    /\ UNCHANGED <<trBackend, trTarget, trFile, trRun, trErrors, trRuns>>

-----------------------------------------------------------------------------
(* Export.                                                                  *)

FromPath(path) == IF path = "json.gz" THEN "gzip" ELSE "none"

\* The sessions an export walks, known once the workspace has been found.
Exported(k) ==
    CASE k.kind = "full" -> DOMAIN trSource.sessions
      [] k.kind = "sessions" -> k.sessions
      [] k.kind = "workspace" -> DOMAIN trSource.workspaces[k.workspace]

\* handle_export: a workspace must exist; its row is exported first.
BeginExport(k, path, compress) ==
    /\ trRun = NoRun /\ trRuns < MaxTransfers
    /\ trRuns' = trRuns + 1
    /\ k.kind = "workspace" => k.workspace \in DOMAIN trSource.workspaces
    /\ \E order \in SetToSeqs(Exported(k)) :
        trRun' = [kind |-> "export", ask |-> k, path |-> path, todo |-> order, blob |-> {},
                  stage |-> "sessions", lost |-> {}, page |-> 0,
                  compress |-> IF compress = "unset" THEN FromPath(path) ELSE compress,
                  data |-> IF k.kind = "workspace"
                           THEN [NoData EXCEPT !.workspaces =
                                    [w \in {k.workspace} |-> trSource.workspaces[w]]]
                           ELSE NoData]
    /\ trMust' = {x \in Rows(trSource) : x[1] \in Exported(k)}
    /\ UNCHANGED <<trBackend, trSource, trTarget, trFile, trErrors>>

Exporting(stage) == trRun.kind = "export" /\ trRun.stage = stage

\* export_session_data: the session, then its rows once more.
LoadBlob ==
    /\ Exporting("sessions") /\ trRun.todo # <<>> /\ trRun.blob = {}
    /\ trRun.todo[1] \in DOMAIN trSource.sessions /\ Works
    /\ trRun' = [trRun EXCEPT !.blob = {trSource.sessions[trRun.todo[1]]}]
    /\ UNCHANGED <<trBackend, trSource, trTarget, trFile, trRuns, trMust>>

LoadRows_rowsOnly ==
    /\ Exporting("sessions") /\ trRun.blob # {} /\ Works
    /\ LET s == trRun.todo[1] IN
       trRun' = [trRun EXCEPT !.todo = Tail(@), !.blob = {}, !.data.sessions = Put(@, s, {})]
    /\ UNCHANGED <<trBackend, trSource, trTarget, trFile, trRuns, trMust>>
LoadRows ==
    /\ Exporting("sessions") /\ trRun.blob # {} /\ Works
    /\ LET s == trRun.todo[1] IN
       trRun' = [trRun EXCEPT !.todo = Tail(@), !.blob = {},
                    !.data.sessions = Put(@, s, (UNION trRun.blob) \cup trSource.sessions[s])]
    /\ UNCHANGED <<trBackend, trSource, trTarget, trFile, trRuns, trMust>>

\* A full or a workspace export leaves the session out and goes on; an export
\* of named sessions gives up.
LoadFails ==
    /\ Exporting("sessions") /\ trRun.todo # <<>>
    /\ IF trRun.todo[1] \in DOMAIN trSource.sessions THEN Fails ELSE Works
    /\ trRun' = IF trRun.ask.kind = "sessions" THEN NoRun
                ELSE [trRun EXCEPT !.todo = Tail(@), !.blob = {}, !.lost = @ \cup {trRun.todo[1]}]
    /\ UNCHANGED <<trBackend, trSource, trTarget, trFile, trRuns, trMust>>

\* Workspaces and checkpoints: of a full export only.  RocksDB exports no
\* embeddings.
ListRest ==
    /\ Exporting("sessions") /\ trRun.todo = <<>> /\ Works
    /\ LET full == trRun.ask.kind = "full" IN
       trRun' = [trRun EXCEPT
            !.data.workspaces = IF full THEN trSource.workspaces ELSE @,
            !.data.checks = IF full /\ trRun.ask.checkpoints THEN trSource.checks ELSE @,
            !.stage = IF trBackend.source = "surrealdb" THEN "pages" ELSE "write"]
    /\ UNCHANGED <<trBackend, trSource, trTarget, trFile, trRuns, trMust>>

\* Pages of embeddings by offset, in no stated order.
PageOfVectors ==
    LET some == {x \in trSource.vectors : trRun.ask.kind = "full" \/ x[1] \in Exported(trRun.ask)} IN
    /\ Exporting("pages") /\ Works
    /\ \E order \in SetToSeqs(some) :
        LET page == SubSeq(order, trRun.page + 1,
                           IF trRun.page + TrPage > Len(order) THEN Len(order)
                           ELSE trRun.page + TrPage)
        IN  trRun' = [trRun EXCEPT !.data.vectors = @ \cup ToSet(page), !.page = @ + Len(page),
                                   !.stage = IF Len(page) < TrPage THEN "write" ELSE @]
    /\ UNCHANGED <<trBackend, trSource, trTarget, trFile, trRuns, trMust>>

ExportFails ==
    /\ trRun.kind = "export" /\ trRun.todo = <<>> /\ Fails
    /\ trRun' = NoRun
    /\ trFile' \in IF trRun.stage = "write" THEN {trFile, {}} ELSE {trFile}
    /\ UNCHANGED <<trBackend, trSource, trTarget, trRuns, trMust>>

\* write_export_file: no compression asked for is the extension's.
Format(asked, path) == IF asked = "none" THEN FromPath(path) ELSE asked

WriteExportFile ==
    /\ Exporting("write") /\ Works
    /\ trFile' = {[version |-> Version, format |-> Format(trRun.compress, trRun.path),
                   path |-> trRun.path, data |-> trRun.data, must |-> trMust, lost |-> trRun.lost]}
    /\ trRun' = NoRun
    /\ UNCHANGED <<trBackend, trSource, trTarget, trRuns, trMust>>

-----------------------------------------------------------------------------
(* Import and migration: one item after the other.                          *)

\* read_export_file goes by the extension alone.
FileReadable(file) == file.format = FromPath(file.path)

VersionAccepted(v) ==
    IF trBackend.target = "rocksdb" THEN v[1] = Version[1] /\ v[2] <= Version[2]
    ELSE v \in Supported

Items(data) ==
    {<<"session", s>> : s \in DOMAIN data.sessions} \cup {<<"workspace", w>> : w \in DOMAIN data.workspaces}
    \cup {<<"check", c>> : c \in data.checks} \cup {<<"vectors", "all">>}
Rank(i) == CASE i[1] = "session" -> 1 [] i[1] = "workspace" -> 2 [] i[1] = "check" -> 3 [] OTHER -> 4
Orders(items) ==
    {o \in SetToSeqs(items) : \A i, j \in DOMAIN o : i < j => Rank(o[i]) <= Rank(o[j])}

Begin(kind, data, opt) ==
    /\ trRun = NoRun /\ trRuns < MaxTransfers
    /\ trRuns' = trRuns + 1
    /\ \E order \in Orders(Items(data)) :
        trRun' = [kind |-> kind, data |-> data, opt |-> opt, todo |-> order,
                  skipped |-> {}, errors |-> 0]
    /\ UNCHANGED <<trBackend, trSource, trTarget, trFile, trErrors, trMust>>

\* handle_import; a file it cannot read or of another version changes nothing.
BeginImport(opt) ==
    \E file \in trFile :
        /\ FileReadable(file) /\ VersionAccepted(file.version)
        /\ Begin("import", file.data, opt)

\* handle_migrate: from RocksDB to SurrealDB, everything, over what is there.
\* Embeddings come last.
BeginMigrate ==
    /\ trBackend = [source |-> "rocksdb", target |-> "surrealdb"]
    /\ Begin("migrate", trSource, [filter |-> {}, skip |-> FALSE, overwrite |-> TRUE])

Loading(what) ==
    trRun.kind \in {"import", "migrate"} /\ trRun.todo # <<>> /\ trRun.todo[1][1] = what
Item == trRun.todo[1][2]
Advance(more) == trRun' = [trRun EXCEPT !.todo = more \o Tail(@)]
Refuse == trRun' = [trRun EXCEPT !.todo = Tail(@), !.errors = 1]

Excluded(s) == trRun.opt.filter # {} /\ s \notin trRun.opt.filter
Exists(what, id) ==
    id \in IF what = "session" THEN DOMAIN trTarget.sessions ELSE DOMAIN trTarget.workspaces

Passes(what) == what = "session" /\ Excluded(Item)
SkipsExisting(what) ==
    /\ trRun.kind = "import" /\ Exists(what, Item) /\ trRun.opt.skip

\* Filtered out, skipped because it exists, or refused because it exists.
PassOver(what) ==
    /\ Loading(what) /\ Works
    /\ \/ Passes(what) /\ Advance(<<>>)
       \/ /\ ~Passes(what) /\ SkipsExisting(what)
          /\ trRun' = [trRun EXCEPT !.todo = Tail(@), !.skipped = @ \cup {<<what, Item>>}]
       \/ /\ ~Passes(what) /\ ~SkipsExisting(what)
          /\ trRun.kind = "import" /\ Exists(what, Item) /\ ~trRun.opt.overwrite
          /\ Refuse
    /\ UNCHANGED <<trBackend, trSource, trTarget, trFile, trRuns, trMust>>

Saves(what) ==
    /\ Loading(what) /\ ~Passes(what) /\ ~SkipsExisting(what)
    /\ (Exists(what, Item) => trRun.opt.overwrite)

\* save_session writes the session's updates beside those already stored; the
\* exported rows follow.
Kept(s) == IF s \in DOMAIN trTarget.sessions THEN trTarget.sessions[s] ELSE {}
SaveSession ==
    /\ Saves("session") /\ Works
    /\ trTarget' = [trTarget EXCEPT !.sessions = Put(@, Item, Kept(Item) \cup trRun.data.sessions[Item])]
    /\ Advance(<<<<"rows", Item>>>>)
    /\ UNCHANGED <<trBackend, trSource, trFile, trRuns, trMust>>

SaveRows ==
    /\ Loading("rows") /\ Works
    /\ trTarget' = [trTarget EXCEPT !.sessions[Item] = @ \cup trRun.data.sessions[Item]]
    /\ Advance(<<>>)
    /\ UNCHANGED <<trBackend, trSource, trFile, trRuns, trMust>>

\* An existing workspace is deleted first, by a call of its own.
ReplaceWorkspace ==
    /\ Saves("workspace") /\ trRun.kind = "import" /\ Exists("workspace", Item) /\ Works
    /\ trTarget' = [trTarget EXCEPT !.workspaces = [w \in DOMAIN @ \ {Item} |-> @[w]]]
    /\ UNCHANGED <<trBackend, trSource, trFile, trRun, trRuns, trMust>>

\* save_workspace_metadata: SurrealDB writes every member, as primary; RocksDB
\* the row alone.  Import then adds each session with its role.
SaveWorkspace ==
    /\ Saves("workspace") /\ (trRun.kind = "import" => ~Exists("workspace", Item)) /\ Works
    /\ LET roles == trRun.data.workspaces[Item]
           old == IF Exists("workspace", Item) THEN trTarget.workspaces[Item] ELSE <<>>
           saved == [s \in DOMAIN old \cup (IF trBackend.target = "surrealdb" THEN DOMAIN roles ELSE {}) |->
                        IF s \in DOMAIN roles THEN "Primary" ELSE old[s]]
           links == {<<"link", <<Item, s>>>> : s \in DOMAIN roles}
       IN  /\ trTarget' = [trTarget EXCEPT !.workspaces = Put(@, Item, saved)]
           /\ \E order \in SetToSeqs(links) :
                Advance(IF trRun.kind = "import" THEN order ELSE <<>>)
    /\ UNCHANGED <<trBackend, trSource, trFile, trRuns, trMust>>

AddSessionToWorkspace_plain ==
    /\ Loading("link") /\ Works
    /\ trTarget' = [trTarget EXCEPT !.workspaces[Item[1]] =
                        Put(@, Item[2], IF Item[2] \in DOMAIN @ THEN @[Item[2]] ELSE "Primary")]
    /\ Advance(<<>>)
    /\ UNCHANGED <<trBackend, trSource, trFile, trRuns, trMust>>
AddSessionToWorkspace ==
    /\ Loading("link") /\ Works
    /\ trTarget' = [trTarget EXCEPT !.workspaces[Item[1]] =
                        Put(@, Item[2], trRun.data.workspaces[Item[1]][Item[2]])]
    /\ Advance(<<>>)
    /\ UNCHANGED <<trBackend, trSource, trFile, trRuns, trMust>>

SaveCheckpoint ==
    /\ Loading("check") /\ Works
    /\ trTarget' = [trTarget EXCEPT !.checks = @ \cup {Item}]
    /\ Advance(<<>>)
    /\ UNCHANGED <<trBackend, trSource, trFile, trRuns, trMust>>

\* import_embeddings, and the migration's add_vector; RocksDB imports none.
ImportVectors ==
    /\ Loading("vectors") /\ Works
    /\ trTarget' = IF trBackend.target = "rocksdb" THEN trTarget
                   ELSE [trTarget EXCEPT !.vectors = @ \cup trRun.data.vectors]
    /\ Advance(<<>>)
    /\ UNCHANGED <<trBackend, trSource, trFile, trRuns, trMust>>

\* A failed save is reported and the next item taken; its rows or links are
\* not tried.  Deleting a workspace that fails ends the import.
SaveFails ==
    /\ \/ Saves("session") \/ Saves("workspace")
       \/ \E what \in {"rows", "link", "check", "vectors"} : Loading(what)
    /\ Fails
    /\ IF Loading("workspace") /\ trRun.kind = "import" /\ Exists("workspace", Item)
       THEN trRun' = NoRun ELSE Refuse
    /\ UNCHANGED <<trBackend, trSource, trTarget, trFile, trRuns, trMust>>

Report ==
    /\ trRun.kind \in {"import", "migrate"} /\ trRun.todo = <<>>
    /\ trRun' = NoRun
    /\ UNCHANGED <<trBackend, trSource, trTarget, trFile, trErrors, trRuns, trMust>>

\* The command is killed: File::create has already emptied an older file.
Killed ==
    /\ trRun # NoRun /\ Fails
    /\ trRun' = NoRun
    /\ trFile' = IF trRun.kind = "export" /\ trRun.stage = "write" THEN {} ELSE trFile
    /\ UNCHANGED <<trBackend, trSource, trTarget, trRuns, trMust>>

TransferNext ==
    \/ DaemonAdds \/ DaemonRemoves
    \/ \E k \in TrKinds, path \in TrPaths, compress \in TrCompress : BeginExport(k, path, compress)
    \/ LoadBlob \/ LoadRows \/ LoadFails \/ ListRest \/ PageOfVectors \/ ExportFails
    \/ WriteExportFile
    \/ \E opt \in TrOptions : BeginImport(opt)
    \/ BeginMigrate
    \/ \E what \in {"session", "workspace"} : PassOver(what)
    \/ SaveSession \/ SaveRows \/ ReplaceWorkspace \/ SaveWorkspace
    \/ AddSessionToWorkspace \/ SaveCheckpoint \/ ImportVectors
    \/ SaveFails \/ Report \/ Killed

TransferSpec == TransferInit /\ [][TransferNext]_transferVars

-----------------------------------------------------------------------------
(* Properties.                                                              *)

\* A file has every update that was stored when its export began and is not
\* removed since, of each session the export did not have to leave out, though
\* the source's daemon writes meanwhile.
ExportComplete ==
    \A file \in trFile : \A x \in file.must :
        x[1] \notin file.lost => x \in Rows(file.data)

\* An import or migration that reports no error has put into the target what
\* it was given, over whatever earlier failed or killed runs left there: every
\* update of every session it was not told to leave, every checkpoint, every
\* workspace, with an import its sessions in their roles and no others.
TransferRestores ==
    (trRun.kind \in {"import", "migrate"} /\ trRun.todo = <<>> /\ trRun.errors = 0) =>
        /\ \A s \in DOMAIN trRun.data.sessions :
            \/ Excluded(s) \/ <<"session", s>> \in trRun.skipped
            \/ s \in DOMAIN trTarget.sessions /\ trRun.data.sessions[s] \subseteq trTarget.sessions[s]
        /\ \A w \in DOMAIN trRun.data.workspaces :
            \/ <<"workspace", w>> \in trRun.skipped
            \/ /\ w \in DOMAIN trTarget.workspaces
               /\ IF trRun.kind = "import"
                  THEN trTarget.workspaces[w] = trRun.data.workspaces[w]
                  ELSE DOMAIN trRun.data.workspaces[w] \subseteq DOMAIN trTarget.workspaces[w]
        /\ trRun.data.checks \subseteq trTarget.checks
        /\ trBackend.target = "surrealdb" => trRun.data.vectors \subseteq trTarget.vectors

\* An export leaves nothing out, and what is imported is all there.
TransferSound == ExportComplete /\ TransferRestores

-----------------------------------------------------------------------------
(* The invariant that carries TransferSound through every step.             *)

Importing == trRun.kind \in {"import", "migrate"}
Ahead(item) == item \in ToSet(trRun.todo)

Links(data) ==
    UNION {{<<"link", <<w, s>>>> : s \in DOMAIN data.workspaces[w]} : w \in DOMAIN data.workspaces}
ImportTasks(data) == (Items(data) \cup {<<"rows", s>> : s \in DOMAIN data.sessions}) \cup Links(data)

TransferTypeOK ==
    /\ IsStore(trSource) /\ DOMAIN trTarget = StoreFields
    /\ \A file \in trFile : IsStore(file.data)
    /\ trRun.kind \in {"none", "export", "import", "migrate"}
    /\ trRun.kind = "export" =>
        /\ DOMAIN trRun = {"kind", "ask", "path", "todo", "blob", "stage", "lost", "page",
                           "compress", "data"}
        /\ IsStore(trRun.data)
        /\ trRun.todo \in Seq(ToSet(trRun.todo))
    /\ Importing =>
        /\ DOMAIN trRun = {"kind", "data", "opt", "todo", "skipped", "errors"}
        /\ IsStore(trRun.data)
        /\ trRun.todo \in Seq(ImportTasks(trRun.data))
    /\ trRun.kind = "migrate" => trBackend.target = "surrealdb"

\* An export has, leaves out or has yet to load the session of every update
\* that its file owes, and what it owes the source still stores.
ExportCollects ==
    trRun.kind = "export" =>
        /\ trMust \subseteq Rows(trSource)
        /\ \A x \in trMust :
            x[1] \notin trRun.lost /\ ~Ahead(x[1]) => x \in Rows(trRun.data)
        /\ trRun.stage # "sessions" => trRun.todo = <<>>
        /\ trRun.blob # {} => trRun.todo # <<>>

\* Every item of an import without errors is in its place or still ahead.  A
\* workspace that is being rebuilt has no member that it should not have.
SessionPlaced(s) ==
    \/ Ahead(<<"session", s>>) \/ Excluded(s) \/ <<"session", s>> \in trRun.skipped
    \/ s \in DOMAIN trTarget.sessions /\ trRun.data.sessions[s] \subseteq trTarget.sessions[s]
WorkspacePlaced(w) ==
    LET roles == trRun.data.workspaces[w]
        stored == trTarget.workspaces[w]
    IN  \/ Ahead(<<"workspace", w>>) \/ <<"workspace", w>> \in trRun.skipped
        \/ /\ trRun.kind = "migrate" /\ w \in DOMAIN trTarget.workspaces
           /\ DOMAIN roles \subseteq DOMAIN stored
        \/ /\ trRun.kind = "import" /\ w \in DOMAIN trTarget.workspaces
           /\ DOMAIN stored \subseteq DOMAIN roles
           /\ stored = [s \in DOMAIN stored |-> stored[s]]
           /\ \A s \in DOMAIN roles :
                \/ Ahead(<<"link", <<w, s>>>>)
                \/ s \in DOMAIN stored /\ stored[s] = roles[s]
ImportPlaces ==
    Importing /\ trRun.errors = 0 =>
        /\ \A s \in DOMAIN trRun.data.sessions : SessionPlaced(s)
        /\ \A w \in DOMAIN trRun.data.workspaces : WorkspacePlaced(w)
        /\ \A c \in trRun.data.checks : Ahead(<<"check", c>>) \/ c \in trTarget.checks
        /\ trBackend.target = "surrealdb" =>
            Ahead(<<"vectors", "all">>) \/ trRun.data.vectors \subseteq trTarget.vectors

TransferInv == TransferTypeOK /\ ExportComplete /\ ExportCollects /\ ImportPlaces

=============================================================================
