--------------------------- MODULE UpdateRequests ---------------------------
(***************************************************************************)
(* A context update on its way from a client to a session: the four        *)
(* routes (gRPC and MCP, one update or a batch), what each checks and in   *)
(* which order, where it stops, what it has written by then and what it    *)
(* answers.  Other clients may delete the session, or purge the record an  *)
(* update refers to, between any two steps of the request; the client may  *)
(* go away (or the MCP timeout fire) at any await.                         *)
(*                                                                         *)
(* An update is abstracted to the first check it would fail:               *)
(*   "meta"      valid_from or supersedes does not parse                   *)
(*   "code"      malformed code reference (a JSON value: MCP only)         *)
(*   "kind"      unknown interaction_type                                  *)
(*   "relation"  unknown relation_type                                     *)
(*   "domain"    refused by validate_update_request or a bad confidence    *)
(*   "refs"      names a stored record (derived_from, supersedes)          *)
(*   "good"      none                                                      *)
(***************************************************************************)
EXTENDS Naturals, Sequences, FiniteSets

CONSTANTS
    MaxBatch,   \* most updates in one batch
    UrFaults,   \* whether storage and the session write may fail
    UrCancels   \* whether a request may be dropped at an await

ASSUME UpdateRequestAssumption ==
    /\ MaxBatch \in Nat \ {0}
    /\ UrFaults \in BOOLEAN /\ UrCancels \in BOOLEAN

UpdateKinds == {"meta", "code", "kind", "relation", "domain", "refs", "good"}

VARIABLES
    urReq,      \* the request: route, its updates and what became of them
    urSession,  \* the session exists
    urReferent  \* the record a "refs" update names is in the session

updateVars == <<urReq, urSession, urReferent>>

NotSent == [pc |-> "none"]

UpdateInit ==
    /\ urReq = NotSent
    /\ urSession \in BOOLEAN
    /\ urReferent \in BOOLEAN
    /\ urReferent => urSession

-----------------------------------------------------------------------------
(* The transports. *)

(* The single checks.  A relation type has to be known; a time and an      *)
(* entry id have to parse; a code reference is a path with lines or an     *)
(* object naming a file; an interaction type is one of six.                *)
MetaParses(kind) == kind # "meta"
CodeReferenceValid(kind) == kind # "code"
InteractionKnown(kind) == kind # "kind"
RelationsKnown(kind) == kind # "relation"
Sound(kind) == kind # "domain"

(* translate_payload: gRPC takes an unknown interaction type for           *)
(* ConceptDefined, and its code reference is typed.                        *)
GrpcTranslates(kind) == MetaParses(kind) /\ RelationsKnown(kind)

(* The MCP handler's own checks, before any update of the call is used. *)
McpWellFormed(kind) == MetaParses(kind) /\ CodeReferenceValid(kind)

(* Whether build_request makes a service request of a well-formed update. *)
McpTranslates(kind) == InteractionKnown(kind) /\ RelationsKnown(kind)

UpdateAnswered(req, answer) == [req EXCEPT !.pc = "end", !.answer = answer]

(* A request whose updates `which` go to the service: each with a call of  *)
(* update_context, or all with one call of bulk_update_context.            *)
Going(req, which, mode) ==
    IF which = <<>> THEN UpdateAnswered(req, "done")
    ELSE [req EXCEPT !.pc = "check", !.todo = which, !.mode = mode]

(* The updates that pass a filter, in the order of the batch. *)
ChosenUpdates(passed) ==
    CHOOSE s \in [1 .. Cardinality(passed) -> passed] :
        \A j, k \in DOMAIN s : j < k => s[j] < s[k]

(* gRPC update_context and bulk_update_context: a batch leaves out the     *)
(* updates it cannot translate and goes on.                                *)
GrpcRequest(req) ==
    LET which == ChosenUpdates({i \in DOMAIN req.updates : GrpcTranslates(req.updates[i])})
        short == [req EXCEPT !.failed = Len(req.updates) - Len(which)]
    IN  IF req.route = "grpc" /\ which = <<>> THEN UpdateAnswered(req, "invalid")
        ELSE Going(short, which, "each")

(* check_session_exists_for_dry_run and what a dry run checks before it. *)
DryRun(req) ==
    IF \E i \in DOMAIN req.updates : ~InteractionKnown(req.updates[i])
    THEN UpdateAnswered(req, "invalid")
    ELSE UpdateAnswered(req, IF urSession THEN "dry" ELSE "notfound")

(* The MCP tool: one update, or a batch.  A batch in which every update    *)
(* translates is one service call, otherwise the rest go one by one.       *)
McpRequest(req) ==
    LET which == ChosenUpdates({i \in DOMAIN req.updates : McpTranslates(req.updates[i])})
        short == [req EXCEPT !.failed = Len(req.updates) - Len(which)]
        formed == \A i \in DOMAIN req.updates : McpWellFormed(req.updates[i])
    IN  CASE ~formed -> UpdateAnswered(req, "invalid")
          [] formed /\ req.dry -> DryRun(req)
          [] formed /\ ~req.dry /\ req.route = "mcp" /\ which = <<>> ->
                UpdateAnswered(req, "invalid")
          [] OTHER -> Going(short, which,
                            IF req.route = "mcpBulk" /\ short.failed = 0
                            THEN "batch" ELSE "each")

(* A client sends a request. *)
SendUpdate(route, updates, dry) ==
    /\ urReq.pc = "none"
    /\ dry => route \in {"mcp", "mcpBulk"}
    /\ Len(updates) = 1 \/ route \in {"grpcBulk", "mcpBulk"}
    /\ LET req == [route |-> route, updates |-> updates, dry |-> dry,
                   pc |-> "start", mode |-> "each", todo |-> <<>>, pos |-> 1,
                   checked |-> 0,
                   landed |-> {}, derived |-> {}, lost |-> {}, failed |-> 0,
                   counted |-> 0, answer |-> "none"]
       IN  urReq' = IF route \in {"grpc", "grpcBulk"} THEN GrpcRequest(req)
                    ELSE McpRequest(req)
    /\ UNCHANGED <<urSession, urReferent>>

-----------------------------------------------------------------------------
(* The service. *)

ItemAt(req) == req.todo[req.pos]
ItemLast(req) == req.pos = Len(req.todo)

(* update_context or bulk_update_context returned an error, `refusal` for  *)
(* invalid arguments.  A batch of single calls counts it and goes on; the  *)
(* MCP batch answers that nothing succeeded; a single call answers it.     *)
UpdateRefused(req, refusal) ==
    CASE req.mode = "batch" ->
            UpdateAnswered([req EXCEPT !.counted = 0, !.failed = @ + 1], refusal)
      [] req.mode = "each" /\ req.route \in {"grpc", "mcp"} ->
            UpdateAnswered([req EXCEPT !.failed = @ + 1], refusal)
      [] req.mode = "each" /\ req.route \notin {"grpc", "mcp"} ->
            IF ItemLast(req) THEN UpdateAnswered([req EXCEPT !.failed = @ + 1], "done")
            ELSE [req EXCEPT !.pos = @ + 1, !.pc = "check", !.failed = @ + 1]

(* check_derived_from, check_meta: the named message or entry is missing. *)
Dangling(kind) == kind = "refs" /\ ~urReferent
SessionMissing(kind) == kind = "refs" /\ ~urSession

(* What the service may refuse an update with. *)
Refusals(kind) ==
    (IF ~Sound(kind) \/ Dangling(kind) THEN {"invalid"} ELSE {})
    \cup (IF SessionMissing(kind) THEN {"notfound"} ELSE {})

RefuseUpdate(refusal) ==
    /\ urReq.pc = "check"
    /\ refusal \in Refusals(urReq.updates[ItemAt(urReq)])
    /\ urReq' = UpdateRefused(urReq, refusal)
    /\ UNCHANGED <<urSession, urReferent>>

(* The stored messages or the session cannot be read. *)
CheckFails ==
    /\ UrFaults
    /\ urReq.pc = "check"
    /\ urReq.updates[ItemAt(urReq)] = "refs"
    /\ urReq' = UpdateRefused(urReq, "internal")
    /\ UNCHANGED <<urSession, urReferent>>

AfterCheck_writesEach(req) ==
    [req EXCEPT !.checked = req.pos, !.pc = "write"]

(* The update passes.  bulk_update_context checks the whole batch before   *)
(* it writes the first update; update_context writes at once.              *)
AfterCheck(req) ==
    LET passed == [req EXCEPT !.checked = req.pos]
    IN  IF req.mode = "batch" /\ ~ItemLast(req)
        THEN [passed EXCEPT !.pos = @ + 1]
        ELSE [passed EXCEPT !.pos = IF req.mode = "batch" THEN 1 ELSE @,
                            !.pc = "write"]

PassCheck ==
    /\ urReq.pc = "check"
    /\ Refusals(urReq.updates[ItemAt(urReq)]) = {}
    /\ urReq' = AfterCheck(urReq)
    /\ UNCHANGED <<urSession, urReferent>>

(* The next update, checked already or not, or the answer. *)
NextItem(req) ==
    IF ItemLast(req) THEN UpdateAnswered(req, "done")
    ELSE [req EXCEPT !.pos = @ + 1,
                     !.pc = IF req.checked > req.pos THEN "write" ELSE "check"]

Submitted_onlyLast(req) ==
    NextItem([req EXCEPT !.counted = @ + 1,
                       !.derived = IF ItemLast(req) THEN @ \cup {ItemAt(req)} ELSE @])

(* submit_derived_work: the update is handed on and counted. *)
Submitted(req) ==
    NextItem([req EXCEPT !.counted = @ + 1, !.derived = @ \cup {ItemAt(req)}])

(* add_incremental_update_deferred commits the update to the session,      *)
(* which it creates when there is none.  The last update of a batch, and   *)
(* each one of its own call, then waits for the storage write.             *)
CommitUpdate ==
    /\ urReq.pc = "write"
    /\ LET landed == [urReq EXCEPT !.landed = @ \cup {ItemAt(urReq)}]
       IN  urReq' = IF urReq.mode = "batch" /\ ~ItemLast(urReq)
                    THEN Submitted(landed)
                    ELSE [landed EXCEPT !.pc = "durable"]
    /\ urSession' = TRUE
    /\ UNCHANGED urReferent

(* The breaker is open, the session cannot be loaded or created, or the    *)
(* compare-and-swap gave up: the update is not committed.                  *)
CommitUpdateFails ==
    /\ UrFaults
    /\ urReq.pc = "write"
    /\ urReq' = UpdateRefused([urReq EXCEPT !.lost = @ \cup {ItemAt(urReq)}], "internal")
    /\ UNCHANGED <<urSession, urReferent>>

(* The storage write finished, well or not: the call reports it in         *)
(* `durable`, and the derived work starts either way.                      *)
WriteFinished ==
    /\ urReq.pc = "durable"
    /\ urReq' = Submitted(urReq)
    /\ UNCHANGED <<urSession, urReferent>>

-----------------------------------------------------------------------------
(* Meanwhile. *)

(* The connection closes, or the MCP timeout drops the call. *)
CancelUpdate ==
    /\ UrCancels
    /\ urReq.pc \in {"check", "write", "durable"}
    /\ urReq' = UpdateAnswered(urReq, "cancelled")
    /\ UNCHANGED <<urSession, urReferent>>

(* Someone else deletes the session. *)
SessionDeleted ==
    /\ urSession
    /\ urSession' = FALSE
    /\ urReferent' = FALSE
    /\ UNCHANGED urReq

(* Someone else purges the record an update names. *)
ReferentPurged ==
    /\ urReferent
    /\ urReferent' = FALSE
    /\ UNCHANGED <<urReq, urSession>>

UpdateSeqs == UNION {[1..n -> UpdateKinds] : n \in 1..MaxBatch}

UpdateNext ==
    \/ /\ urReq.pc = "none"
       /\ \E route \in {"grpc", "grpcBulk", "mcp", "mcpBulk"},
             updates \in UpdateSeqs, dry \in BOOLEAN :
                SendUpdate(route, updates, dry)
    \/ \E refusal \in {"invalid", "notfound"} : RefuseUpdate(refusal)
    \/ CheckFails
    \/ PassCheck
    \/ CommitUpdate
    \/ CommitUpdateFails
    \/ WriteFinished
    \/ CancelUpdate
    \/ SessionDeleted
    \/ ReferentPurged

UpdateSpec == UpdateInit /\ [][UpdateNext]_updateVars

-----------------------------------------------------------------------------
(* Properties. *)

(* A call answered as the client's mistake, and a dry run, changed         *)
(* nothing: whatever was deleted while the request was checked, no update  *)
(* of it had been written when the first refusal came.                     *)
RejectedUntouched ==
    urReq.pc = "end" /\ urReq.answer \in {"invalid", "notfound", "dry"} =>
        urReq.landed = {}

(* An answered call accounts for its updates: the successes it counts are  *)
(* the updates that were written (a batch that failed half way, whose      *)
(* answer is an error, aside), each passed every check of its route, and   *)
(* the derived work of each one was handed on.                             *)
AnswerAccounts ==
    urReq.pc = "end" /\ urReq.answer # "cancelled" =>
        /\ urReq.landed \subseteq urReq.derived
        /\ \A i \in urReq.landed :
               urReq.updates[i] \in {"refs", "good"} \cup
                   (IF urReq.route \in {"grpc", "grpcBulk"} THEN {"kind", "code"}
                    ELSE {})
        /\ urReq.answer = "done" =>
               /\ urReq.counted = Cardinality(urReq.landed)
               /\ urReq.counted + urReq.failed = Len(urReq.updates)

(* The answer of an update request is honest: a refusal means nothing was  *)
(* written, a success that what it counts was.                             *)
AnswersHonest == RejectedUntouched /\ AnswerAccounts

(* Why answers are honest: the invariant below is inductive. *)

UrRoutes == {"grpc", "grpcBulk", "mcp", "mcpBulk"}
UrStages == {"check", "write", "durable", "end"}
UrModes == {"each", "batch"}
UrAnswers == {"none", "done", "invalid", "notfound", "dry", "internal", "cancelled"}
UrPositions == 1 .. MaxBatch
UrLists == Seq(UrPositions)
UrSets == SUBSET UrPositions
UrRequests ==
    [route : UrRoutes, updates : UpdateSeqs, dry : BOOLEAN, pc : UrStages, mode : UrModes,
     todo : UrLists, pos : Nat, checked : Nat, landed : UrSets, derived : UrSets,
     lost : UrSets, failed : Nat, counted : Nat, answer : UrAnswers]

(* The list a request works through: updates its transport let pass, each  *)
(* once and in order.                                                      *)
UpdatesListed(q) ==
    /\ \A j, k \in DOMAIN q.todo : j < k => q.todo[j] < q.todo[k]
    /\ \A k \in DOMAIN q.todo :
          /\ q.todo[k] \in DOMAIN q.updates
          /\ q.updates[q.todo[k]] \notin {"meta", "relation"}
          /\ q.route \in {"mcp", "mcpBulk"} => q.updates[q.todo[k]] \notin {"code", "kind"}
    /\ q.route \in {"grpc", "mcp"} => Len(q.updates) = 1

(* What was written was checked, and handed on but for the update that     *)
(* still waits for storage; every update before the current one is counted *)
(* as a success or a failure.  A batch is checked to its end before its    *)
(* first write, when nothing has failed.                                   *)
UpdatesUnderway(q) ==
    /\ q.pos \in 1 .. Len(q.todo)
    /\ q.counted = Cardinality(q.derived)
    /\ q.derived \subseteq {q.todo[k] : k \in 1 .. q.pos - 1}
    /\ q.landed = q.derived \cup IF q.pc = "durable" THEN {q.todo[q.pos]} ELSE {}
    /\ \A i \in q.landed : Sound(q.updates[i])
    /\ q.mode = "each" \/ q.pc # "check" =>
          q.counted + q.failed + (Len(q.todo) - q.pos + 1) = Len(q.updates)
    /\ q.mode = "each" => IF q.pc = "check" THEN q.checked < q.pos
                          ELSE q.checked = q.pos /\ Sound(q.updates[q.todo[q.pos]])
    /\ q.mode = "batch" =>
          /\ q.failed = 0 /\ Len(q.todo) = Len(q.updates)
          /\ q.checked = IF q.pc = "check" THEN q.pos - 1 ELSE Len(q.todo)
          /\ \A k \in 1 .. q.checked : Sound(q.updates[q.todo[k]])
          /\ q.pc = "check" => q.derived = {}

UpdateInv ==
    urReq = NotSent \/
        /\ urReq \in UrRequests
        /\ UpdatesListed(urReq)
        /\ urReq.pc # "end" => UpdatesUnderway(urReq)
        /\ AnswersHonest

-----------------------------------------------------------------------------
(* What the repository says and the model refutes: these do not hold.     *)

(* bulk_update_conversation_context: "Items that fail translation or       *)
(* persistence are reported in the response payload — the rest still land" *)
(* An answered MCP batch has written every sound update whose own write    *)
(* did not fail.                                                           *)
RestStillLand ==
    urReq.pc = "end" /\ urReq.route = "mcpBulk" /\ ~urReq.dry
    /\ urReq.answer \notin {"cancelled"}
    /\ (\A i \in DOMAIN urReq.updates : McpWellFormed(urReq.updates[i])) =>
        \A i \in DOMAIN urReq.updates :
            urReq.updates[i] = "good" /\ i \notin urReq.lost => i \in urReq.landed

=============================================================================
