------------------------------- MODULE RagIndex -------------------------------
(***************************************************************************)
(* The index of the rag service: rows of documents in SQLite and vectors   *)
(* of their chunks in a ChromaDB collection (services/rag/service.py,      *)
(* __init__.py, pipeline/repository.py, vector_store/chroma.py).           *)
(*                                                                         *)
(* Requests run in worker threads over one SQLite connection.  A pipeline  *)
(* is made by the first request that needs one and dropped when the        *)
(* operator changes the configuration; each pipeline has a lock of its     *)
(* own, so requests of an old and of a new pipeline share a transaction.   *)
(* A pipeline that finds vectors of another model makes the collection     *)
(* anew.  The chunks of a document are added in two batches.               *)
(***************************************************************************)
EXTENDS Naturals, Sequences, FiniteSets

CONSTANTS
    Imports,        \* import requests; each names the document it makes
    Deletes,        \* delete requests
    Paths,          \* source_path
    PathOf,         \* the path a request is about
    Models,         \* embedding models
    FirstModel,     \* the configured one at first
    Nil,
    MaxOverlap,     \* bound of the requests under way at once
    MaxConfigs,     \* bound of the configuration changes
    MaxCrashes      \* bound of the crashes

ASSUME RagAssumption ==
    /\ Imports \cap Deletes = {}
    /\ PathOf \in [Imports \cup Deletes -> Paths]
    /\ FirstModel \in Models
    /\ Nil \notin Imports \cup Deletes \cup Models
    /\ {MaxOverlap, MaxConfigs, MaxCrashes} \subseteq Nat

VARIABLES
    model,      \* RagConfig.embedding_model, changed in place
    rows,       \* the document of each path, as the connection sees it
    durable,    \* and as it was committed last
    live,       \* which collection exists: they are numbered
    stored,     \* its embedding_model
    vectors,    \* what it holds
    pipes,      \* the pipelines made since the process started
    current,    \* ServiceState._pipeline: the number of one, or 0
    rag,        \* the state of each request
    configs,
    crashes,
    faults      \* history: what may have broken the index

ragVars ==
    <<model, rows, durable, live, stored, vectors, pipes, current, rag, configs, crashes, faults>>
ragData == <<rows, durable>>
ragIndex == <<live, stored, vectors>>
ragOperator == <<model, configs, crashes>>

RagRequests == Imports \cup Deletes

Vector == [doc: Imports, part: {1, 2}, model: Models]

\* The places of an import that holds the lock of its pipeline.
Saving == {"ready", "dropped", "inserted", "half", "added"}

\* What the code lets happen to the index, each at the step where it does:
\*   kept      vectors of a document that goes away could not be deleted;
\*   lost      a row lost its vectors: an import failed after it had dropped those of
\*             the document it was to replace, or left its transaction open;
\*   shared    requests of two pipelines used the one SQLite connection;
\*   cut       the vectors of a re-embedded collection were added only in part;
\*   skipped   a pipeline was made on a collection that is marked with another model,
\*             because no document was listed at that moment;
\*   crash     the process died during a request.
Faults == {"kept", "lost", "shared", "cut", "skipped", "crash"}

RagTypeOK ==
    /\ model \in Models
    /\ {rows, durable} \subseteq [Paths -> Imports \cup {Nil}]
    /\ live \in Nat
    /\ stored \in Models \cup {Nil}
    /\ vectors \subseteq Vector
    /\ pipes \in Seq([coll: Nat, loaded: Models \cup {Nil}, holder: Imports \cup {Nil}])
    /\ current \in 0..Len(pipes)
    /\ rag \in [RagRequests ->
        [at: {"new", "reading", "embedding", "filling", "waiting", "found", "unindexed", "over"}
                \cup Saving,
         pipe: 0..Len(pipes), found: Imports \cup {Nil}, snapshot: SUBSET Imports]]
    /\ configs \in 0..MaxConfigs
    /\ crashes \in 0..MaxCrashes
    /\ faults \subseteq Faults

RagInit ==
    /\ model = FirstModel
    /\ rows = [p \in Paths |-> Nil]
    /\ durable = rows
    /\ live = 1
    /\ stored = Nil
    /\ vectors = {}
    /\ pipes = << >>
    /\ current = 0
    /\ rag = [r \in RagRequests |-> [at |-> "new", pipe |-> 0, found |-> Nil, snapshot |-> {}]]
    /\ configs = 0
    /\ crashes = 0
    /\ faults = {}

RagAt(r, place) == rag[r].at = place
RagGo(r, place) == rag' = [rag EXCEPT ![r].at = place]

\* The request is over, and with it what it knew.
RagOver == [at |-> "over", pipe |-> 0, found |-> Nil, snapshot |-> {}]
RagEnds(r) == rag' = [rag EXCEPT ![r] = RagOver]
Fault(names) == faults' = faults \cup names
Docs(view) == {view[p] : p \in Paths} \ {Nil}
VectorsOf(doc) == {v \in vectors : v.doc = doc}

\* Requests under way, which keep the pipeline they have.
Busy == {r \in RagRequests : rag[r].at \notin {"new", "over"}}

-----------------------------------------------------------------------------
(* get_pipeline: the pipeline of a request *)

\* Only deletes make a pipeline in a worker thread; the others do it in the event loop.
ArriveRag(r) ==
    /\ RagAt(r, "new")
    /\ Cardinality(Busy) < MaxOverlap
    /\ rag' = [rag EXCEPT ![r].at = IF current = 0 THEN "reading" ELSE "waiting", ![r].pipe = current]
    /\ current = 0 /\ r \in Imports =>
        \A q \in Imports : rag[q].at \notin {"reading", "embedding", "filling"}
    /\ UNCHANGED <<ragData, ragIndex, pipes, current, ragOperator, faults>>

\* create_rag_pipeline is done: the new pipeline becomes the current one.
Made(r, coll, loaded) ==
    /\ pipes' = Append(pipes, [coll |-> coll, loaded |-> loaded, holder |-> Nil])
    /\ current' = Len(pipes')
    /\ rag' = [rag EXCEPT ![r].at = "waiting", ![r].pipe = Len(pipes'), ![r].snapshot = {}]

\* Another request uses a pipeline, or is making one, while r makes its own.
Twins(r) == {"shared" : q \in Busy \ {r}}

\* ensure_embedding_consistency, on what get_all_chunks_for_reembed read.
ReadModel(r) ==
    /\ RagAt(r, "reading")
    /\ IF stored \in {Nil, model} \/ Docs(rows) = {}
       THEN /\ Made(r, live, Nil)
            /\ stored' = IF stored = Nil THEN model ELSE stored
            /\ Fault(Twins(r) \cup IF stored' = model THEN {} ELSE {"skipped"})
       ELSE /\ rag' = [rag EXCEPT ![r].at = "embedding", ![r].snapshot = Docs(rows)]
            /\ UNCHANGED <<stored, pipes, current, faults>>
    /\ UNCHANGED <<ragData, live, vectors, ragOperator>>

\* The texts are embedded and the collection replaced, or nothing has happened.
Reembed(r) ==
    /\ RagAt(r, "embedding")
    /\ \/ /\ RagGo(r, "filling")
          /\ live' = live + 1
          /\ stored' = model
          /\ vectors' = {}
       \/ /\ RagEnds(r)
          /\ UNCHANGED ragIndex
    /\ UNCHANGED <<ragData, pipes, current, ragOperator, faults>>

\* The vectors are added to the new collection, or only some of them.
Refill(r) ==
    /\ RagAt(r, "filling")
    /\ \/ /\ vectors' = vectors \cup [doc: rag[r].snapshot, part: {1, 2}, model: {stored}]
          /\ Made(r, live, stored)
          /\ Fault(Twins(r))
       \/ /\ \E part \in SUBSET {1} :
                vectors' = vectors \cup [doc: rag[r].snapshot, part: part, model: {stored}]
          /\ RagEnds(r)
          /\ Fault({"cut"})
          /\ UNCHANGED <<pipes, current>>
    /\ UNCHANGED <<ragData, live, stored, ragOperator>>

-----------------------------------------------------------------------------
(* Import: save_document_with_chunks *)

Pipe(r) == pipes[rag[r].pipe]
Usable(r) == Pipe(r).coll = live

Lock(r) ==
    /\ RagAt(r, "waiting")
    /\ r \in Imports
    /\ Pipe(r).holder = Nil
    /\ pipes' = [pipes EXCEPT ![rag[r].pipe].holder = r]
    /\ rag' = [rag EXCEPT ![r].at = "ready", ![r].found = rows[PathOf[r]]]
    /\ UNCHANGED <<ragData, ragIndex, current, ragOperator, faults>>

Unlock(r) == pipes' = [pipes EXCEPT ![rag[r].pipe].holder = Nil]

\* The vectors of the document that is replaced are deleted; a failure is only logged.
DropVectors(doc) ==
    \/ /\ vectors' = vectors \ VectorsOf(doc)
       /\ UNCHANGED faults
    \/ /\ Fault({"kept"})
       /\ UNCHANGED vectors

DropOld(r) ==
    /\ RagAt(r, "ready")
    /\ RagGo(r, "dropped")
    /\ IF rag[r].found # Nil /\ Usable(r) THEN DropVectors(rag[r].found)
       ELSE /\ Fault(IF rag[r].found = Nil THEN {} ELSE {"kept"})
            /\ UNCHANGED vectors
    /\ UNCHANGED <<ragData, live, stored, pipes, current, ragOperator>>

\* The rows are replaced in an open transaction.  A failing statement ends the request
\* and leaves the transaction open: the try that rolls back begins further down.
Insert(r) ==
    /\ RagAt(r, "dropped")
    /\ \/ /\ RagGo(r, "inserted")
          /\ rows[PathOf[r]] \in {rag[r].found, Nil}
          /\ rows' = [rows EXCEPT ![PathOf[r]] = r]
          /\ UNCHANGED <<pipes, faults>>
       \/ /\ RagEnds(r)
          /\ rows' \in {rows, [rows EXCEPT ![PathOf[r]] = IF @ = rag[r].found THEN Nil ELSE @]}
          /\ Unlock(r)
          /\ Fault({"lost"})
    /\ UNCHANGED <<durable, ragIndex, current, ragOperator>>

ModelLoaded(r) == IF Pipe(r).loaded = Nil THEN model ELSE Pipe(r).loaded

\* add_chunks: a batch is embedded and added.
AddBatch(r) ==
    /\ rag[r].at \in {"inserted", "half"}
    /\ Usable(r)
    /\ LET part == IF RagAt(r, "inserted") THEN 1 ELSE 2 IN
        vectors' = vectors \cup {[doc |-> r, part |-> part, model |-> ModelLoaded(r)]}
    /\ RagGo(r, IF RagAt(r, "inserted") THEN "half" ELSE "added")
    /\ pipes' = [pipes EXCEPT ![rag[r].pipe].loaded = ModelLoaded(r)]
    /\ UNCHANGED <<ragData, live, stored, current, ragOperator, faults>>

\* The document that r was to replace comes back without its vectors.
Stripped(r) == {"lost" : x \in {rag[r].found} \ {Nil}}

\* Faulty variant of SaveFails: what was added stays.
SaveFailsUncleaned(r) ==
    /\ rag[r].at \in {"inserted", "half", "added"}
    /\ RagEnds(r)
    /\ rows' = durable
    /\ Fault(Stripped(r))
    /\ Unlock(r)
    /\ UNCHANGED <<durable, ragIndex, current, ragOperator>>

\* Embedding, the collection or the commit fails: what the connection holds is rolled
\* back and the vectors of this document are deleted.
SaveFails(r) ==
    /\ rag[r].at \in {"inserted", "half", "added"}
    /\ RagEnds(r)
    /\ rows' = durable
    /\ \/ /\ Usable(r)
          /\ vectors' = vectors \ VectorsOf(r)
          /\ Fault(Stripped(r))
       \/ /\ Fault({"kept"} \cup Stripped(r))
          /\ UNCHANGED vectors
    /\ Unlock(r)
    /\ UNCHANGED <<durable, live, stored, current, ragOperator>>

Commit_(r) ==
    /\ RagAt(r, "added")
    /\ RagEnds(r)
    /\ durable' = rows
    /\ Unlock(r)
    /\ UNCHANGED <<rows, ragIndex, current, ragOperator, faults>>

-----------------------------------------------------------------------------
(* Delete: three steps, of which the first and the last take the lock *)

Unheld(r) == Pipe(r).holder = Nil

FindDocument(r) ==
    /\ RagAt(r, "waiting")
    /\ r \in Deletes
    /\ Unheld(r)
    /\ IF rows[PathOf[r]] = Nil THEN RagEnds(r)
       ELSE rag' = [rag EXCEPT ![r].at = "found", ![r].found = rows[PathOf[r]]]
    /\ UNCHANGED <<ragData, ragIndex, pipes, current, ragOperator, faults>>

DeleteVectors(r) ==
    /\ RagAt(r, "found")
    /\ RagGo(r, "unindexed")
    /\ IF Usable(r) THEN DropVectors(rag[r].found)
       ELSE Fault({"kept"}) /\ UNCHANGED vectors
    /\ UNCHANGED <<ragData, live, stored, pipes, current, ragOperator>>

DeleteRecord(r) ==
    /\ RagAt(r, "unindexed")
    /\ Unheld(r)
    /\ RagEnds(r)
    /\ \/ /\ rows' = [p \in Paths |-> IF rows[p] = rag[r].found THEN Nil ELSE rows[p]]
          /\ durable' = rows'
          /\ UNCHANGED faults
       \/ /\ Fault({"lost"})
          /\ UNCHANGED ragData
    /\ UNCHANGED <<ragIndex, pipes, current, ragOperator>>

-----------------------------------------------------------------------------
(* The operator, and crashes *)

\* PUT /admin/config
PutConfig(m) ==
    /\ configs < MaxConfigs
    /\ configs' = configs + 1
    /\ model' = m
    /\ current' = 0
    /\ Fault({"shared" : r \in Busy})
    /\ UNCHANGED <<ragData, ragIndex, pipes, rag, crashes>>

\* The process dies; files and collection survive, the configuration is the first one.
RagCrash ==
    /\ crashes < MaxCrashes
    /\ crashes' = crashes + 1
    /\ model' = FirstModel
    /\ rows' = durable
    /\ pipes' = << >>
    /\ current' = 0
    /\ rag' = [r \in RagRequests |->
        IF RagAt(r, "new") THEN rag[r]
        ELSE RagOver]
    /\ Fault({"crash" : r \in Busy})
    /\ UNCHANGED <<durable, ragIndex, configs>>

RagNext ==
    \/ \E r \in RagRequests :
        \/ ArriveRag(r) \/ ReadModel(r) \/ Reembed(r) \/ Refill(r)
        \/ Lock(r) \/ DropOld(r) \/ Insert(r) \/ AddBatch(r) \/ SaveFails(r) \/ Commit_(r)
        \/ FindDocument(r) \/ DeleteVectors(r) \/ DeleteRecord(r)
    \/ \E m \in Models : PutConfig(m)
    \/ RagCrash

RagSpec == RagInit /\ [][RagNext]_ragVars

-----------------------------------------------------------------------------
(* Properties *)

\* When no request is under way, every document that is listed can be found by a search:
\* both batches of its vectors are there, unless one of the faults of the code that
\* concern it has happened.  An import or a delete that fails cleanly, and a change of
\* the model, are no exceptions.
ListedIsIndexed ==
    Busy = {} /\ faults \cap {"lost", "shared", "cut", "crash"} = {} =>
        \A d \in Docs(durable) : {v.part : v \in VectorsOf(d)} = {1, 2}

\* A search finds no document that was deleted, replaced or never imported: what an
\* import adds before it fails is taken out again.
FoundIsListed ==
    Busy = {} /\ faults \cap {"kept", "shared", "crash"} = {} =>
        \A v \in vectors : v.doc \in Docs(durable)

\* The rows and the collection, two stores without a common transaction, agree.
IndexAgrees == ListedIsIndexed /\ FoundIsListed

\* The vectors of the collection come from one model, the one it is marked with, also
\* while a pipeline is being made and after a crash in the middle of that.
OneModel ==
    faults \cap {"skipped", "shared"} = {} => \A v \in vectors : v.model = stored

\* The index is what the operator asked for.
IndexIsSound == IndexAgrees /\ OneModel
=============================================================================
