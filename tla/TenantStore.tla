----------------------------- MODULE TenantStore -----------------------------
(***************************************************************************)
(* TenantStore of the data-service (internal/server/tenant*.go): the       *)
(* registry of tenant instances, each with its pools, router and cached    *)
(* schema, and the files it is restored from.                              *)
(*                                                                         *)
(* A request holds the read lock of the registry as long as it runs.  The  *)
(* admin operations look up, connect, write files and then take the write  *)
(* lock for the change itself, in separate steps that overlap freely.      *)
(*                                                                         *)
(* sync.RWMutex: a writer that waits keeps new readers out.  What is done  *)
(* under the write lock, and a look-up under the read lock, is one step.   *)
(***************************************************************************)
EXTENDS FiniteSets

CONSTANTS
    Ids,            \* tenant ids
    Databases,      \* what a DSN leads to
    Instances,      \* *TenantInstance
    NoInstance,
    Operations,     \* the goroutines of admin handlers
    NoOperation,
    Requests,       \* the goroutines of tenant requests
    None            \* no file, no schema, no configuration

ASSUME AbsentAssumption ==
    /\ NoInstance \notin Instances
    /\ NoOperation \notin Operations
    /\ None \notin Databases \cup Ids

VARIABLES
    registry,       \* ts.tenants
    instance,       \* the instances and their pools
    disk,           \* {id}.json and {id}.schema.json
    op,             \* where each admin operation is, and its local variables
    request,
    writer,         \* the operation that has, or waits for, the write lock
    displaced,      \* history: instances a reload replaced without having looked them up
    disturbed       \* history: ids whose operations overlapped or failed half-way

vars == <<registry, instance, disk, op, request, writer, displaced, disturbed>>

-----------------------------------------------------------------------------
\* A configuration names its database; the rest of it an operator wrote or a
\* rewrite generated.
Config == [database: Databases, origin: {"written", "generated"}]

Written == [database: Databases, origin: {"written"}]

Generated(c) == [c EXCEPT !.origin = "generated"]

\* Conn and ReadonlyConn are opened and closed together.
Instance == [open: BOOLEAN, removing: BOOLEAN, config: Config \cup {None}]

Blank == [open |-> FALSE, removing |-> FALSE, config |-> None]

Kinds == {"none", "add", "remove", "update", "rewrite", "discover", "reload"}

\* Where an operation waits for the write lock.
LockPlaces == {"adding", "removing", "swapping", "assigning"}

Places == LockPlaces \cup
    {"idle", "checking", "building", "discarding", "resolving", "introspecting", "saving",
     "loading", "finding", "rebuilding", "retiring", "draining", "erasing"}

Operation == [kind: Kinds, at: Places, id: Ids \cup {None}, config: Config \cup {None},
              found: Instances \cup {NoInstance},       \* the instance looked up
              built: Instances \cup {NoInstance}]       \* the instance built

Idle == [kind |-> "none", at |-> "idle", id |-> None, config |-> None,
         found |-> NoInstance, built |-> NoInstance]

Request == [at: {"idle", "querying", "describing"}, id: Ids \cup {None},
            inst: Instances \cup {NoInstance}]

NoRequest == [at |-> "idle", id |-> None, inst |-> NoInstance]

TypeOK ==
    /\ registry \in [Ids -> Instances \cup {NoInstance}]
    /\ instance \in [Instances -> Instance]
    /\ disk \in [Ids -> [config: Config \cup {None}, schema: Databases \cup {None}]]
    /\ op \in [Operations -> Operation]
    /\ \A o \in Operations :
        /\ op[o].at \in {"adding", "swapping", "discarding"} => op[o].built \in Instances
        /\ op[o].at \in {"draining", "rebuilding", "swapping", "retiring", "assigning"} =>
               op[o].found \in Instances
    /\ request \in [Requests -> Request]
    /\ writer \in Operations \cup {NoOperation}
    /\ displaced \in SUBSET Instances
    /\ disturbed \in SUBSET Ids

-----------------------------------------------------------------------------
Registered(id) == registry[id] # NoInstance

Serving(r) == request[r].at # "idle"

Busy(id) == \E o \in Operations : op[o].id = id

\* Memory nobody refers to any more, fit to be another instance.
Unused(i) ==
    /\ ~instance[i].open
    /\ \A id \in Ids : registry[id] # i
    /\ \A o \in Operations : i \notin {op[o].found, op[o].built}

Built(c) == [open |-> TRUE, removing |-> FALSE, config |-> c]

\* Nothing is asked of an instance whose pools are closed: see PoolsAccounted.
Closed(i) == [instance EXCEPT ![i] = [Blank EXCEPT !.removing = instance[i].removing]]

Goto(o, place) == op' = [op EXCEPT ![o].at = place]

End(o) == op' = [op EXCEPT ![o] = Idle]

\* Only the instance found, or the one built, is still of interest.
Keep(o, place, found, built) ==
    op' = [op EXCEPT ![o] = [Idle EXCEPT !.kind = op[o].kind, !.id = op[o].id, !.at = place,
                                         !.found = found, !.built = built]]

\* RLock, look up, RUnlock
CanRead == writer = NoOperation

\* Lock: the writers take turns, and each waits for the requests being served.
HasLock(o) == writer = o /\ \A r \in Requests : ~Serving(r)

History == <<displaced, disturbed>>

Init ==
    /\ registry = [id \in Ids |-> NoInstance]
    /\ instance = [i \in Instances |-> Blank]
    /\ disk = [id \in Ids |-> [config |-> None, schema |-> None]]
    /\ op = [o \in Operations |-> Idle]
    /\ request = [r \in Requests |-> NoRequest]
    /\ writer = NoOperation
    /\ displaced = {}
    /\ disturbed = {}

-----------------------------------------------------------------------------
(* Requests: ServeHTTP *)

\* resolveTenantAndLock
Enter(r) ==
    /\ ~Serving(r)
    /\ CanRead
    /\ \E id \in Ids, place \in {"querying", "describing"} :
        /\ Registered(id)
        /\ ~instance[registry[id]].removing
        /\ request' = [request EXCEPT ![r] = [at |-> place, id |-> id, inst |-> registry[id]]]
    /\ UNCHANGED <<registry, instance, disk, op, writer, History>>

Leave(r) ==
    /\ request' = [request EXCEPT ![r] = NoRequest]
    /\ UNCHANGED <<registry, instance, disk, op, writer, History>>

Query(r) == request[r].at = "querying" /\ Leave(r)

\* Faulty variant of Describe: the handler resolves the tenant once more.
DescribeResolving(r) == request[r].at = "describing" /\ CanRead /\ Leave(r)

\* /mcp/schema and db_map take the instance from the context of the request.
Describe(r) == request[r].at = "describing" /\ Leave(r)

-----------------------------------------------------------------------------
(* Admin operations begin *)

Begin(o, kind, id, c, place) ==
    /\ op[o].at = "idle"
    /\ op' = [op EXCEPT ![o] = [Idle EXCEPT !.kind = kind, !.id = id, !.config = c, !.at = place]]
    /\ disturbed' = IF Busy(id) THEN disturbed \cup {id} ELSE disturbed
    /\ UNCHANGED <<registry, instance, disk, request, writer, displaced>>

BeginSome(o) ==
    \E id \in Ids :
        \/ \E c \in Written : Begin(o, "add", id, c, "checking") \/ Begin(o, "update", id, c, "resolving")
        \/ Begin(o, "remove", id, None, "removing")
        \/ \E kind \in {"rewrite", "discover", "reload"} : Begin(o, kind, id, None, "resolving")

\* resolveTenant; an update may also fail its validation or its dry run.
Resolve(o) ==
    /\ op[o].at = "resolving"
    /\ CanRead
    /\ LET i == registry[op[o].id] IN
       \/ End(o)        \* not there, or a configuration that is refused
       \/ /\ i # NoInstance
          /\ ~instance[i].removing
          /\ op' = [op EXCEPT ![o].found = i,
                              ![o].config = IF op[o].kind \in {"rewrite", "discover"}
                                            THEN Generated(instance[i].config) ELSE @,
                              ![o].at = CASE op[o].kind = "update" -> "saving"
                                          [] op[o].kind = "reload" -> "loading"
                                          [] OTHER -> "introspecting"]
    /\ UNCHANGED <<registry, instance, disk, request, writer, History>>

-----------------------------------------------------------------------------
(* AddTenant and adminAddTenantHandler *)

Check(o) ==
    /\ op[o].at = "checking"
    /\ CanRead
    /\ IF Registered(op[o].id) THEN End(o) ELSE Goto(o, "building")
    /\ UNCHANGED <<registry, instance, disk, request, writer, History>>

\* Faulty variant of Build: a connection that fails goes unnoticed.
BuildUnchecked(o) ==
    /\ op[o].at = "building"
    /\ \/ /\ Goto(o, "adding")
          /\ UNCHANGED instance
       \/ \E i \in Instances :
            /\ Unused(i)
            /\ instance' = [instance EXCEPT ![i] = Built(op[o].config)]
            /\ op' = [op EXCEPT ![o].built = i, ![o].at = "adding"]
    /\ UNCHANGED <<registry, disk, request, writer, History>>

\* buildTenantInstance
Build(o) ==
    /\ op[o].at = "building"
    /\ \/ /\ End(o)
          /\ UNCHANGED instance
       \/ \E i \in Instances :
            /\ Unused(i)
            /\ instance' = [instance EXCEPT ![i] = Built(op[o].config)]
            /\ op' = [op EXCEPT ![o].built = i, ![o].at = "adding"]
    /\ UNCHANGED <<registry, disk, request, writer, History>>

\* Lock
Announce(o) ==
    /\ op[o].at \in LockPlaces
    /\ writer = NoOperation
    /\ writer' = o
    /\ UNCHANGED <<registry, instance, disk, op, request, History>>

\* Faulty variant of Add: a duplicate is reported and its pools are forgotten.
AddUnclosed(o) ==
    /\ op[o].at = "adding"
    /\ HasLock(o)
    /\ writer' = NoOperation
    /\ IF Registered(op[o].id)
       THEN End(o) /\ UNCHANGED registry
       ELSE Goto(o, "saving") /\ registry' = [registry EXCEPT ![op[o].id] = op[o].built]
    /\ UNCHANGED <<instance, disk, request, History>>

\* The second check, and the publication.
Add(o) ==
    /\ op[o].at = "adding"
    /\ HasLock(o)
    /\ writer' = NoOperation
    /\ IF Registered(op[o].id)
       THEN Keep(o, "discarding", NoInstance, op[o].built) /\ UNCHANGED registry
       ELSE Goto(o, "saving") /\ registry' = [registry EXCEPT ![op[o].id] = op[o].built]
    /\ UNCHANGED <<instance, disk, request, History>>

\* What was built is closed again: a duplicate, or a tenant that has gone.
Discard(o) ==
    /\ op[o].at = "discarding"
    /\ instance' = Closed(op[o].built)
    /\ End(o)
    /\ UNCHANGED <<registry, disk, request, writer, History>>

\* Faulty variant of Save: an update is saved and takes effect at the next start.
SaveUnapplied(o) ==
    LET id == op[o].id IN
    /\ op[o].at = "saving"
    /\ \/ /\ disk' = [disk EXCEPT ![id].config = op[o].config]
          /\ IF op[o].kind \in {"add", "update"} THEN End(o) ELSE Goto(o, "loading")
          /\ UNCHANGED disturbed
       \/ /\ End(o)
          /\ disturbed' = disturbed \cup {id}
          /\ UNCHANGED disk
    /\ UNCHANGED <<registry, instance, request, writer, displaced>>

\* SaveTenantConfig: a rename, or a failure that only a rewrite reports.
Save(o) ==
    LET id == op[o].id IN
    /\ op[o].at = "saving"
    /\ \/ /\ disk' = [disk EXCEPT ![id].config = op[o].config]
          /\ IF op[o].kind = "add" THEN End(o) ELSE Goto(o, "loading")
          /\ UNCHANGED disturbed
       \/ /\ IF op[o].kind = "update" THEN Goto(o, "loading") ELSE End(o)
          /\ disturbed' = disturbed \cup {id}
          /\ UNCHANGED disk
    /\ UNCHANGED <<registry, instance, request, writer, displaced>>

-----------------------------------------------------------------------------
(* RemoveTenant and adminRemoveTenantHandler *)

\* Faulty variant of Deregister: the requests being served are not waited for.
DeregisterUnlocked(o) ==
    LET id == op[o].id  i == registry[id] IN
    /\ op[o].at = "removing"
    /\ writer = o
    /\ writer' = NoOperation
    /\ IF Registered(id)
       THEN /\ registry' = [registry EXCEPT ![id] = NoInstance]
            /\ instance' = [instance EXCEPT ![i].removing = TRUE]
            /\ op' = [op EXCEPT ![o].found = i, ![o].at = "draining"]
       ELSE End(o) /\ UNCHANGED <<registry, instance>>
    /\ UNCHANGED <<disk, request, History>>

Deregister(o) ==
    LET id == op[o].id  i == registry[id] IN
    /\ op[o].at = "removing"
    /\ HasLock(o)
    /\ writer' = NoOperation
    /\ IF Registered(id)
       THEN /\ registry' = [registry EXCEPT ![id] = NoInstance]
            /\ instance' = [instance EXCEPT ![i].removing = TRUE]
            /\ op' = [op EXCEPT ![o].found = i, ![o].at = "draining"]
       ELSE End(o) /\ UNCHANGED <<registry, instance>>
    /\ UNCHANGED <<disk, request, History>>

\* drainTenantConns waits for a bounded time only; closeTenantConns
Drain(o) ==
    /\ op[o].at = "draining"
    /\ instance' = Closed(op[o].found)
    /\ Keep(o, "erasing", NoInstance, NoInstance)
    /\ UNCHANGED <<registry, disk, request, writer, History>>

\* The handler removes {id}.json and leaves {id}.schema.json.
Erase(o) ==
    /\ op[o].at = "erasing"
    /\ disk' = [disk EXCEPT ![op[o].id].config = None]
    /\ End(o)
    /\ UNCHANGED <<registry, instance, request, writer, History>>

-----------------------------------------------------------------------------
(* adminRewriteHandler and adminDiscoverHandler *)

\* The schema is kept on disk.  A rewrite goes on unless what it generates is
\* invalid.
Introspect(o) ==
    /\ op[o].at = "introspecting"
    /\ \/ End(o) /\ UNCHANGED disk
       \/ /\ disk' = [disk EXCEPT ![op[o].id].schema = op[o].config.database]
          /\ \/ End(o)
             \/ op[o].kind = "rewrite" /\ Goto(o, "saving")
    /\ UNCHANGED <<registry, instance, request, writer, History>>

-----------------------------------------------------------------------------
(* ReloadTenant *)

\* The operation fails.  What it saved stays on disk.
Fail(o) ==
    /\ End(o)
    /\ disturbed' = disturbed \cup {op[o].id}

\* config.Load: from here on a rewrite or an update is a reload like any other.
Load(o) ==
    LET c == disk[op[o].id].config IN
    /\ op[o].at = "loading"
    /\ IF c = None
       THEN Fail(o)
       ELSE /\ op' = [op EXCEPT ![o].kind = "reload", ![o].config = c,
                               ![o].found = NoInstance, ![o].at = "finding"]
            /\ UNCHANGED disturbed
    /\ UNCHANGED <<registry, instance, disk, request, writer, displaced>>

\* The instance registered now, which need not be the one resolved before.
Find(o) ==
    LET i == registry[op[o].id] IN
    /\ op[o].at = "finding"
    /\ CanRead
    /\ \/ Fail(o)       \* not there, or its new router cannot be built
       \/ /\ i # NoInstance
          /\ op' = [op EXCEPT
                    ![o].found = i,
                    ![o].at = IF instance[i].config.database = op[o].config.database
                              THEN "assigning" ELSE "rebuilding"]
          /\ UNCHANGED disturbed
    /\ UNCHANGED <<registry, instance, disk, request, writer, displaced>>

Rebuild(o) ==
    /\ op[o].at = "rebuilding"
    /\ \/ /\ Fail(o)
          /\ UNCHANGED instance
       \/ \E i \in Instances :
            /\ Unused(i)
            /\ instance' = [instance EXCEPT ![i] = Built(op[o].config)]
            /\ Keep(o, "swapping", op[o].found, i)
            /\ UNCHANGED disturbed
    /\ UNCHANGED <<registry, disk, request, writer, displaced>>

\* The new instance replaces whichever is registered by now.
Swap(o) ==
    LET id == op[o].id IN
    /\ op[o].at = "swapping"
    /\ HasLock(o)
    /\ writer' = NoOperation
    /\ IF Registered(id)
       THEN /\ registry' = [registry EXCEPT ![id] = op[o].built]
            /\ displaced' = displaced \cup ({registry[id]} \ {op[o].found})
            /\ Keep(o, "retiring", op[o].found, NoInstance)
       ELSE Keep(o, "discarding", NoInstance, op[o].built) /\ UNCHANGED <<registry, displaced>>
    /\ UNCHANGED <<instance, disk, request, disturbed>>

\* The instance looked up is closed.
Retire(o) ==
    /\ op[o].at = "retiring"
    /\ instance' = Closed(op[o].found)
    /\ displaced' = displaced \ {op[o].found}
    /\ End(o)
    /\ UNCHANGED <<registry, disk, request, writer, disturbed>>

Exchanged(i, c) ==
    IF instance[i].open THEN [instance EXCEPT ![i].config = c] ELSE instance

\* Faulty variant of Assign: the router is exchanged under the requests it serves.
AssignUnlocked(o) ==
    /\ op[o].at = "assigning"
    /\ writer = o
    /\ writer' = NoOperation
    /\ instance' = Exchanged(op[o].found, op[o].config)
    /\ End(o)
    /\ UNCHANGED <<registry, disk, request, History>>

\* With the same database only Config and Router are exchanged, in the instance
\* looked up, whatever has become of it.
Assign(o) ==
    /\ op[o].at = "assigning"
    /\ HasLock(o)
    /\ writer' = NoOperation
    /\ instance' = Exchanged(op[o].found, op[o].config)
    /\ End(o)
    /\ UNCHANGED <<registry, disk, request, History>>

-----------------------------------------------------------------------------
\* The process ends and is started again: main adds a tenant for each file whose
\* database can be reached.
Restart ==
    \E up \in SUBSET Databases, new \in [Ids -> Instances] :
        LET restored == {id \in Ids : disk[id].config # None /\ disk[id].config.database \in up}
        IN  /\ \A id, other \in restored : id # other => new[id] # new[other]
            /\ \A id \in Ids \ restored : new[id] = CHOOSE i \in Instances : TRUE
            /\ registry' = [id \in Ids |-> IF id \in restored THEN new[id] ELSE NoInstance]
            /\ instance' = [i \in Instances |->
                    IF \E id \in restored : new[id] = i
                    THEN LET id == CHOOSE id \in restored : new[id] = i
                         IN  Built(disk[id].config)
                    ELSE Blank]
            /\ op' = [o \in Operations |-> Idle]
            /\ request' = [r \in Requests |-> NoRequest]
            /\ writer' = NoOperation
            /\ displaced' = {}
            /\ disturbed' = {id \in Ids : disk[id].config # None} \ restored
            /\ UNCHANGED disk

-----------------------------------------------------------------------------
Reading(o) == Resolve(o) \/ Check(o) \/ Find(o)

Working(o) ==
    \/ Build(o) \/ Add(o) \/ Discard(o) \/ Save(o) \/ Deregister(o) \/ Drain(o) \/ Erase(o)
    \/ Introspect(o) \/ Load(o) \/ Rebuild(o) \/ Swap(o) \/ Retire(o) \/ Assign(o)

Answer(r) == Query(r) \/ Describe(r)

Next ==
    \/ \E r \in Requests : Enter(r) \/ Answer(r)
    \/ \E o \in Operations : BeginSome(o) \/ Reading(o) \/ Announce(o) \/ Working(o)
    \/ Restart

Spec == Init /\ [][Next]_vars

-----------------------------------------------------------------------------
(* Properties *)

\* "Holding RLock pins the instance until the request completes": while a request
\* is served, its instance is the registered one and its pools are open.
Pinned ==
    \A r \in Requests : Serving(r) =>
        LET i == request[r].inst IN
        /\ registry[request[r].id] = i
        /\ instance[i].open
        /\ ~instance[i].removing

\* The router is never exchanged under a request it serves.
RouterKept ==
    [][\A r \in Requests :
         Serving(r) /\ request'[r] = request[r] =>
             instance'[request[r].inst].config = instance[request[r].inst].config]_vars

\* What is registered is open, and no pool is lost: one that is open is registered,
\* or some operation goes on to publish or to close it, or a reload replaced it
\* without having looked it up, and leaks it.
PoolsAccounted ==
    /\ \A id \in Ids : Registered(id) => instance[registry[id]].open
    /\ \A i \in Instances : instance[i].open =>
        \/ \E id \in Ids : registry[id] = i
        \/ \E o \in Operations :
            \/ op[o].built = i /\ op[o].at \in {"adding", "swapping", "discarding"}
            \/ op[o].found = i /\ op[o].at \in {"draining", "retiring"}
        \/ i \in displaced

\* As long as the operations on a tenant follow one another and none fails after it
\* saved, what runs is what a restart would restore, crashes in between included.
RunsWhatIsSaved ==
    \A id \in Ids : ~Busy(id) /\ id \notin disturbed =>
        disk[id].config = IF Registered(id) THEN instance[registry[id]].config ELSE None

\* Nobody waits for a request that waits in turn: one that holds the read lock can
\* finish without taking it again, although a waiting writer keeps new readers out.
LockIsReleased == \A r \in Requests : Serving(r) => ENABLED Answer(r)

\* "Schema cache must not outlive the tenant": when the removal of a tenant is
\* answered, no schema of it is left for its successor.
SchemaEndsWithTenant ==
    [][\A o \in Operations : Erase(o) => disk'[op[o].id].schema = None]_vars

\* "Removed between lookup and rebuild: do not publish": a reload that has published
\* what it built did not look up a tenant that was removed since.
ReloadsWhatItFound == \A o \in Operations : op[o].at = "retiring" => ~instance[op[o].found].removing

=============================================================================
