-------------------------- MODULE TenantStoreProofs --------------------------
(***************************************************************************)
(* Proofs about TenantStore, for any number of tenants, instances, admin   *)
(* operations and requests.                                                *)
(***************************************************************************)
EXTENDS TenantStore, TLAPS

\* Where an operation holds an instance that it built and has not published.
Holding == {"adding", "swapping", "discarding"}

\* Where an operation is about to close an instance that was registered.
Dooming == {"draining", "retiring"}

\* What the place of an operation says of its local variables.
WellPlaced(n) ==
    /\ IF n.at = "idle" THEN n.id = None ELSE n.id \in Ids
    /\ n.at = "resolving" => n.kind \in {"update", "rewrite", "discover", "reload"}
    /\ n.at \in {"checking", "building", "introspecting", "finding", "rebuilding", "assigning"} =>
           n.config \in Config
    /\ n.at \in Holding => n.built \in Instances
    /\ n.at \in Dooming \cup {"rebuilding", "swapping", "assigning"} => n.found \in Instances

TypeInv ==
    /\ TypeOK
    /\ \A o \in Operations : WellPlaced(op[o])
    /\ \A r \in Requests : Serving(r) => request[r].id \in Ids /\ request[r].inst \in Instances

OneEach == \A a, b \in Ids : Registered(a) /\ registry[a] = registry[b] => a = b

RegisteredServes ==
    \A id \in Ids : Registered(id) =>
        instance[registry[id]].open /\ ~instance[registry[id]].removing

OpenConfigured == \A i \in Instances : instance[i].open => instance[i].config \in Config

\* What an operation built and has not published is open and known to it alone.
BuildersOwn ==
    \A o \in Operations : op[o].at \in Holding =>
        LET i == op[o].built IN
        /\ instance[i].open
        /\ ~instance[i].removing
        /\ i # op[o].found
        /\ \A id \in Ids : registry[id] # i
        /\ \A q \in Operations \ {o} : i # op[q].built /\ i # op[q].found

\* What an operation is about to close is not registered, and what a reload is
\* about to replace is registered as the tenant it reloads, if at all.
FoundApart ==
    \A o \in Operations : \A id \in Ids :
        /\ op[o].at \in Dooming => registry[id] # op[o].found
        /\ op[o].at \in {"rebuilding", "swapping"} /\ registry[id] = op[o].found => id = op[o].id

IInv ==
    /\ TypeInv
    /\ OneEach
    /\ RegisteredServes
    /\ OpenConfigured
    /\ BuildersOwn
    /\ FoundApart
    /\ Pinned
    /\ PoolsAccounted


\* A store without tenants and operations satisfies the invariant.
LEMMA InitIInv == Init => IInv
<1> SUFFICES ASSUME Init PROVE IInv
  OBVIOUS
<1>1. TypeOK
  BY SMT DEF Init, TypeOK, Instance, Blank, Operation, Idle, Kinds, Places, LockPlaces, Request,
         NoRequest
<1>2. \A o \in Operations : op[o].at = "idle" /\ op[o].id = None
  BY DEF Init, Idle
<1>3. \A o \in Operations : WellPlaced(op[o])
  BY <1>2 DEF WellPlaced, Holding, Dooming
<1>4. BuildersOwn /\ FoundApart /\ \A r \in Requests : ~Serving(r)
  BY <1>2 DEF Init, NoRequest, Serving,
            BuildersOwn, FoundApart, Holding, Dooming
<1>5. OneEach /\ RegisteredServes
  BY DEF Init, OneEach, RegisteredServes, Registered
<1>6. OpenConfigured /\ Pinned /\ PoolsAccounted
  BY DEF Init, OpenConfigured, Pinned, PoolsAccounted, Registered, Serving, Blank, NoRequest
<1> QED
  BY <1>1, <1>3, <1>4, <1>5, <1>6 DEF IInv, TypeInv

-----------------------------------------------------------------------------
(* Steps that touch neither the registry nor an instance *)

\* What such a step may make of the files, the lock and the history.
Aside ==
    /\ disk' \in [Ids -> [config: Config \cup {None}, schema: Databases \cup {None}]]
    /\ writer' \in Operations \cup {NoOperation}
    /\ disturbed' \in SUBSET Ids

\* o goes on, or ends, with nothing built and nothing to close.
Moves(o, n) ==
    /\ op' = [op EXCEPT ![o] = n]
    /\ n \in Operation
    /\ WellPlaced(n)
    /\ op[o].at \notin Holding \cup Dooming
    /\ n.at \notin Holding \cup Dooming
    /\ n.built \in {NoInstance, op[o].built}
    /\ n.found \in {NoInstance, op[o].found} \/ \E id \in Ids : registry[id] = n.found
    /\ n.at = "rebuilding" => n.found = registry[n.id]
    /\ UNCHANGED <<registry, instance, request, displaced>>

\* An operation that goes on with nothing built and nothing to close keeps the invariant.
LEMMA MovesStep ==
  ASSUME IInv, Aside, NEW o \in Operations, NEW n, Moves(o, n)
  PROVE  IInv'
<1> USE DEF IInv, TypeInv
<1>1. /\ op \in [Operations -> Operation]
      /\ op'[o] = n
      /\ \A q \in Operations : q # o => op'[q] = op[q]
  BY DEF TypeOK, Moves
<1>2. op' \in [Operations -> Operation] /\ \A q \in Operations : WellPlaced(op'[q])
  BY <1>1 DEF Moves
<1>3. TypeInv'
  BY <1>2 DEF TypeOK, Aside, Moves, WellPlaced, Serving, Holding, Dooming
<1>4. OneEach' /\ RegisteredServes' /\ OpenConfigured'
  BY DEF Moves, OneEach, RegisteredServes, OpenConfigured, Registered
<1>5. BuildersOwn'
  <2> SUFFICES ASSUME NEW q \in Operations, op'[q].at \in Holding
               PROVE  LET i == op'[q].built IN
                      /\ instance'[i].open
                      /\ ~instance'[i].removing
                      /\ i # op'[q].found
                      /\ \A id \in Ids : registry'[id] # i
                      /\ \A r \in Operations \ {q} : i # op'[r].built /\ i # op'[r].found
    BY DEF BuildersOwn
  <2>1. q # o /\ op'[q] = op[q]
    BY <1>1 DEF Moves
  <2>2. op[q].built \in Instances /\ op[q].built # NoInstance
    BY <1>1, <2>1, AbsentAssumption DEF WellPlaced
  <2>3. \A r \in Operations \ {q} : op[q].built # op'[r].built /\ op[q].built # op'[r].found
    BY <1>1, <2>1, <2>2 DEF BuildersOwn, Moves
  <2> QED
    BY <2>1, <2>3 DEF BuildersOwn, Moves
<1>6. FoundApart'
  <2> SUFFICES ASSUME NEW q \in Operations, NEW id \in Ids
               PROVE  /\ op'[q].at \in Dooming => registry[id] # op'[q].found
                      /\ op'[q].at \in {"rebuilding", "swapping"} /\ registry[id] = op'[q].found =>
                             id = op'[q].id
    BY DEF FoundApart, Moves
  <2>1. CASE q # o
    BY <1>1, <2>1 DEF FoundApart
  <2>2. CASE q = o /\ n.at = "rebuilding"
    <3>1. n.id \in Ids /\ n.found # NoInstance /\ registry[n.id] = n.found
      BY <2>2, AbsentAssumption DEF Moves, WellPlaced
    <3> QED
      BY <1>1, <2>2, <3>1 DEF OneEach, Registered, Dooming
  <2>3. CASE q = o /\ n.at # "rebuilding"
    BY <1>1, <2>3 DEF Moves, Holding
  <2> QED
    BY <2>1, <2>2, <2>3
<1>7. Pinned'
  BY DEF Pinned, Moves, Serving
<1>8. PoolsAccounted'
  <2> SUFFICES ASSUME NEW i \in Instances, instance[i].open, \A id \in Ids : registry[id] # i,
                      i \notin displaced
               PROVE  \E q \in Operations :
                        \/ op'[q].built = i /\ op'[q].at \in {"adding", "swapping", "discarding"}
                        \/ op'[q].found = i /\ op'[q].at \in {"draining", "retiring"}
    BY DEF PoolsAccounted, Moves, Registered
  <2>1. PICK q \in Operations :
          \/ op[q].built = i /\ op[q].at \in {"adding", "swapping", "discarding"}
          \/ op[q].found = i /\ op[q].at \in {"draining", "retiring"}
    BY DEF PoolsAccounted
  <2>2. q # o
    BY <2>1 DEF Moves, Holding, Dooming
  <2> QED
    BY <1>1, <2>1, <2>2
<1> QED
  BY <1>3, <1>4, <1>5, <1>6, <1>7, <1>8

\* The operations by their places.
LEMMA OpTypes ==
  ASSUME IInv, NEW o \in Operations
  PROVE  /\ op \in [Operations -> Operation]
         /\ op[o] \in Operation
         /\ op[o].at # "idle" => op[o].id \in Ids
         /\ Idle \in Operation
         /\ WellPlaced(Idle)
<1>1. op \in [Operations -> Operation] /\ WellPlaced(op[o])
  BY DEF IInv, TypeInv, TypeOK
<1>2. Idle \in Operation
  BY DEF Idle, Operation, Kinds, Places, LockPlaces
<1> QED
  BY <1>1, <1>2 DEF WellPlaced, Idle, Holding, Dooming

\* A step that leaves the files, the lock and the history alone is no exception to Aside.
LEMMA Unmoved ==
  ASSUME IInv, UNCHANGED <<disk, writer, disturbed>>
  PROVE  Aside
BY DEF IInv, TypeInv, TypeOK, Aside

\* The end of an operation that holds no instance of its own is such a move.
LEMMA EndMoves ==
  ASSUME IInv, NEW o \in Operations, End(o), op[o].at \notin Holding \cup Dooming,
         UNCHANGED <<registry, instance, request, displaced>>
  PROVE  Moves(o, Idle)
BY OpTypes DEF Moves, End, Idle, Holding, Dooming

\* The start of an admin handler keeps the invariant.
LEMMA BeginStep ==
  ASSUME IInv, NEW o \in Operations, BeginSome(o)
  PROVE  IInv'
<1>1. PICK kind \in Kinds, id \in Ids, c \in Config \cup {None},
           place \in {"checking", "resolving", "removing"} :
        /\ Begin(o, kind, id, c, place)
        /\ place = "checking" => c \in Config
        /\ place = "resolving" => kind \in {"update", "rewrite", "discover", "reload"}
  <2>1. Written \subseteq Config
    BY DEF Written, Config
  <2> QED
    BY <2>1 DEF BeginSome, Kinds
<1> DEFINE n == [Idle EXCEPT !.kind = kind, !.id = id, !.config = c, !.at = place]
<1>2. Idle.found = NoInstance /\ Idle.built = NoInstance
  BY DEF Idle
<1>3. /\ n \in Operation
      /\ n.kind = kind /\ n.id = id /\ n.config = c /\ n.at = place
      /\ n.found = NoInstance /\ n.built = NoInstance
  BY <1>2, OpTypes DEF Operation, Places, LockPlaces
<1>4. WellPlaced(n)
  BY <1>1, <1>3 DEF WellPlaced, Holding, Dooming
<1>5. op[o].at = "idle" /\ op' = [op EXCEPT ![o] = n]
  BY <1>1 DEF Begin
<1>6. Moves(o, n)
  BY <1>1, <1>2, <1>3, <1>4, <1>5 DEF Begin, Moves, Holding, Dooming
<1>7. Aside
  BY <1>1 DEF IInv, TypeInv, TypeOK, Aside, Begin
<1> QED
  BY <1>6, <1>7, MovesStep

\* resolveTenant, and what its handler makes of the instance, keeps the invariant.
LEMMA ResolveStep ==
  ASSUME IInv, NEW o \in Operations, Resolve(o)
  PROVE  IInv'
<1> DEFINE i == registry[op[o].id]
<1>1. op[o].at = "resolving" /\ op[o].id \in Ids
  BY OpTypes DEF Resolve
<1>2. Aside
  BY Unmoved DEF Resolve, History
<1>3. CASE End(o)
  BY <1>1, <1>2, <1>3, EndMoves, MovesStep DEF Resolve, History, Holding, Dooming
<1>4. ASSUME ~End(o) PROVE IInv'
  <2> DEFINE generates == op[o].kind \in {"rewrite", "discover"}
             n == [op[o] EXCEPT !.found = i,
                                !.config = IF generates THEN Generated(instance[i].config) ELSE @,
                                !.at = CASE op[o].kind = "update" -> "saving"
                                         [] op[o].kind = "reload" -> "loading"
                                         [] OTHER -> "introspecting"]
  <2>1. i # NoInstance /\ op' = [op EXCEPT ![o] = n]
    BY <1>4, OpTypes DEF Resolve
  <2>2. i \in Instances /\ instance[i].config \in Config
    BY <1>1, <2>1
    DEF IInv, TypeInv, TypeOK, RegisteredServes, Registered, OpenConfigured
  <2>3. Generated(instance[i].config) \in Config
    BY <2>2 DEF Generated, Config
  <2>4. op[o].kind \in {"update", "rewrite", "discover", "reload"}
    BY <1>1 DEF IInv, TypeInv, WellPlaced
  <2>5. n \in Operation
    BY ZenonT(60), <2>2, <2>3, OpTypes DEF Operation, Places, LockPlaces
  <2>6. /\ n.at \in {"saving", "loading", "introspecting"}
        /\ n.at = "introspecting" => n.config \in Config
        /\ n.id = op[o].id
        /\ n.found = i
        /\ n.built = op[o].built
    BY <2>3, <2>4, OpTypes DEF Operation
  <2>7. WellPlaced(n)
    BY <1>1, <2>6 DEF WellPlaced, Holding, Dooming
  <2>8. Moves(o, n)
    BY <1>1, <2>1, <2>5, <2>6, <2>7 DEF Moves, Resolve, History, Holding, Dooming
  <2> QED
    BY <1>2, <2>8, MovesStep
<1> QED
  BY <1>3, <1>4

\* Only the place of o changes.
LEMMA GotoMoves ==
  ASSUME IInv, NEW o \in Operations, NEW place \in {"building", "saving", "loading"},
         Goto(o, place), op[o].at \notin {"idle"} \cup Holding \cup Dooming,
         place = "building" => op[o].at = "checking",
         UNCHANGED <<registry, instance, request, displaced>>
  PROVE  Moves(o, [op[o] EXCEPT !.at = place])
<1> DEFINE n == [op[o] EXCEPT !.at = place]
<1>1. /\ n \in Operation
      /\ n.at = place /\ n.id = op[o].id /\ n.config = op[o].config
      /\ n.found = op[o].found /\ n.built = op[o].built
  BY OpTypes DEF Operation, Places, LockPlaces
<1>2. WellPlaced(n)
  BY <1>1, OpTypes DEF IInv, TypeInv, WellPlaced, Holding, Dooming
<1>3. op' = [op EXCEPT ![o] = n]
  BY DEF Goto
<1> QED
  BY <1>1, <1>2, <1>3 DEF Moves, Holding, Dooming

\* The first check of AddTenant keeps the invariant.
LEMMA CheckStep ==
  ASSUME IInv, NEW o \in Operations, Check(o)
  PROVE  IInv'
<1>1. op[o].at = "checking" /\ UNCHANGED <<registry, instance, request, displaced>> /\ Aside
  BY Unmoved DEF Check, History
<1>2. CASE End(o)
  BY <1>1, <1>2, EndMoves, MovesStep DEF Holding, Dooming
<1>3. CASE Goto(o, "building")
  BY <1>1, <1>3, GotoMoves, MovesStep DEF Holding, Dooming
<1> QED
  BY <1>2, <1>3 DEF Check

\* SaveTenantConfig, whether it succeeds or fails, keeps the invariant.
LEMMA SaveStep ==
  ASSUME IInv, NEW o \in Operations, Save(o)
  PROVE  IInv'
<1>1. /\ op[o].at = "saving" /\ op[o].id \in Ids /\ op[o].config \in Config \cup {None}
      /\ UNCHANGED <<registry, instance, request, displaced, writer>>
  BY OpTypes DEF Save, Operation
<1>2. Aside
  BY <1>1 DEF IInv, TypeInv, TypeOK, Aside, Save
<1>3. CASE End(o)
  BY <1>1, <1>2, <1>3, EndMoves, MovesStep DEF Holding, Dooming
<1>4. CASE Goto(o, "loading")
  BY <1>1, <1>2, <1>4, GotoMoves, MovesStep DEF Holding, Dooming
<1> QED
  BY <1>3, <1>4 DEF Save

\* The removal of {id}.json keeps the invariant.
LEMMA EraseStep ==
  ASSUME IInv, NEW o \in Operations, Erase(o)
  PROVE  IInv'
<1>1. /\ op[o].at = "erasing" /\ op[o].id \in Ids
      /\ UNCHANGED <<registry, instance, request, displaced, writer, disturbed>>
  BY OpTypes DEF Erase, History
<1>2. Aside
  BY <1>1 DEF IInv, TypeInv, TypeOK, Aside, Erase
<1> QED
  BY <1>1, <1>2, EndMoves, MovesStep DEF Erase, Holding, Dooming

\* A rewrite or discovery that reads the schema of the database keeps the invariant.
LEMMA IntrospectStep ==
  ASSUME IInv, NEW o \in Operations, Introspect(o)
  PROVE  IInv'
<1>1. /\ op[o].at = "introspecting" /\ op[o].id \in Ids /\ op[o].config \in Config
      /\ UNCHANGED <<registry, instance, request, displaced, writer, disturbed>>
  BY OpTypes DEF Introspect, History, IInv, TypeInv, WellPlaced
<1>2. op[o].config.database \in Databases
  BY <1>1 DEF Config
<1>3. Aside
  BY <1>1, <1>2 DEF IInv, TypeInv, TypeOK, Aside, Introspect
<1>4. CASE End(o)
  BY <1>1, <1>3, <1>4, EndMoves, MovesStep DEF Holding, Dooming
<1>5. CASE Goto(o, "saving")
  BY <1>1, <1>3, <1>5, GotoMoves, MovesStep DEF Holding, Dooming
<1> QED
  BY <1>4, <1>5 DEF Introspect

\* A reload that fails before it built anything keeps the invariant.
LEMMA FailStep ==
  ASSUME IInv, NEW o \in Operations, Fail(o), op[o].at \notin {"idle"} \cup Holding \cup Dooming,
         UNCHANGED <<registry, instance, disk, request, writer, displaced>>
  PROVE  IInv'
<1>1. op[o].id \in Ids
  BY OpTypes
<1>2. Aside
  BY <1>1 DEF IInv, TypeInv, TypeOK, Aside, Fail
<1> QED
  BY <1>2, EndMoves, MovesStep DEF Fail

\* The reload's reading of {id}.json keeps the invariant.
LEMMA LoadStep ==
  ASSUME IInv, NEW o \in Operations, Load(o)
  PROVE  IInv'
<1> DEFINE c == disk[op[o].id].config
           n == [op[o] EXCEPT !.kind = "reload", !.config = c, !.found = NoInstance,
                              !.at = "finding"]
<1>1. /\ op[o].at = "loading" /\ op[o].id \in Ids /\ c \in Config \cup {None}
      /\ UNCHANGED <<registry, instance, disk, request, writer, displaced>>
  BY OpTypes DEF Load, IInv, TypeInv, TypeOK
<1>2. CASE Fail(o)
  BY <1>1, <1>2, FailStep DEF Holding, Dooming
<1>3. CASE c # None /\ op' = [op EXCEPT ![o] = n] /\ UNCHANGED disturbed
  <2>1. /\ n \in Operation
        /\ n.at = "finding" /\ n.id = op[o].id /\ n.config = c
        /\ n.found = NoInstance /\ n.built = op[o].built
    BY <1>1, OpTypes DEF Operation, Kinds, Places, LockPlaces
  <2>2. Moves(o, n)
    BY <1>1, <1>3, <2>1 DEF Moves, WellPlaced, Holding, Dooming
  <2> QED
    BY <1>1, <1>3, <2>2, Unmoved, MovesStep
<1> QED
  BY <1>2, <1>3 DEF Load

\* The reload's look-up keeps the invariant: what it finds is registered for its tenant.
LEMMA FindStep ==
  ASSUME IInv, NEW o \in Operations, Find(o)
  PROVE  IInv'
<1> DEFINE i == registry[op[o].id]
<1>1. /\ op[o].at = "finding" /\ op[o].id \in Ids /\ op[o].config \in Config
      /\ i \in Instances \cup {NoInstance}
      /\ UNCHANGED <<registry, instance, disk, request, writer, displaced>>
  BY OpTypes DEF Find, IInv, TypeInv, TypeOK, WellPlaced
<1>2. CASE Fail(o)
  BY <1>1, <1>2, FailStep DEF Holding, Dooming
<1>3. ASSUME NEW place \in {"assigning", "rebuilding"}, i # NoInstance, UNCHANGED disturbed,
             op' = [op EXCEPT ![o] = [op[o] EXCEPT !.found = i, !.at = place]]
      PROVE  IInv'
  <2> DEFINE n == [op[o] EXCEPT !.found = i, !.at = place]
  <2>1. /\ n \in Operation
        /\ n.at = place /\ n.id = op[o].id /\ n.config = op[o].config
        /\ n.found = i /\ n.built = op[o].built
    BY <1>1, <1>3, OpTypes DEF Operation, Places, LockPlaces
  <2>2. Moves(o, n)
    BY <1>1, <1>3, <2>1 DEF Moves, WellPlaced, Holding, Dooming
  <2> QED
    BY <1>1, <1>3, <2>2, Unmoved, MovesStep
<1> QED
  BY <1>2, <1>3 DEF Find

\* An operation that asks for the write lock keeps the invariant.
LEMMA AnnounceStep ==
  ASSUME IInv, NEW o \in Operations, Announce(o)
  PROVE  IInv'
BY DEF Announce, History, IInv, TypeInv, TypeOK, OneEach, RegisteredServes, OpenConfigured,
       BuildersOwn, FoundApart, Pinned, PoolsAccounted, Registered, Serving

-----------------------------------------------------------------------------
(* An instance is built *)

\* The instance i that o builds is fresh, and o alone knows it.
Builds(o, i, n) ==
    /\ op[o].at \in {"building", "rebuilding"}
    /\ Unused(i)
    /\ instance' = [instance EXCEPT ![i] = Built(op[o].config)]
    /\ op' = [op EXCEPT ![o] = n]
    /\ n.at \in {"adding", "swapping"}
    /\ n.at = "swapping" => op[o].at = "rebuilding"
    /\ n.id = op[o].id
    /\ n.found = op[o].found
    /\ n.built = i
    /\ UNCHANGED <<registry, disk, request, writer, History>>

\* An operation that builds an instance nobody knows keeps the invariant.
LEMMA BuildsStep ==
  ASSUME IInv, NEW o \in Operations, NEW i \in Instances, NEW n \in Operation, Builds(o, i, n)
  PROVE  IInv'
<1> USE DEF IInv, TypeInv
<1>1. /\ op \in [Operations -> Operation]
      /\ op'[o] = n
      /\ \A q \in Operations : q # o => op'[q] = op[q]
      /\ UNCHANGED <<registry, disk, request, writer, displaced, disturbed>>
  BY DEF TypeOK, Builds, History
<1>2. op[o].config \in Config /\ op[o].id \in Ids
  BY DEF WellPlaced, Builds
<1>3. /\ Built(op[o].config) \in Instance
      /\ Built(op[o].config).open
      /\ ~Built(op[o].config).removing
      /\ Built(op[o].config).config = op[o].config
  BY <1>2 DEF Built, Instance
<1>4. /\ instance' \in [Instances -> Instance]
      /\ instance'[i] = Built(op[o].config)
      /\ \A j \in Instances : j # i => instance'[j] = instance[j]
  BY <1>3 DEF TypeOK, Builds
<1>5. /\ \A id \in Ids : registry[id] # i
      /\ \A q \in Operations : i # op[q].found /\ i # op[q].built
  BY DEF Builds, Unused
<1>6. WellPlaced(n) /\ op' \in [Operations -> Operation]
  BY <1>1, <1>2 DEF Builds, WellPlaced, Holding, Dooming
<1>7. TypeInv'
  BY <1>1, <1>4, <1>6 DEF TypeOK, WellPlaced, Serving, Holding, Dooming
<1>8. OneEach'
  BY <1>1 DEF OneEach, Registered
<1>9. RegisteredServes'
  BY <1>1, <1>4, <1>5 DEF RegisteredServes, Registered, TypeOK
<1>10. OpenConfigured'
  BY <1>2, <1>3, <1>4 DEF OpenConfigured
<1>11. BuildersOwn'
  <2> SUFFICES ASSUME NEW q \in Operations, op'[q].at \in Holding
               PROVE  LET j == op'[q].built IN
                      /\ instance'[j].open
                      /\ ~instance'[j].removing
                      /\ j # op'[q].found
                      /\ \A id \in Ids : registry'[id] # j
                      /\ \A r \in Operations \ {q} : j # op'[r].built /\ j # op'[r].found
    BY DEF BuildersOwn
  <2>1. CASE q = o
    BY <1>1, <1>3, <1>4, <1>5, <2>1 DEF Builds
  <2>2. CASE q # o
    <3>1. op[q].at \in Holding /\ op[q].built \in Instances /\ op[q].built # i
      BY <1>1, <1>5, <2>2 DEF WellPlaced
    <3> QED
      BY <1>1, <1>4, <2>2, <3>1 DEF BuildersOwn, Builds
  <2> QED
    BY <2>1, <2>2
<1>12. FoundApart'
  BY <1>1 DEF FoundApart, Builds, Dooming
<1>13. Pinned'
  BY <1>1, <1>4, <1>5 DEF Pinned, Serving, TypeOK, Builds, Unused
<1>14. PoolsAccounted'
  <2>1. \A id \in Ids : Registered(id)' => instance'[registry'[id]].open
    BY <1>9 DEF RegisteredServes
  <2>2. ASSUME NEW j \in Instances, instance'[j].open, \A id \in Ids : registry[id] # j,
               j \notin displaced
        PROVE  \E q \in Operations :
                 \/ op'[q].built = j /\ op'[q].at \in {"adding", "swapping", "discarding"}
                 \/ op'[q].found = j /\ op'[q].at \in {"draining", "retiring"}
    <3>1. CASE j = i
      BY <1>1, <3>1 DEF Builds
    <3>2. CASE j # i
      <4>1. PICK q \in Operations :
              \/ op[q].built = j /\ op[q].at \in {"adding", "swapping", "discarding"}
              \/ op[q].found = j /\ op[q].at \in {"draining", "retiring"}
        BY <1>4, <2>2, <3>2 DEF PoolsAccounted
      <4> QED
        BY <1>1, <4>1 DEF Builds
    <3> QED
      BY <3>1, <3>2
  <2> QED
    BY <1>1, <2>1, <2>2 DEF PoolsAccounted
<1> QED
  BY <1>7, <1>8, <1>9, <1>10, <1>11, <1>12, <1>13, <1>14

\* buildTenantInstance, called by AddTenant, keeps the invariant.
LEMMA BuildStep ==
  ASSUME IInv, NEW o \in Operations, Build(o)
  PROVE  IInv'
<1>1. op[o].at = "building"
  BY DEF Build
<1>2. CASE End(o) /\ UNCHANGED instance
  BY <1>1, <1>2, Unmoved, EndMoves, MovesStep DEF Build, History, Holding, Dooming
<1>3. ASSUME NEW i \in Instances, Unused(i),
             instance' = [instance EXCEPT ![i] = Built(op[o].config)],
             op' = [op EXCEPT ![o] = [op[o] EXCEPT !.built = i, !.at = "adding"]]
      PROVE  IInv'
  <2> DEFINE n == [op[o] EXCEPT !.built = i, !.at = "adding"]
  <2>1. /\ n \in Operation
        /\ n.at = "adding" /\ n.id = op[o].id /\ n.found = op[o].found /\ n.built = i
    BY OpTypes DEF Operation, Places, LockPlaces
  <2>2. Builds(o, i, n)
    BY <1>1, <1>3, <2>1 DEF Builds, Build
  <2> QED
    BY <2>1, <2>2, BuildsStep
<1> QED
  BY <1>2, <1>3 DEF Build

\* buildTenantInstance, called by ReloadTenant, keeps the invariant.
LEMMA RebuildStep ==
  ASSUME IInv, NEW o \in Operations, Rebuild(o)
  PROVE  IInv'
<1>1. /\ op[o].at = "rebuilding"
      /\ UNCHANGED <<registry, disk, request, writer, displaced>>
  BY DEF Rebuild
<1>2. CASE Fail(o) /\ UNCHANGED instance
  BY <1>1, <1>2, FailStep DEF Holding, Dooming
<1>3. ASSUME NEW i \in Instances, Unused(i), UNCHANGED disturbed,
             instance' = [instance EXCEPT ![i] = Built(op[o].config)],
             Keep(o, "swapping", op[o].found, i)
      PROVE  IInv'
  <2> DEFINE n == [Idle EXCEPT !.kind = op[o].kind, !.id = op[o].id, !.at = "swapping",
                               !.found = op[o].found, !.built = i]
  <2>1. /\ n \in Operation
        /\ n.at = "swapping" /\ n.id = op[o].id /\ n.found = op[o].found /\ n.built = i
    BY OpTypes DEF Operation, Places, LockPlaces
  <2>2. Builds(o, i, n)
    BY <1>1, <1>3, <2>1 DEF Builds, Keep, History
  <2> QED
    BY <2>1, <2>2, BuildsStep
<1> QED
  BY <1>2, <1>3 DEF Rebuild

-----------------------------------------------------------------------------
(* An instance is closed *)

\* o closes i, which nobody else is to publish, and forgets it.
Closes(o, i, n) ==
    /\ \/ op[o].at = "discarding" /\ i = op[o].built
       \/ op[o].at \in Dooming /\ i = op[o].found
    /\ instance' = Closed(i)
    /\ op' = [op EXCEPT ![o] = n]
    /\ WellPlaced(n)
    /\ n.at \in {"idle", "erasing"}
    /\ n.built = NoInstance /\ n.found = NoInstance
    /\ displaced' \in {displaced, displaced \ {i}}
    /\ UNCHANGED <<registry, disk, request, writer, disturbed>>

\* An operation that closes the instance it alone is to close keeps the invariant.
LEMMA ClosesStep ==
  ASSUME IInv, NEW o \in Operations, NEW i, NEW n \in Operation, Closes(o, i, n)
  PROVE  IInv'
<1> USE DEF IInv, TypeInv
<1>1. /\ op \in [Operations -> Operation]
      /\ op'[o] = n
      /\ \A q \in Operations : q # o => op'[q] = op[q]
      /\ UNCHANGED <<registry, disk, request, writer, disturbed>>
  BY DEF TypeOK, Closes
<1>2. i \in Instances
  BY DEF Closes, WellPlaced, Holding
<1>3. /\ instance' \in [Instances -> Instance]
      /\ ~instance'[i].open
      /\ \A j \in Instances : j # i => instance'[j] = instance[j]
  <2>1. instance[i].removing \in BOOLEAN
    BY <1>2 DEF TypeOK, Instance
  <2>2. /\ [Blank EXCEPT !.removing = instance[i].removing] \in Instance
        /\ ~[Blank EXCEPT !.removing = instance[i].removing].open
    BY <2>1 DEF Blank, Instance
  <2>3. instance' = [instance EXCEPT ![i] = [Blank EXCEPT !.removing = instance[i].removing]]
    BY DEF Closes, Closed
  <2> HIDE DEF IInv, TypeInv
  <2> QED
    BY <1>2, <2>2, <2>3 DEF IInv, TypeInv, TypeOK
<1>4. \A id \in Ids : registry[id] # i
  BY DEF Closes, BuildersOwn, FoundApart, Holding
<1>5. \A q \in Operations \ {o} : op[q].at \in Holding => op[q].built # i
  BY DEF Closes, BuildersOwn, Holding
<1>6. TypeInv'
  BY <1>1, <1>3 DEF Closes, TypeOK, WellPlaced, Serving, Holding, Dooming
<1>7. OneEach'
  BY <1>1 DEF OneEach, Registered
<1>8. RegisteredServes'
  BY <1>1, <1>3, <1>4 DEF RegisteredServes, Registered, TypeOK
<1>9. OpenConfigured'
  BY <1>3 DEF OpenConfigured
<1>10. BuildersOwn'
  <2> SUFFICES ASSUME NEW q \in Operations, op'[q].at \in Holding
               PROVE  LET j == op'[q].built IN
                      /\ instance'[j].open
                      /\ ~instance'[j].removing
                      /\ j # op'[q].found
                      /\ \A id \in Ids : registry'[id] # j
                      /\ \A r \in Operations \ {q} : j # op'[r].built /\ j # op'[r].found
    BY DEF BuildersOwn
  <2>1. q # o /\ op'[q] = op[q] /\ op[q].at \in Holding
    BY <1>1 DEF Closes, Holding
  <2>2. op[q].built \in Instances /\ op[q].built # NoInstance /\ op[q].built # i
    BY <1>5, <2>1, AbsentAssumption DEF WellPlaced
  <2> QED
    BY <1>1, <1>3, <2>1, <2>2 DEF BuildersOwn, Closes
<1>11. FoundApart'
  BY <1>1 DEF FoundApart, Closes, Dooming
<1>12. Pinned'
  BY <1>1, <1>3, <1>4 DEF Pinned, Serving
<1>13. PoolsAccounted'
  <2>1. \A id \in Ids : Registered(id)' => instance'[registry'[id]].open
    BY <1>8 DEF RegisteredServes
  <2>2. ASSUME NEW j \in Instances, instance'[j].open, \A id \in Ids : registry[id] # j,
               j \notin displaced'
        PROVE  \E q \in Operations :
                 \/ op'[q].built = j /\ op'[q].at \in {"adding", "swapping", "discarding"}
                 \/ op'[q].found = j /\ op'[q].at \in {"draining", "retiring"}
    <3>1. j # i /\ instance[j].open /\ j \notin displaced
      BY <1>3, <2>2 DEF Closes
    <3>2. PICK q \in Operations :
            \/ op[q].built = j /\ op[q].at \in {"adding", "swapping", "discarding"}
            \/ op[q].found = j /\ op[q].at \in {"draining", "retiring"}
      BY <2>2, <3>1 DEF PoolsAccounted
    <3>3. q # o
      BY <3>1, <3>2 DEF Closes, Dooming
    <3> QED
      BY <1>1, <3>2, <3>3
  <2> QED
    BY <1>1, <2>1, <2>2 DEF PoolsAccounted
<1> QED
  BY <1>6, <1>7, <1>8, <1>9, <1>10, <1>11, <1>12, <1>13

\* The closing of what was built in vain keeps the invariant.
LEMMA DiscardStep ==
  ASSUME IInv, NEW o \in Operations, Discard(o)
  PROVE  IInv'
<1>1. Closes(o, op[o].built, Idle)
  BY OpTypes DEF Closes, Discard, End, Idle, History
<1> QED
  BY <1>1, OpTypes, ClosesStep

\* The closing of what a reload has replaced keeps the invariant.
LEMMA RetireStep ==
  ASSUME IInv, NEW o \in Operations, Retire(o)
  PROVE  IInv'
<1>1. Closes(o, op[o].found, Idle)
  BY OpTypes DEF Closes, Retire, End, Idle, Dooming
<1> QED
  BY <1>1, OpTypes, ClosesStep

\* What Keep makes of an operation.
LEMMA Kept ==
  ASSUME IInv, NEW o \in Operations, op[o].at # "idle",
         NEW place \in {"discarding", "erasing", "retiring"},
         NEW f \in Instances \cup {NoInstance}, NEW b \in Instances \cup {NoInstance},
         Keep(o, place, f, b)
  PROVE  \E n \in Operation :
           /\ op' = [op EXCEPT ![o] = n]
           /\ n.at = place /\ n.id = op[o].id /\ n.found = f /\ n.built = b
<1> DEFINE n == [Idle EXCEPT !.kind = op[o].kind, !.id = op[o].id, !.at = place,
                             !.found = f, !.built = b]
<1>1. /\ n \in Operation
      /\ n.at = place /\ n.id = op[o].id /\ n.found = f /\ n.built = b
  BY OpTypes DEF Operation, Places, LockPlaces
<1>2. op' = [op EXCEPT ![o] = n]
  BY DEF Keep
<1> QED
  BY <1>1, <1>2

\* The draining and closing of a removed instance keeps the invariant.
LEMMA DrainStep ==
  ASSUME IInv, NEW o \in Operations, Drain(o)
  PROVE  IInv'
<1>1. op[o].at = "draining" /\ op[o].id \in Ids
  BY OpTypes DEF Drain
<1>2. PICK n \in Operation :
        /\ op' = [op EXCEPT ![o] = n]
        /\ n.at = "erasing" /\ n.id = op[o].id /\ n.found = NoInstance /\ n.built = NoInstance
  BY <1>1, Kept DEF Drain
<1>3. WellPlaced(n)
  BY <1>1, <1>2 DEF WellPlaced, Holding, Dooming
<1>4. Closes(o, op[o].found, n)
  BY <1>1, <1>2, <1>3 DEF Closes, Drain, Dooming, History
<1> QED
  BY <1>4, ClosesStep

-----------------------------------------------------------------------------
(* Steps under the write lock *)

\* With the lock o publishes what it built, and goes on to save its file or to close
\* the instance it has found.
Publishes(o, n) ==
    /\ HasLock(o)
    /\ registry' = [registry EXCEPT ![op[o].id] = op[o].built]
    /\ op' = [op EXCEPT ![o] = n]
    /\ \/ /\ op[o].at = "adding" /\ n.at = "saving"
          /\ ~Registered(op[o].id)
          /\ UNCHANGED displaced
       \/ /\ op[o].at = "swapping" /\ n.at = "retiring"
          /\ Registered(op[o].id)
          /\ displaced' = displaced \cup ({registry[op[o].id]} \ {op[o].found})
    /\ n.id = op[o].id
    /\ n.found = op[o].found
    /\ n.built \in {NoInstance, op[o].built}
    /\ writer' = NoOperation
    /\ UNCHANGED <<instance, disk, request, disturbed>>

\* The publication of an instance under the write lock keeps the invariant.
LEMMA PublishesStep ==
  ASSUME IInv, NEW o \in Operations, NEW n \in Operation, Publishes(o, n)
  PROVE  IInv'
<1> USE DEF IInv, TypeInv
<1> DEFINE i == op[o].built
           t == op[o].id
<1>1. /\ op \in [Operations -> Operation]
      /\ op'[o] = n
      /\ \A q \in Operations : q # o => op'[q] = op[q]
      /\ UNCHANGED <<instance, disk, request, disturbed>>
  BY DEF TypeOK, Publishes
<1>2. i \in Instances /\ i # NoInstance /\ t \in Ids /\ op[o].at \in Holding
  BY AbsentAssumption DEF Publishes, WellPlaced, Holding
<1>3. /\ registry' \in [Ids -> Instances \cup {NoInstance}]
      /\ registry'[t] = i
      /\ \A id \in Ids : id # t => registry'[id] = registry[id]
  BY <1>2 DEF TypeOK, Publishes
<1>4. /\ instance[i].open /\ ~instance[i].removing
      /\ i # op[o].found
      /\ \A id \in Ids : registry[id] # i
      /\ \A q \in Operations \ {o} : i # op[q].built /\ i # op[q].found
  BY <1>2 DEF BuildersOwn
<1>5. \A r \in Requests : ~Serving(r) /\ ~Serving(r)'
  BY DEF Publishes, HasLock, Serving
<1>6. TypeInv'
  <2>1. displaced' \in SUBSET Instances
    BY <1>2 DEF TypeOK, Publishes, Registered
  <2>2. WellPlaced(n)
    BY <1>2 DEF Publishes, WellPlaced, Holding, Dooming
  <2> QED
    BY <1>1, <1>3, <1>5, <2>1, <2>2 DEF TypeOK, WellPlaced, Publishes, Holding, Dooming
<1>7. OneEach'
  BY <1>3, <1>4 DEF OneEach, Registered
<1>8. RegisteredServes'
  BY <1>1, <1>3, <1>4 DEF RegisteredServes, Registered
<1>9. OpenConfigured'
  BY <1>1 DEF OpenConfigured
<1>10. BuildersOwn'
  <2> SUFFICES ASSUME NEW q \in Operations, op'[q].at \in Holding
               PROVE  LET j == op'[q].built IN
                      /\ instance'[j].open
                      /\ ~instance'[j].removing
                      /\ j # op'[q].found
                      /\ \A id \in Ids : registry'[id] # j
                      /\ \A r \in Operations \ {q} : j # op'[r].built /\ j # op'[r].found
    BY DEF BuildersOwn
  <2>1. q # o /\ op'[q] = op[q] /\ op[q].at \in Holding
    BY <1>1 DEF Publishes, Holding
  <2>2. op[q].built \in Instances /\ op[q].built # NoInstance /\ op[q].built # i
    BY <1>4, <2>1, AbsentAssumption DEF WellPlaced
  <2>3. \A id \in Ids : registry'[id] # op[q].built
    BY <1>3, <2>1, <2>2 DEF BuildersOwn
  <2>4. \A r \in Operations \ {q} : op[q].built # op'[r].built /\ op[q].built # op'[r].found
    BY <1>1, <2>1, <2>2 DEF BuildersOwn, Publishes
  <2> QED
    BY <1>1, <2>1, <2>3, <2>4 DEF BuildersOwn
<1>11. FoundApart'
  <2> SUFFICES ASSUME NEW q \in Operations, NEW id \in Ids
               PROVE  /\ op'[q].at \in Dooming => registry'[id] # op'[q].found
                      /\ op'[q].at \in {"rebuilding", "swapping"} /\ registry'[id] = op'[q].found =>
                             id = op'[q].id
    BY DEF FoundApart
  <2>1. CASE q # o
    BY <1>1, <1>3, <1>4, <2>1 DEF FoundApart
  <2>2. CASE q = o
    BY <1>1, <1>3, <1>4, <2>2 DEF FoundApart, Publishes, Dooming
  <2> QED
    BY <2>1, <2>2
<1>12. Pinned'
  BY <1>5 DEF Pinned
<1>13. PoolsAccounted'
  <2>1. \A id \in Ids : Registered(id)' => instance'[registry'[id]].open
    BY <1>8 DEF RegisteredServes
  <2>2. ASSUME NEW j \in Instances, instance'[j].open, \A id \in Ids : registry'[id] # j,
               j \notin displaced'
        PROVE  \E q \in Operations :
                 \/ op'[q].built = j /\ op'[q].at \in {"adding", "swapping", "discarding"}
                 \/ op'[q].found = j /\ op'[q].at \in {"draining", "retiring"}
    <3>1. j # i /\ instance[j].open /\ j \notin displaced
      BY <1>1, <1>2, <1>3, <2>2 DEF Publishes
    <3>2. CASE \E id \in Ids : registry[id] = j
      <4>1. registry[t] = j /\ Registered(t)
        BY <1>3, <2>2, <3>2, AbsentAssumption DEF Registered
      <4>2. n.at = "retiring" /\ n.found = j
        BY <2>2, <4>1 DEF Publishes
      <4> QED
        BY <1>1, <4>2
    <3>3. CASE \A id \in Ids : registry[id] # j
      <4>1. PICK q \in Operations :
              \/ op[q].built = j /\ op[q].at \in {"adding", "swapping", "discarding"}
              \/ op[q].found = j /\ op[q].at \in {"draining", "retiring"}
        BY <3>1, <3>3 DEF PoolsAccounted
      <4>2. q # o
        BY <3>1, <4>1 DEF Publishes
      <4> QED
        BY <1>1, <4>1, <4>2
    <3> QED
      BY <3>2, <3>3
  <2> QED
    BY <1>1, <2>1, <2>2 DEF PoolsAccounted
<1> QED
  BY <1>6, <1>7, <1>8, <1>9, <1>10, <1>11, <1>12, <1>13

\* With the lock o finds that what it built is not wanted.
Refused(o, n) ==
    /\ op[o].at \in {"adding", "swapping"}
    /\ op' = [op EXCEPT ![o] = n]
    /\ n.at = "discarding" /\ n.id = op[o].id /\ n.found = NoInstance
    /\ n.built = op[o].built
    /\ writer' = NoOperation
    /\ UNCHANGED <<registry, instance, disk, request, displaced, disturbed>>

\* An operation that may not publish what it built still owns it: the invariant is kept.
LEMMA RefusedStep ==
  ASSUME IInv, NEW o \in Operations, NEW n \in Operation, Refused(o, n)
  PROVE  IInv'
<1> USE DEF IInv, TypeInv
<1>1. /\ op \in [Operations -> Operation]
      /\ op'[o] = n
      /\ \A q \in Operations : q # o => op'[q] = op[q]
      /\ UNCHANGED <<registry, instance, disk, request, displaced, disturbed>>
  BY DEF TypeOK, Refused
<1>2. op[o].at \in Holding /\ op[o].built \in Instances /\ op[o].built # NoInstance
  BY AbsentAssumption DEF WellPlaced, Refused, Holding
<1>3. WellPlaced(n)
  BY <1>2 DEF Refused, WellPlaced, Holding, Dooming
<1>4. TypeInv'
  BY <1>1, <1>3 DEF Refused, TypeOK, WellPlaced, Serving, Holding, Dooming
<1>5. OneEach' /\ RegisteredServes' /\ OpenConfigured' /\ Pinned'
  BY <1>1 DEF OneEach, RegisteredServes, OpenConfigured, Pinned, Registered, Serving
<1>6. BuildersOwn'
  <2> SUFFICES ASSUME NEW q \in Operations, op'[q].at \in Holding
               PROVE  LET j == op'[q].built IN
                      /\ instance[j].open
                      /\ ~instance[j].removing
                      /\ j # op'[q].found
                      /\ \A id \in Ids : registry[id] # j
                      /\ \A r \in Operations \ {q} : j # op'[r].built /\ j # op'[r].found
    BY <1>1 DEF BuildersOwn
  <2>1. CASE q = o
    BY <1>1, <1>2, <2>1 DEF BuildersOwn, Refused
  <2>2. CASE q # o
    <3>1. op'[q] = op[q] /\ op[q].built \in Instances /\ op[q].built # NoInstance
      BY <1>1, <2>2, AbsentAssumption DEF WellPlaced
    <3> QED
      BY <1>1, <2>2, <3>1 DEF BuildersOwn, Refused
  <2> QED
    BY <2>1, <2>2
<1>7. FoundApart'
  BY <1>1 DEF FoundApart, Refused, Dooming
<1>8. PoolsAccounted'
  BY <1>1 DEF PoolsAccounted, Refused, Registered
<1> QED
  BY <1>4, <1>5, <1>6, <1>7, <1>8

\* The second check and the publication of AddTenant keep the invariant.
LEMMA AddStep ==
  ASSUME IInv, NEW o \in Operations, Add(o)
  PROVE  IInv'
<1>1. /\ op[o].at = "adding" /\ op[o].built \in Instances
      /\ HasLock(o) /\ writer' = NoOperation
      /\ UNCHANGED <<instance, disk, request, displaced, disturbed>>
  BY DEF Add, History, IInv, TypeInv, WellPlaced, Holding
<1>2. CASE Keep(o, "discarding", NoInstance, op[o].built) /\ UNCHANGED registry
  BY <1>1, <1>2, Kept, RefusedStep DEF Refused
<1>3. CASE /\ ~Registered(op[o].id)
           /\ Goto(o, "saving")
           /\ registry' = [registry EXCEPT ![op[o].id] = op[o].built]
  <2> DEFINE n == [op[o] EXCEPT !.at = "saving"]
  <2>1. /\ n \in Operation
        /\ n.at = "saving" /\ n.id = op[o].id /\ n.found = op[o].found
        /\ n.built = op[o].built
    BY OpTypes DEF Operation, Places, LockPlaces
  <2>2. Publishes(o, n)
    BY <1>1, <1>3, <2>1 DEF Publishes, Goto
  <2> QED
    BY <2>1, <2>2, PublishesStep
<1> QED
  BY <1>2, <1>3 DEF Add

\* The publication of ReloadTenant keeps the invariant.
LEMMA SwapStep ==
  ASSUME IInv, NEW o \in Operations, Swap(o)
  PROVE  IInv'
<1>1. /\ op[o].at = "swapping" /\ op[o].built \in Instances /\ op[o].found \in Instances
      /\ HasLock(o) /\ writer' = NoOperation
      /\ UNCHANGED <<instance, disk, request, disturbed>>
  BY DEF Swap, IInv, TypeInv, WellPlaced, Holding
<1>2. CASE Keep(o, "discarding", NoInstance, op[o].built) /\ UNCHANGED <<registry, displaced>>
  BY SMTT(30), <1>1, <1>2, Kept, RefusedStep DEF Refused
<1>3. CASE /\ Registered(op[o].id)
           /\ registry' = [registry EXCEPT ![op[o].id] = op[o].built]
           /\ displaced' = displaced \cup ({registry[op[o].id]} \ {op[o].found})
           /\ Keep(o, "retiring", op[o].found, NoInstance)
  <2>1. PICK n \in Operation :
          /\ op' = [op EXCEPT ![o] = n]
          /\ n.at = "retiring" /\ n.id = op[o].id /\ n.found = op[o].found
          /\ n.built = NoInstance
    BY <1>1, <1>3, Kept
  <2>2. Publishes(o, n)
    BY <1>1, <1>3, <2>1 DEF Publishes
  <2> QED
    BY <2>2, PublishesStep
<1> QED
  BY <1>2, <1>3 DEF Swap

\* The tenant leaves the registry, and o is to close its instance.
Deregisters(o, i, n) ==
    /\ op[o].at = "removing"
    /\ HasLock(o)
    /\ i = registry[op[o].id] /\ i # NoInstance
    /\ registry' = [registry EXCEPT ![op[o].id] = NoInstance]
    /\ instance' = [instance EXCEPT ![i].removing = TRUE]
    /\ op' = [op EXCEPT ![o] = n]
    /\ n.at = "draining" /\ n.id = op[o].id /\ n.found = i /\ n.built = op[o].built
    /\ writer' = NoOperation
    /\ UNCHANGED <<disk, request, displaced, disturbed>>

\* A tenant that leaves the registry under the write lock keeps the invariant.
LEMMA DeregistersStep ==
  ASSUME IInv, NEW o \in Operations, NEW i, NEW n \in Operation, Deregisters(o, i, n)
  PROVE  IInv'
<1> USE DEF IInv, TypeInv
<1> DEFINE t == op[o].id
<1>1. /\ op \in [Operations -> Operation]
      /\ op'[o] = n
      /\ \A q \in Operations : q # o => op'[q] = op[q]
      /\ UNCHANGED <<disk, request, displaced, disturbed>>
  BY DEF TypeOK, Deregisters
<1>2. t \in Ids /\ i \in Instances
  BY DEF Deregisters, WellPlaced, TypeOK
<1>3. /\ registry' \in [Ids -> Instances \cup {NoInstance}]
      /\ registry'[t] = NoInstance
      /\ \A id \in Ids : id # t => registry'[id] = registry[id]
  BY <1>2 DEF TypeOK, Deregisters
<1>4. \A id \in Ids : id # t => registry[id] # i
  BY <1>2 DEF OneEach, Registered, Deregisters
<1>5. /\ instance' \in [Instances -> Instance]
      /\ \A j \in Instances : /\ instance'[j].open = instance[j].open
                              /\ instance'[j].config = instance[j].config
                              /\ j # i => instance'[j] = instance[j]
  <2>1. instance[i] \in Instance
    BY <1>2 DEF TypeOK
  <2>2. /\ [instance[i] EXCEPT !.removing = TRUE] \in Instance
        /\ [instance[i] EXCEPT !.removing = TRUE].open = instance[i].open
        /\ [instance[i] EXCEPT !.removing = TRUE].config = instance[i].config
    BY <2>1 DEF Instance
  <2>3. instance' = [instance EXCEPT ![i] = [instance[i] EXCEPT !.removing = TRUE]]
    BY DEF Deregisters
  <2>4. instance \in [Instances -> Instance]
    BY DEF TypeOK
  <2> HIDE DEF IInv, TypeInv
  <2> QED
    BY <1>2, <2>2, <2>3, <2>4
<1>6. \A r \in Requests : ~Serving(r) /\ ~Serving(r)'
  BY DEF Deregisters, HasLock, Serving
<1>7. TypeInv'
  <2>1. WellPlaced(n)
    BY <1>2 DEF Deregisters, WellPlaced, Holding, Dooming
  <2> QED
    BY <1>1, <1>3, <1>5, <1>6, <2>1 DEF TypeOK, WellPlaced, Deregisters, Holding, Dooming
<1>8. OneEach'
  BY <1>3 DEF OneEach, Registered
<1>9. RegisteredServes'
  BY <1>3, <1>4, <1>5 DEF RegisteredServes, Registered, TypeOK
<1>10. OpenConfigured'
  BY <1>5 DEF OpenConfigured
<1>11. BuildersOwn'
  <2> SUFFICES ASSUME NEW q \in Operations, op'[q].at \in Holding
               PROVE  LET j == op'[q].built IN
                      /\ instance'[j].open
                      /\ ~instance'[j].removing
                      /\ j # op'[q].found
                      /\ \A id \in Ids : registry'[id] # j
                      /\ \A r \in Operations \ {q} : j # op'[r].built /\ j # op'[r].found
    BY DEF BuildersOwn
  <2>1. q # o /\ op'[q] = op[q] /\ op[q].at \in Holding
    BY <1>1 DEF Deregisters, Holding
  <2>2. op[q].built \in Instances /\ op[q].built # NoInstance
    BY <2>1, AbsentAssumption DEF WellPlaced
  <2>3. op[q].built # i
    BY <1>2, <2>1 DEF BuildersOwn, Deregisters
  <2>4. \A id \in Ids : registry'[id] # op[q].built
    BY <1>3, <2>1, <2>2 DEF BuildersOwn
  <2>5. \A r \in Operations \ {q} : op[q].built # op'[r].built /\ op[q].built # op'[r].found
    BY <1>1, <2>1, <2>3 DEF BuildersOwn, Deregisters
  <2> QED
    BY <1>5, <2>1, <2>2, <2>3, <2>4, <2>5 DEF BuildersOwn
<1>12. FoundApart'
  <2> SUFFICES ASSUME NEW q \in Operations, NEW id \in Ids
               PROVE  /\ op'[q].at \in Dooming => registry'[id] # op'[q].found
                      /\ op'[q].at \in {"rebuilding", "swapping"} /\ registry'[id] = op'[q].found =>
                             id = op'[q].id
    BY DEF FoundApart
  <2>1. CASE q = o
    BY <1>1, <1>3, <1>4, <2>1 DEF Deregisters
  <2>2. CASE q # o
    <3>1. op'[q] = op[q]
      BY <1>1, <2>2
    <3>2. op[q].at \in Dooming \cup {"rebuilding", "swapping"} => op[q].found # NoInstance
      BY AbsentAssumption DEF WellPlaced
    <3> QED
      BY <1>3, <3>1, <3>2 DEF FoundApart
  <2> QED
    BY <2>1, <2>2
<1>13. Pinned'
  BY <1>6 DEF Pinned
<1>14. PoolsAccounted'
  <2>1. \A id \in Ids : Registered(id)' => instance'[registry'[id]].open
    BY <1>9 DEF RegisteredServes
  <2>2. ASSUME NEW j \in Instances, instance'[j].open, \A id \in Ids : registry'[id] # j,
               j \notin displaced
        PROVE  \E q \in Operations :
                 \/ op'[q].built = j /\ op'[q].at \in {"adding", "swapping", "discarding"}
                 \/ op'[q].found = j /\ op'[q].at \in {"draining", "retiring"}
    <3>1. CASE j = i
      BY <1>1, <3>1 DEF Deregisters
    <3>2. CASE j # i
      <4>1. instance[j].open /\ \A id \in Ids : registry[id] # j
        BY <1>3, <1>5, <2>2, <3>2 DEF Deregisters
      <4>2. PICK q \in Operations :
              \/ op[q].built = j /\ op[q].at \in {"adding", "swapping", "discarding"}
              \/ op[q].found = j /\ op[q].at \in {"draining", "retiring"}
        BY <2>2, <4>1 DEF PoolsAccounted
      <4>3. q # o
        BY <4>2 DEF Deregisters
      <4> QED
        BY <1>1, <4>2, <4>3
    <3> QED
      BY <3>1, <3>2
  <2> QED
    BY <1>1, <2>1, <2>2 DEF PoolsAccounted
<1> QED
  BY <1>7, <1>8, <1>9, <1>10, <1>11, <1>12, <1>13, <1>14

\* RemoveTenant's locked section keeps the invariant, whether the tenant is there or not.
LEMMA DeregisterStep ==
  ASSUME IInv, NEW o \in Operations, Deregister(o)
  PROVE  IInv'
<1> DEFINE i == registry[op[o].id]
<1>1. /\ op[o].at = "removing" /\ op[o].id \in Ids /\ HasLock(o) /\ writer' = NoOperation
      /\ UNCHANGED <<disk, request, displaced, disturbed>>
  BY OpTypes DEF Deregister, History
<1>2. CASE End(o) /\ UNCHANGED <<registry, instance>>
  <2>1. Aside
    BY <1>1 DEF Aside, IInv, TypeInv, TypeOK
  <2> QED
    BY <1>1, <1>2, <2>1, EndMoves, MovesStep DEF Holding, Dooming
<1>3. CASE /\ i # NoInstance
           /\ registry' = [registry EXCEPT ![op[o].id] = NoInstance]
           /\ instance' = [instance EXCEPT ![i].removing = TRUE]
           /\ op' = [op EXCEPT ![o].found = i, ![o].at = "draining"]
  <2> DEFINE n == [op[o] EXCEPT !.found = i, !.at = "draining"]
  <2>1. i \in Instances
    BY <1>1, <1>3 DEF IInv, TypeInv, TypeOK
  <2>2. /\ n \in Operation
        /\ n.at = "draining" /\ n.id = op[o].id /\ n.found = i /\ n.built = op[o].built
    BY <2>1, OpTypes DEF Operation, Places, LockPlaces
  <2>3. op' = [op EXCEPT ![o] = n]
    BY <1>3
  <2>4. Deregisters(o, i, n)
    BY <1>1, <1>3, <2>2, <2>3 DEF Deregisters
  <2> QED
    BY <2>2, <2>4, DeregistersStep
<1> QED
  BY <1>2, <1>3 DEF Deregister, Registered

\* The light path of ReloadTenant, which changes Config and Router only, keeps the invariant.
LEMMA AssignStep ==
  ASSUME IInv, NEW o \in Operations, Assign(o)
  PROVE  IInv'
<1> DEFINE i == op[o].found
           c == op[o].config
<1>1. /\ op[o].at = "assigning" /\ i \in Instances /\ c \in Config
      /\ HasLock(o) /\ writer' = NoOperation
      /\ op \in [Operations -> Operation]
      /\ op' = [op EXCEPT ![o] = Idle]
      /\ UNCHANGED <<registry, disk, request, displaced, disturbed>>
  BY OpTypes DEF Assign, End, History, IInv, TypeInv, WellPlaced, Dooming
<1>2. /\ instance' \in [Instances -> Instance]
      /\ \A j \in Instances : /\ instance'[j].open = instance[j].open
                              /\ instance'[j].removing = instance[j].removing
                              /\ instance'[j].config \in {instance[j].config, c}
  <2>1. instance \in [Instances -> Instance] /\ instance[i] \in Instance
    BY <1>1 DEF IInv, TypeInv, TypeOK
  <2>2. /\ [instance[i] EXCEPT !.config = c] \in Instance
        /\ [instance[i] EXCEPT !.config = c].open = instance[i].open
        /\ [instance[i] EXCEPT !.config = c].removing = instance[i].removing
        /\ [instance[i] EXCEPT !.config = c].config = c
    BY <1>1, <2>1 DEF Instance
  <2>3. instance' = instance \/ instance' = [instance EXCEPT ![i] = [instance[i] EXCEPT !.config = c]]
    BY DEF Assign, Exchanged
  <2> QED
    BY <1>1, <2>1, <2>2, <2>3
<1>3. \A r \in Requests : ~Serving(r) /\ ~Serving(r)'
  BY <1>1 DEF HasLock, Serving
<1>4. /\ op'[o] = Idle /\ Idle \in Operation /\ WellPlaced(Idle)
      /\ Idle.at = "idle" /\ Idle.built = NoInstance /\ Idle.found = NoInstance
      /\ \A q \in Operations : q # o => op'[q] = op[q]
  BY <1>1, OpTypes DEF Idle
<1> USE DEF IInv, TypeInv
<1>5. TypeInv'
  BY <1>1, <1>2, <1>3, <1>4 DEF TypeOK, WellPlaced, Holding, Dooming
<1>6. OneEach' /\ RegisteredServes' /\ OpenConfigured' /\ Pinned'
  BY <1>1, <1>2, <1>3
  DEF OneEach, RegisteredServes, OpenConfigured, Pinned, Registered, TypeOK
<1>7. BuildersOwn'
  <2> SUFFICES ASSUME NEW q \in Operations, op'[q].at \in Holding
               PROVE  LET j == op'[q].built IN
                      /\ instance'[j].open
                      /\ ~instance'[j].removing
                      /\ j # op'[q].found
                      /\ \A id \in Ids : registry'[id] # j
                      /\ \A r \in Operations \ {q} : j # op'[r].built /\ j # op'[r].found
    BY DEF BuildersOwn
  <2>1. q # o /\ op'[q] = op[q] /\ op[q].at \in Holding
    BY <1>4 DEF Holding
  <2>2. op[q].built \in Instances /\ op[q].built # NoInstance
    BY <2>1, AbsentAssumption DEF WellPlaced
  <2> QED
    BY <1>1, <1>2, <1>4, <2>1, <2>2 DEF BuildersOwn
<1>8. FoundApart'
  BY <1>1, <1>4 DEF FoundApart, Dooming
<1>9. PoolsAccounted'
  <2>1. \A id \in Ids : Registered(id)' => instance'[registry'[id]].open
    BY <1>6 DEF RegisteredServes
  <2>2. ASSUME NEW j \in Instances, instance'[j].open, \A id \in Ids : registry[id] # j,
               j \notin displaced
        PROVE  \E q \in Operations :
                 \/ op'[q].built = j /\ op'[q].at \in {"adding", "swapping", "discarding"}
                 \/ op'[q].found = j /\ op'[q].at \in {"draining", "retiring"}
    <3>1. PICK q \in Operations :
            \/ op[q].built = j /\ op[q].at \in {"adding", "swapping", "discarding"}
            \/ op[q].found = j /\ op[q].at \in {"draining", "retiring"}
      BY <1>2, <2>2 DEF PoolsAccounted
    <3> QED
      BY <1>1, <1>4, <3>1
  <2> QED
    BY <1>1, <2>1, <2>2 DEF PoolsAccounted
<1> QED
  BY <1>5, <1>6, <1>7, <1>8, <1>9

-----------------------------------------------------------------------------
(* Requests and the restart *)

\* A request that takes or releases the read lock keeps the invariant.
LEMMA RequestStep ==
  ASSUME IInv, NEW r \in Requests, Enter(r) \/ Answer(r)
  PROVE  IInv'
<1> USE DEF IInv, TypeInv
<1>1. UNCHANGED <<registry, instance, disk, op, writer, displaced, disturbed>>
  BY DEF Enter, Answer, Query, Describe, Leave, History
<1>2. /\ request' \in [Requests -> Request]
      /\ \A q \in Requests : q # r => request'[q] = request[q]
      /\ Serving(r)' => /\ request'[r].id \in Ids
                        /\ Registered(request'[r].id)
                        /\ request'[r].inst = registry[request'[r].id]
  <2>1. CASE Answer(r)
    BY <2>1 DEF Answer, Query, Describe, Leave, NoRequest, TypeOK, Request, Serving
  <2>2. CASE Enter(r)
    <3>1. PICK id \in Ids, place \in {"querying", "describing"} :
            /\ Registered(id)
            /\ request' = [request EXCEPT ![r] =
                             [at |-> place, id |-> id, inst |-> registry[id]]]
      BY <2>2 DEF Enter
    <3>2. [at |-> place, id |-> id, inst |-> registry[id]] \in Request
      BY DEF TypeOK, Request
    <3> QED
      BY <3>1, <3>2 DEF TypeOK
  <2> QED
    BY <2>1, <2>2
<1>3. TypeInv'
  BY <1>1, <1>2 DEF TypeOK, WellPlaced, Serving, Registered
<1>4. Pinned'
  BY <1>1, <1>2 DEF Pinned, Serving, RegisteredServes
<1> QED
  BY <1>1, <1>3, <1>4
  DEF OneEach, RegisteredServes, OpenConfigured, BuildersOwn, FoundApart, PoolsAccounted, Registered

\* A restart from any files, with any databases within reach, restores the invariant.
LEMMA RestartStep ==
  ASSUME IInv, Restart
  PROVE  IInv'
<1>1. PICK up \in SUBSET Databases, new \in [Ids -> Instances] :
        LET restored == {id \in Ids : disk[id].config # None /\ disk[id].config.database \in up}
        IN  /\ \A id, other \in restored : id # other => new[id] # new[other]
            /\ registry' = [id \in Ids |-> IF id \in restored THEN new[id] ELSE NoInstance]
            /\ instance' = [i \in Instances |->
                    IF \E id \in restored : new[id] = i
                    THEN LET id == CHOOSE id \in restored : new[id] = i
                         IN  Built(disk[id].config)
                    ELSE Blank]
            /\ op' = [o \in Operations |-> Idle]
            /\ request' = [r \in Requests |-> NoRequest]
            /\ writer' = NoOperation
            /\ displaced' = {}
            /\ disturbed' = {id \in Ids : disk[id].config # None} \ restored
            /\ UNCHANGED disk
  BY ZenonT(60) DEF Restart
<1> USE DEF IInv, TypeInv
<1> DEFINE restored == {id \in Ids : disk[id].config # None /\ disk[id].config.database \in up}
<1>2. /\ \A o \in Operations : op'[o] = Idle
      /\ \A r \in Requests : ~Serving(r)'
      /\ Idle \in Operation /\ Idle.at = "idle" /\ Idle.id = None
      /\ request' \in [Requests -> Request]
  BY <1>1 DEF Serving, NoRequest, Request, Idle, Operation, Kinds, Places, LockPlaces
<1>3. /\ \A id \in restored : registry'[id] = new[id] /\ new[id] \in Instances
      /\ \A id \in Ids \ restored : registry'[id] = NoInstance
      /\ registry' \in [Ids -> Instances \cup {NoInstance}]
  BY <1>1
<1>4. ASSUME NEW i \in Instances
      PROVE  \/ /\ instance'[i] = Blank
                /\ \A id \in restored : new[id] # i
             \/ \E id \in restored : new[id] = i /\ instance'[i] = Built(disk[id].config)
  <2>1. CASE \E id \in restored : new[id] = i
    <3> DEFINE t == CHOOSE id \in restored : new[id] = i
    <3>1. t \in restored /\ new[t] = i
      BY <2>1
    <3>2. instance'[i] = Built(disk[t].config)
      BY <1>1, <2>1
    <3> QED
      BY <3>1, <3>2
  <2>2. CASE ~\E id \in restored : new[id] = i
    BY <1>1, <2>2
  <2> QED
    BY <2>1, <2>2
<1>5. \A id \in restored : disk[id].config \in Config
  BY DEF TypeOK
<1>6. \A c \in Config : /\ Built(c) \in Instance
                        /\ Built(c).open /\ ~Built(c).removing /\ Built(c).config = c
  BY DEF Built, Instance
<1>7. Blank \in Instance /\ ~Blank.open
  BY DEF Blank, Instance
<1>8. instance' \in [Instances -> Instance]
  <2>1. \A i \in Instances : instance'[i] \in Instance
    BY <1>4, <1>5, <1>6, <1>7
  <2>2. instance' = [i \in Instances |-> instance'[i]]
    BY <1>1
  <2> QED
    BY <2>1, <2>2
<1>9. TypeInv'
  <2>1. op' \in [Operations -> Operation]
    BY <1>1, <1>2
  <2>2. disk' = disk /\ writer' = NoOperation /\ displaced' = {} /\ disturbed' \subseteq Ids
    BY <1>1
  <2> QED
    BY <1>2, <1>3, <1>8, <2>1, <2>2 DEF TypeOK, WellPlaced, Holding, Dooming
<1>10. OneEach'
  BY <1>1, <1>3 DEF OneEach, Registered
<1>11. RegisteredServes'
  BY <1>3, <1>4, <1>5, <1>6 DEF RegisteredServes, Registered
<1>12. OpenConfigured'
  BY <1>4, <1>5, <1>6, <1>7 DEF OpenConfigured
<1>13. BuildersOwn' /\ FoundApart'
  BY <1>2 DEF BuildersOwn, FoundApart, Holding, Dooming
<1>14. Pinned'
  BY <1>2 DEF Pinned
<1>15. PoolsAccounted'
  BY <1>3, <1>4, <1>7, <1>11 DEF PoolsAccounted, RegisteredServes
<1> QED
  BY <1>9, <1>10, <1>11, <1>12, <1>13, <1>14, <1>15

-----------------------------------------------------------------------------
(* The theorems *)

\* Every step of the store keeps the invariant.
LEMMA NextIInv == IInv /\ [Next]_vars => IInv'
<1> SUFFICES ASSUME IInv, [Next]_vars PROVE IInv'
  OBVIOUS
<1>1. ASSUME NEW r \in Requests, Enter(r) \/ Answer(r) PROVE IInv'
  BY <1>1, RequestStep
<1>2. ASSUME NEW o \in Operations, Reading(o) PROVE IInv'
  BY <1>2, ResolveStep, CheckStep, FindStep DEF Reading
<1>3. ASSUME NEW o \in Operations, Working(o) PROVE IInv'
  BY <1>3, BuildStep, AddStep, DiscardStep, SaveStep, DeregisterStep, DrainStep, EraseStep,
     IntrospectStep, LoadStep, RebuildStep, SwapStep, RetireStep, AssignStep DEF Working
<1>4. ASSUME NEW o \in Operations, BeginSome(o) \/ Announce(o) PROVE IInv'
  BY <1>4, BeginStep, AnnounceStep
<1>5. CASE UNCHANGED vars
  BY <1>5 DEF vars, IInv, TypeInv, TypeOK, WellPlaced, OneEach, RegisteredServes, OpenConfigured,
              BuildersOwn, FoundApart, Pinned, PoolsAccounted, Registered, Serving
<1> QED
  BY <1>1, <1>2, <1>3, <1>4, <1>5, RestartStep DEF Next

\* The invariant behind the others: an instance is registered for one tenant at most and
\* is then open, one that was built belongs to the operation that built it until it is
\* published, and one that is to be closed is not registered.
THEOREM Inductive == Spec => []IInv
<1> QED
  BY InitIInv, NextIInv, PTL DEF Spec

\* Every variable of the tenant store keeps to its type, and an operation has the
\* instances its place calls for: AddTenant, RemoveTenant and ReloadTenant never use a
\* tenant instance they have not got (tenant_lifecycle.go).
THEOREM TypeCorrect == Spec => []TypeOK
<1>1. IInv => TypeOK
  BY DEF IInv, TypeInv
<1> QED
  BY <1>1, Inductive, PTL

\* A tenant request that holds the read lock is served by the instance that is registered
\* for its tenant, with open pools and no removal under way (tenant.go, ServeHTTP).
THEOREM RequestsArePinned == Spec => []Pinned
<1>1. IInv => Pinned
  BY DEF IInv
<1> QED
  BY <1>1, Inductive, PTL

\* Every open pool is registered, or in the hands of an operation that is going to publish
\* or to close it, or was displaced by a reload that had looked up another instance
\* (tenant_lifecycle.go, closeTenantConns).
THEOREM NoPoolIsLost == Spec => []PoolsAccounted
<1>1. IInv => PoolsAccounted
  BY DEF IInv
<1> QED
  BY <1>1, Inductive, PTL

\* A step that closes an instance spares the one that serves a request.
LEMMA ClosingSpares ==
  ASSUME IInv, NEW o \in Operations, Discard(o) \/ Drain(o) \/ Retire(o),
         NEW r \in Requests, Serving(r)
  PROVE  instance'[request[r].inst] = instance[request[r].inst]
<1>1. PICK i \in Instances :
        /\ \/ op[o].at = "discarding" /\ i = op[o].built
           \/ op[o].at \in Dooming /\ i = op[o].found
        /\ instance' = Closed(i)
  BY DEF Discard, Drain, Retire, IInv, TypeInv, WellPlaced, Holding, Dooming
<1>2. \A id \in Ids : registry[id] # i
  BY <1>1 DEF IInv, BuildersOwn, FoundApart, Holding
<1>3. request[r].inst \in Instances /\ request[r].inst # i
  BY <1>2 DEF IInv, TypeInv, Pinned
<1> QED
  BY <1>1, <1>3 DEF IInv, TypeInv, TypeOK, Closed

\* A step that builds an instance takes none that serves a request.
LEMMA BuildingSpares ==
  ASSUME IInv, NEW o \in Operations, Build(o) \/ Rebuild(o),
         NEW r \in Requests, Serving(r)
  PROVE  instance'[request[r].inst] = instance[request[r].inst]
<1>1. CASE UNCHANGED instance
  BY <1>1
<1>2. ASSUME NEW i \in Instances, Unused(i),
             instance' = [instance EXCEPT ![i] = Built(op[o].config)]
      PROVE  instance'[request[r].inst] = instance[request[r].inst]
  <2>1. request[r].inst \in Instances /\ request[r].inst # i
    BY <1>2 DEF IInv, TypeInv, Pinned, Unused
  <2> QED
    BY <1>2, <2>1 DEF IInv, TypeInv, TypeOK
<1> QED
  BY <1>1, <1>2 DEF Build, Rebuild

\* The router of a tenant is never exchanged, nor its pools closed, under a request it
\* serves: ReloadTenant assigns Config and Router under the write lock only, and what is
\* closed or built outside of it serves nobody (tenant_lifecycle.go).
THEOREM RouterIsKept == Spec => RouterKept
<1> DEFINE Keeps == \A r \in Requests :
                      Serving(r) /\ request'[r] = request[r] =>
                          instance'[request[r].inst].config = instance[request[r].inst].config
<1>1. IInv /\ [Next]_vars => [Keeps]_vars
  <2> SUFFICES ASSUME IInv, Next, NEW r \in Requests, Serving(r), request'[r] = request[r]
               PROVE  instance'[request[r].inst].config = instance[request[r].inst].config
    OBVIOUS
  <2>1. CASE UNCHANGED instance
    BY <2>1
  <2>2. ASSUME NEW o \in Operations, Discard(o) \/ Drain(o) \/ Retire(o) \/ Build(o) \/ Rebuild(o)
        PROVE  instance'[request[r].inst].config = instance[request[r].inst].config
    BY <2>2, ClosingSpares, BuildingSpares
  <2>3. ASSUME NEW o \in Operations, Deregister(o) \/ Assign(o) PROVE FALSE
    BY <2>3 DEF Deregister, Assign, HasLock
  <2>4. CASE Restart
    <3>1. request'[r].at = "idle"
      BY <2>4 DEF Restart, NoRequest
    <3> QED
      BY <3>1 DEF Serving
  <2>5. ASSUME NEW q \in Requests, Enter(q) \/ Answer(q) PROVE UNCHANGED instance
    BY <2>5 DEF Enter, Answer, Query, Describe, Leave
  <2>6. ASSUME NEW o \in Operations, BeginSome(o) \/ Reading(o) \/ Announce(o)
        PROVE  UNCHANGED instance
    BY <2>6 DEF BeginSome, Begin, Reading, Resolve, Check, Find, Announce
  <2>7. ASSUME NEW o \in Operations,
               Add(o) \/ Save(o) \/ Erase(o) \/ Introspect(o) \/ Load(o) \/ Swap(o)
        PROVE  UNCHANGED instance
    BY <2>7 DEF Add, Save, Erase, Introspect, Load, Swap
  <2> QED
    BY <2>1, <2>2, <2>3, <2>4, <2>5, <2>6, <2>7 DEF Next, Working
<1>2. Spec => [][Keeps]_vars
  BY <1>1, Inductive, PTL DEF Spec
<1> QED
  BY <1>2 DEF RouterKept

-----------------------------------------------------------------------------
(* What runs and what is saved *)

\* What a restart would restore is what runs for the tenant.
Agreed(id) ==
    disk[id].config = IF Registered(id) THEN instance[registry[id]].config ELSE None

\* How far an operation, alone with its tenant, has brought the two apart.
PlaceAgrees(n) ==
    /\ n.at # "discarding"
    /\ n.at \in {"checking", "resolving", "introspecting", "removing", "building", "adding",
                 "retiring"} => Agreed(n.id)
    /\ n.at \in {"building", "adding", "draining", "erasing"} => ~Registered(n.id)
    /\ n.at \in {"introspecting", "saving", "loading", "finding", "rebuilding", "swapping",
                 "assigning"} => Registered(n.id)
    /\ n.at = "adding" => instance[n.built].config = n.config
    /\ n.at = "saving" /\ n.kind = "add" => instance[registry[n.id]].config = n.config
    /\ n.at \in {"finding", "rebuilding", "assigning"} => disk[n.id].config = n.config
    /\ n.at = "swapping" => disk[n.id].config = instance[n.built].config
    /\ n.at = "assigning" => n.found = registry[n.id]

\* A tenant whose operations followed one another has one at most, and agrees unless
\* that is under way.
Undisturbed(id) ==
    /\ \A o, q \in Operations : op[o].id = id /\ op[q].id = id => o = q
    /\ ~Busy(id) => Agreed(id)
    /\ \A o \in Operations : op[o].id = id => PlaceAgrees(op[o])

SavedInv ==
    /\ \A id \in Ids : id \notin disturbed => Undisturbed(id)
    \* What is to be assigned to serves no other tenant by now.
    /\ \A o \in Operations, id \in Ids :
          op[o].at = "assigning" /\ registry[id] = op[o].found => id = op[o].id

\* The operation o on the tenant x goes on as n, or ends, and leaves the other tenants
\* and what other operations built as they are.
LEMMA OneTenant ==
  ASSUME IInv, IInv', SavedInv, NEW o \in Operations, NEW x \in Ids, NEW n,
         op' = [op EXCEPT ![o] = n], op[o].id \in {x, None}, n.id \in {x, None},
         disturbed \subseteq disturbed',
         \A id \in Ids \ {x} :
            /\ registry'[id] = registry[id]
            /\ disk'[id].config = disk[id].config
            /\ Registered(id) => instance'[registry[id]].config = instance[registry[id]].config,
         \A q \in Operations \ {o} : op[q].at \in {"adding", "swapping"} =>
            instance'[op[q].built].config = instance[op[q].built].config,
         \A q \in Operations \ {o} : op[q].at = "assigning" /\ registry'[x] = op[q].found =>
            registry[x] = op[q].found,
         n.at = "assigning" => \E id \in Ids : registry[id] = n.found /\ id = n.id,
         n.at = "assigning" => UNCHANGED registry,
         x \notin disturbed' =>
            /\ \A q \in Operations \ {o} : op[q].id # x
            /\ n.id = None => Agreed(x)'
            /\ n.id = x => PlaceAgrees(n)'
  PROVE  SavedInv'
<1>1. /\ op \in [Operations -> Operation] /\ op'[o] = n
      /\ \A q \in Operations \ {o} : op'[q] = op[q]
      /\ x # None
  BY AbsentAssumption DEF IInv, TypeInv, TypeOK
<1>2. ASSUME NEW id \in Ids, id \notin disturbed', id # x
      PROVE  Undisturbed(id)'
  <2>1. Undisturbed(id) /\ id # None
    BY <1>2, AbsentAssumption DEF SavedInv
  <2>2. op[o].id # id /\ op'[o].id # id
    BY <1>1, <1>2, <2>1
  <2>3. \A q \in Operations : op'[q].id = id <=> op[q].id = id
    BY <1>1, <2>2
  <2>4. /\ registry'[id] = registry[id] /\ disk'[id].config = disk[id].config
        /\ Registered(id) => instance'[registry[id]].config = instance[registry[id]].config
    BY <1>2
  <2>5. Agreed(id) => Agreed(id)'
    BY <2>4 DEF Agreed, Registered
  <2>6. ASSUME NEW q \in Operations, op[q].id = id
        PROVE  PlaceAgrees(op[q])'
    <3>1. q # o /\ op'[q] = op[q] /\ PlaceAgrees(op[q])
      BY <1>1, <2>1, <2>2, <2>6 DEF Undisturbed
    <3>2. op[q].at \in {"adding", "swapping"} =>
             instance'[op[q].built].config = instance[op[q].built].config
      BY <3>1
    <3>3. QED
      BY <2>4, <2>5, <2>6, <3>1, <3>2 DEF PlaceAgrees, Registered, Agreed
  <2>7. \A q \in Operations : op'[q].id = id => PlaceAgrees(op[q])' /\ op'[q] = op[q]
    BY <1>1, <2>2, <2>3, <2>6
  <2>8. Busy(id)' <=> Busy(id)
    BY <2>3 DEF Busy
  <2>9. QED
    BY <2>1, <2>3, <2>5, <2>7, <2>8 DEF Undisturbed
<1>3. ASSUME x \notin disturbed'
      PROVE  Undisturbed(x)'
  <2>1. \A q \in Operations : op'[q].id = x => q = o /\ n.id = x
    BY <1>1, <1>3
  <2>2. n.id = x => Busy(x)'
    BY <1>1 DEF Busy
  <2>3. ~Busy(x)' => Agreed(x)'
    BY <1>1, <1>3, <2>2
  <2>4. \A q \in Operations : op'[q].id = x => PlaceAgrees(op[q])'
    BY <1>1, <1>3, <2>1 DEF PlaceAgrees
  <2>5. QED
    BY <2>1, <2>3, <2>4 DEF Undisturbed
<1>4. ASSUME NEW q \in Operations, NEW id \in Ids,
             op'[q].at = "assigning", registry'[id] = op'[q].found
      PROVE  id = op'[q].id
  <2>1. CASE q # o
    <3>1. op'[q] = op[q] /\ (registry'[id] = op[q].found => registry[id] = op[q].found)
      BY <1>1, <1>4, <2>1
    <3>2. QED
      BY <1>4, <3>1 DEF SavedInv
  <2>2. CASE q = o
    <3>1. PICK y \in Ids : registry[y] = n.found /\ y = n.id
      BY <1>1, <1>4, <2>2
    <3>2. registry[id] = registry[y] /\ n.found \in Instances
      BY <1>1, <1>4, <2>2, <3>1 DEF IInv, TypeInv, WellPlaced
    <3>3. Registered(id)
      BY <3>1, <3>2, AbsentAssumption DEF Registered
    <3>4. QED
      BY <1>1, <2>2, <3>1, <3>2, <3>3 DEF IInv, OneEach
  <2>3. QED
    BY <2>1, <2>2
<1>5. QED
  BY <1>2, <1>3, <1>4 DEF SavedInv

\* The same for a step that writes neither the registry nor an instance.
LEMMA AsideSaved ==
  ASSUME IInv, IInv', SavedInv, NEW o \in Operations, NEW x \in Ids, op[o].id = x, NEW n,
         op' = [op EXCEPT ![o] = n], n.id \in {x, None},
         UNCHANGED <<registry, instance>>, disturbed \subseteq disturbed',
         \A id \in Ids \ {x} : disk'[id].config = disk[id].config,
         n.at = "assigning" => registry[x] = n.found /\ n.id = x,
         x \notin disturbed' /\ PlaceAgrees(op[o]) =>
            /\ n.id = None => Agreed(x)'
            /\ n.id = x => PlaceAgrees(n)'
  PROVE  SavedInv'
<1>1. x \notin disturbed' => PlaceAgrees(op[o]) /\ \A q \in Operations \ {o} : op[q].id # x
  BY DEF SavedInv, Undisturbed
<1>2. QED
  BY ZenonT(60), <1>1, OneTenant

\* What a step of an operation at work knows of it.
LEMMA AtWork ==
  ASSUME IInv, NEW o \in Operations, op[o].at # "idle"
  PROVE  /\ op[o] \in Operation /\ op[o].id \in Ids
         /\ \E x \in Ids : x = op[o].id
         /\ Idle.id = None /\ Idle.at = "idle"
BY DEF IInv, TypeInv, TypeOK, WellPlaced, Idle

\* An operation that leaves its tenant as it was, or that saved what runs, ends.
LEMMA EndSaved ==
  ASSUME IInv, IInv', SavedInv, NEW o \in Operations, NEW x \in Ids, op[o].id = x, End(o),
         UNCHANGED <<registry, instance>>, disturbed \subseteq disturbed',
         \A id \in Ids \ {x} : disk'[id].config = disk[id].config,
         x \notin disturbed' /\ PlaceAgrees(op[o]) => Agreed(x)'
  PROVE  SavedInv'
<1>1. Idle.id = None /\ Idle.at = "idle" /\ x # None
  BY AbsentAssumption DEF Idle
<1>2. op' = [op EXCEPT ![o] = Idle]
  BY DEF End
<1> HIDE DEF Idle
<1>3. QED
  BY <1>1, <1>2, AsideSaved

\* Agreement is a matter of the registry, the instances and the files.
LEMMA AgreesOn ==
  ASSUME NEW x, UNCHANGED <<registry, instance>>, disk'[x].config = disk[x].config, Agreed(x)
  PROVE  Agreed(x)'
BY DEF Agreed, Registered

LEMMA ResolveSaved ==
  ASSUME IInv, IInv', SavedInv, NEW o \in Operations, Resolve(o) PROVE SavedInv'
<1>1. PICK x \in Ids : x = op[o].id
  BY AtWork DEF Resolve
<1>2. op[o].at = "resolving" /\ UNCHANGED <<registry, instance, disk, disturbed>>
  BY DEF Resolve, History
<1>3. PlaceAgrees(op[o]) => Agreed(x) /\ Agreed(x)'
  BY <1>1, <1>2, AgreesOn DEF PlaceAgrees
<1>4. CASE End(o)
  BY <1>1, <1>2, <1>3, <1>4, EndSaved
<1>5. ASSUME registry[x] # NoInstance,
             NEW n, op' = [op EXCEPT ![o] = n], n.id = x,
             n.at \in {"saving", "loading", "introspecting"}, n.kind # "add"
      PROVE  SavedInv'
  <2>1. Registered(x)
    BY <1>5 DEF Registered
  <2>2. PlaceAgrees(op[o]) => PlaceAgrees(n)'
    BY <1>2, <1>3, <1>5, <2>1 DEF PlaceAgrees, Registered
  <2>3. QED
    BY <1>1, <1>2, <1>5, <2>2, AbsentAssumption, AsideSaved
<1>6. CASE ~End(o)
  <2>1. PICK n :
          /\ registry[x] # NoInstance
          /\ op' = [op EXCEPT ![o] = n]
          /\ n = [op[o] EXCEPT
                    !.found = registry[x],
                    !.config = IF op[o].kind \in {"rewrite", "discover"}
                               THEN Generated(instance[registry[x]].config) ELSE @,
                    !.at = CASE op[o].kind = "update" -> "saving"
                             [] op[o].kind = "reload" -> "loading"
                             [] OTHER -> "introspecting"]
    BY ZenonT(60), <1>1, <1>2, <1>6, AtWork DEF Resolve, IInv, TypeInv, TypeOK
  <2>2. op[o] \in Operation /\ op[o].kind \in {"update", "rewrite", "discover", "reload"}
    BY <1>2, AtWork DEF IInv, TypeInv, WellPlaced
  <2>3. n.id = x /\ n.kind = op[o].kind /\ n.at \in {"saving", "loading", "introspecting"}
    BY <1>1, <2>1, <2>2 DEF Operation
  <2>4. QED
    BY <1>5, <2>1, <2>2, <2>3
<1>7. QED
  BY <1>4, <1>6

LEMMA CheckSaved ==
  ASSUME IInv, IInv', SavedInv, NEW o \in Operations, Check(o) PROVE SavedInv'
<1>1. PICK x \in Ids : x = op[o].id
  BY AtWork DEF Check
<1>2. op[o].at = "checking" /\ UNCHANGED <<registry, instance, disk, disturbed>>
  BY DEF Check, History
<1>3. PlaceAgrees(op[o]) => Agreed(x) /\ Agreed(x)'
  BY <1>1, <1>2, AgreesOn DEF PlaceAgrees
<1>4. CASE Registered(x)
  BY <1>1, <1>2, <1>3, <1>4, EndSaved DEF Check
<1>5. CASE ~Registered(x)
  <2>1. PICK n : n = [op[o] EXCEPT !.at = "building"] /\ op' = [op EXCEPT ![o] = n]
    BY <1>1, <1>5 DEF Check, Goto, IInv, TypeInv, TypeOK
  <2>2. n.id = x /\ n.at = "building"
    BY <1>1, <1>2, <2>1, AtWork DEF Operation
  <2>3. PlaceAgrees(op[o]) => PlaceAgrees(n)'
    BY <1>2, <1>3, <1>5, <2>2 DEF PlaceAgrees, Registered
  <2>4. QED
    BY <1>1, <1>2, <2>1, <2>2, <2>3, AbsentAssumption, AsideSaved
<1>6. QED
  BY <1>4, <1>5

\* Nobody else holds what an operation has built, or is about to close.
LEMMA HeldAlone ==
  ASSUME IInv, NEW o \in Operations
  PROVE  /\ op[o].at \in Holding => \A id \in Ids : registry[id] # op[o].built
         /\ op[o].at \in Dooming => \A id \in Ids : registry[id] # op[o].found
         /\ \A q \in Operations \ {o} : op[q].at \in {"adding", "swapping"} =>
              /\ op[q].built \in Instances
              /\ op[q].built # op[o].found
              /\ op[o].at \in Holding => op[q].built # op[o].built
BY DEF IInv, TypeInv, WellPlaced, BuildersOwn, FoundApart, Holding

\* A step that makes of the instance i what it likes, when nobody else knows it.
LEMMA OneInstance ==
  ASSUME IInv, NEW o \in Operations, NEW i \in Instances,
         \A j \in Instances \ {i} : instance'[j].config = instance[j].config,
         \A id \in Ids : registry[id] # i,
         \A q \in Operations \ {o} : op[q].at \in {"adding", "swapping"} => op[q].built # i
  PROVE  /\ \A id \in Ids :
              Registered(id) => instance'[registry[id]].config = instance[registry[id]].config
         /\ \A q \in Operations \ {o} : op[q].at \in {"adding", "swapping"} =>
              instance'[op[q].built].config = instance[op[q].built].config
<1>1. \A id \in Ids : Registered(id) => registry[id] \in Instances
  BY DEF IInv, TypeInv, TypeOK, Registered
<1>2. \A q \in Operations \ {o} : op[q].at \in {"adding", "swapping"} => op[q].built \in Instances
  BY HeldAlone
<1>3. QED
  BY <1>1, <1>2

LEMMA BuildSaved ==
  ASSUME IInv, IInv', SavedInv, NEW o \in Operations, Build(o) PROVE SavedInv'
<1>1. PICK x \in Ids : x = op[o].id
  BY AtWork DEF Build
<1>2. op[o].at = "building" /\ UNCHANGED <<registry, disk, disturbed>>
  BY DEF Build, History
<1>3. CASE End(o) /\ UNCHANGED instance
  <2>1. PlaceAgrees(op[o]) => Agreed(x)'
    BY <1>1, <1>2, <1>3, AgreesOn DEF PlaceAgrees
  <2>2. QED
    BY <1>1, <1>2, <1>3, <2>1, EndSaved
<1>4. ASSUME NEW i \in Instances, Unused(i),
             instance' = [instance EXCEPT ![i] = Built(op[o].config)],
             op' = [op EXCEPT ![o].built = i, ![o].at = "adding"]
      PROVE  SavedInv'
  <2>1. PICK n : n = [op[o] EXCEPT !.built = i, !.at = "adding"] /\ op' = [op EXCEPT ![o] = n]
    BY ZenonT(60), <1>4 DEF IInv, TypeInv, TypeOK
  <2>2. n.id = x /\ n.at = "adding" /\ n.built = i /\ n.config = op[o].config
    BY <1>1, <1>2, <2>1, AtWork DEF Operation
  <2>3. /\ \A id \in Ids :
             Registered(id) => instance'[registry[id]].config = instance[registry[id]].config
        /\ \A q \in Operations \ {o} : op[q].at \in {"adding", "swapping"} =>
             instance'[op[q].built].config = instance[op[q].built].config
    BY <1>4, OneInstance DEF Unused
  <2>4. PlaceAgrees(op[o]) => Agreed(x)' /\ ~Registered(x)
    BY <1>1, <1>2, <2>3 DEF PlaceAgrees, Agreed, Registered
  <2>5. instance'[i].config = op[o].config
    BY <1>4 DEF IInv, TypeInv, TypeOK, Built
  <2>6. PlaceAgrees(op[o]) => PlaceAgrees(n)'
    BY <1>2, <2>2, <2>4, <2>5 DEF PlaceAgrees, Registered
  <2>7. x \notin disturbed' => PlaceAgrees(op[o]) /\ \A q \in Operations \ {o} : op[q].id # x
    BY <1>1, <1>2 DEF SavedInv, Undisturbed
  <2>8. QED
    BY ZenonT(60), <1>1, <1>2, <2>1, <2>2, <2>3, <2>6, <2>7, AbsentAssumption, OneTenant
<1>5. QED
  BY <1>3, <1>4 DEF Build

LEMMA RebuildSaved ==
  ASSUME IInv, IInv', SavedInv, NEW o \in Operations, Rebuild(o) PROVE SavedInv'
<1>1. PICK x \in Ids : x = op[o].id
  BY AtWork DEF Rebuild
<1>2. op[o].at = "rebuilding" /\ UNCHANGED <<registry, disk>>
  BY DEF Rebuild
<1>3. CASE Fail(o) /\ UNCHANGED instance
  <2>1. x \in disturbed' /\ disturbed \subseteq disturbed' /\ End(o)
    BY <1>1, <1>3 DEF Fail
  <2>2. QED
    BY <1>1, <1>2, <1>3, <2>1, EndSaved
<1>4. ASSUME NEW i \in Instances, Unused(i),
             instance' = [instance EXCEPT ![i] = Built(op[o].config)],
             Keep(o, "swapping", op[o].found, i), UNCHANGED disturbed
      PROVE  SavedInv'
  <2>1. PICK n : /\ n = [Idle EXCEPT !.kind = op[o].kind, !.id = op[o].id, !.at = "swapping",
                                     !.found = op[o].found, !.built = i]
                 /\ op' = [op EXCEPT ![o] = n]
    BY <1>4 DEF Keep
  <2>2. n.id = x /\ n.at = "swapping" /\ n.built = i
    BY <1>1, <2>1 DEF Idle
  <2>3. /\ \A id \in Ids :
             Registered(id) => instance'[registry[id]].config = instance[registry[id]].config
        /\ \A q \in Operations \ {o} : op[q].at \in {"adding", "swapping"} =>
             instance'[op[q].built].config = instance[op[q].built].config
    BY <1>4, OneInstance DEF Unused
  <2>4. instance'[i].config = op[o].config
    BY <1>4 DEF IInv, TypeInv, TypeOK, Built
  <2>5. PlaceAgrees(op[o]) => PlaceAgrees(n)'
    BY <1>1, <1>2, <2>2, <2>4 DEF PlaceAgrees, Registered
  <2>6. x \notin disturbed' => PlaceAgrees(op[o]) /\ \A q \in Operations \ {o} : op[q].id # x
    BY <1>1, <1>4 DEF SavedInv, Undisturbed
  <2>7. /\ op[o].id \in {x, None} /\ n.id \in {x, None} /\ n.at # "assigning"
         /\ op' = [op EXCEPT ![o] = n] /\ disturbed \subseteq disturbed'
    BY <1>1, <1>4, <2>1, <2>2
  <2>8. \A id \in Ids \ {x} :
           /\ registry'[id] = registry[id]
           /\ disk'[id].config = disk[id].config
           /\ Registered(id) => instance'[registry[id]].config = instance[registry[id]].config
    BY <1>2, <2>3
  <2>9. x \notin disturbed' =>
           /\ \A q \in Operations \ {o} : op[q].id # x
           /\ n.id = None => Agreed(x)'
           /\ n.id = x => PlaceAgrees(n)'
    BY <2>2, <2>5, <2>6, AbsentAssumption
  <2>10. \A q \in Operations \ {o} : op[q].at \in {"adding", "swapping"} =>
            instance'[op[q].built].config = instance[op[q].built].config
    BY <2>3
  <2>11. \A q \in Operations \ {o} : op[q].at = "assigning" /\ registry'[x] = op[q].found =>
            registry[x] = op[q].found
    BY <1>2
  <2>12. QED
    BY ZenonT(60), <2>7, <2>8, <2>9, <2>10, <2>11, OneTenant
<1>5. QED
  BY <1>3, <1>4 DEF Rebuild

\* A step that closes what nobody has registered.
LEMMA ClosingSaved ==
  ASSUME IInv, IInv', SavedInv, NEW o \in Operations, NEW x \in Ids, x = op[o].id,
         NEW i \in Instances, instance' = Closed(i), \A id \in Ids : registry[id] # i,
         \A q \in Operations \ {o} : op[q].at \in {"adding", "swapping"} => op[q].built # i,
         NEW n, op' = [op EXCEPT ![o] = n], n.id \in {x, None}, n.at \notin {"assigning"},
         UNCHANGED <<registry, disk, disturbed>>,
         PlaceAgrees(op[o]) =>
            /\ n.id = None => Agreed(x)
            /\ n.id = x => PlaceAgrees(n)'
  PROVE  SavedInv'
<1>1. \A j \in Instances \ {i} : instance'[j].config = instance[j].config
  BY DEF Closed, IInv, TypeInv, TypeOK
<1>2. /\ \A id \in Ids :
           Registered(id) => instance'[registry[id]].config = instance[registry[id]].config
      /\ \A q \in Operations \ {o} : op[q].at \in {"adding", "swapping"} =>
           instance'[op[q].built].config = instance[op[q].built].config
  BY <1>1, OneInstance
<1>3. Agreed(x) => Agreed(x)'
  BY <1>2 DEF Agreed, Registered
<1>4. x \notin disturbed' => PlaceAgrees(op[o]) /\ \A q \in Operations \ {o} : op[q].id # x
  BY DEF SavedInv, Undisturbed
<1>5. QED
  BY <1>2, <1>3, <1>4, OneTenant

LEMMA DiscardSaved ==
  ASSUME IInv, IInv', SavedInv, NEW o \in Operations, Discard(o) PROVE SavedInv'
<1>1. PICK x \in Ids : x = op[o].id
  BY AtWork DEF Discard
<1>2. PICK i \in Instances : i = op[o].built
  BY DEF Discard, IInv, TypeInv, WellPlaced, Holding
<1>3. PICK n : n = Idle /\ op' = [op EXCEPT ![o] = n]
  BY DEF Discard, End
<1>4. op[o].at = "discarding" /\ op[o].at \in Holding
  BY DEF Discard, Holding
<1>5. /\ \A id \in Ids : registry[id] # i
      /\ \A q \in Operations \ {o} : op[q].at \in {"adding", "swapping"} => op[q].built # i
  BY <1>2, <1>4, HeldAlone
<1>6. n.id = None /\ n.at = "idle" /\ x # None
  BY <1>3, AbsentAssumption DEF Idle
<1>7. ~PlaceAgrees(op[o])
  BY <1>4 DEF PlaceAgrees
<1>8. instance' = Closed(i) /\ UNCHANGED <<registry, disk, disturbed>>
  BY <1>2 DEF Discard, History
<1>9. QED
  BY <1>1, <1>3, <1>5, <1>6, <1>7, <1>8, ClosingSaved

LEMMA DrainSaved ==
  ASSUME IInv, IInv', SavedInv, NEW o \in Operations, Drain(o) PROVE SavedInv'
<1>1. PICK x \in Ids : x = op[o].id
  BY AtWork DEF Drain
<1>2. PICK i \in Instances : i = op[o].found
  BY DEF Drain, IInv, TypeInv, WellPlaced, Dooming
<1>3. PICK n : /\ n = [Idle EXCEPT !.kind = op[o].kind, !.id = op[o].id, !.at = "erasing",
                                   !.found = NoInstance, !.built = NoInstance]
               /\ op' = [op EXCEPT ![o] = n]
  BY DEF Drain, Keep
<1>4. op[o].at = "draining" /\ op[o].at \in Dooming
  BY DEF Drain, Dooming
<1>5. /\ \A id \in Ids : registry[id] # i
      /\ \A q \in Operations \ {o} : op[q].at \in {"adding", "swapping"} => op[q].built # i
  BY <1>2, <1>4, HeldAlone
<1>6. n.id = x /\ n.at = "erasing" /\ x # None
  BY <1>1, <1>3, AbsentAssumption DEF Idle
<1>7. instance' = Closed(i) /\ UNCHANGED <<registry, disk, disturbed>>
  BY <1>2 DEF Drain, History
<1>8. PlaceAgrees(op[o]) => PlaceAgrees(n)'
  BY <1>1, <1>4, <1>6, <1>7 DEF PlaceAgrees, Registered
<1>9. QED
  BY <1>1, <1>3, <1>5, <1>6, <1>7, <1>8, ClosingSaved

LEMMA RetireSaved ==
  ASSUME IInv, IInv', SavedInv, NEW o \in Operations, Retire(o) PROVE SavedInv'
<1>1. PICK x \in Ids : x = op[o].id
  BY AtWork DEF Retire
<1>2. PICK i \in Instances : i = op[o].found
  BY DEF Retire, IInv, TypeInv, WellPlaced, Dooming
<1>3. PICK n : n = Idle /\ op' = [op EXCEPT ![o] = n]
  BY DEF Retire, End
<1>4. op[o].at = "retiring" /\ op[o].at \in Dooming
  BY DEF Retire, Dooming
<1>5. /\ \A id \in Ids : registry[id] # i
      /\ \A q \in Operations \ {o} : op[q].at \in {"adding", "swapping"} => op[q].built # i
  BY <1>2, <1>4, HeldAlone
<1>6. n.id = None /\ n.at = "idle" /\ x # None
  BY <1>3, AbsentAssumption DEF Idle
<1>7. PlaceAgrees(op[o]) => Agreed(x)
  BY <1>1, <1>4 DEF PlaceAgrees
<1>8. instance' = Closed(i) /\ UNCHANGED <<registry, disk, disturbed>>
  BY <1>2 DEF Retire
<1>9. QED
  BY <1>1, <1>3, <1>5, <1>6, <1>7, <1>8, ClosingSaved

LEMMA AddSaved ==
  ASSUME IInv, IInv', SavedInv, NEW o \in Operations, Add(o) PROVE SavedInv'
<1>1. PICK x \in Ids : x = op[o].id
  BY AtWork DEF Add
<1>2. op[o].at = "adding" /\ UNCHANGED <<instance, disk, disturbed>>
  BY DEF Add, History
<1>3. x \notin disturbed' => PlaceAgrees(op[o]) /\ \A q \in Operations \ {o} : op[q].id # x
  BY <1>1, <1>2 DEF SavedInv, Undisturbed
<1>4. CASE Registered(x)
  <2>1. PICK n : /\ n = [Idle EXCEPT !.kind = op[o].kind, !.id = op[o].id, !.at = "discarding",
                                     !.found = NoInstance, !.built = op[o].built]
                 /\ op' = [op EXCEPT ![o] = n]
    BY <1>1, <1>4 DEF Add, Keep
  <2>2. n.id = x /\ n.at = "discarding" /\ UNCHANGED registry
    BY <1>1, <1>4, <2>1 DEF Idle, Add
  <2>3. ~PlaceAgrees(op[o])
    BY <1>1, <1>2, <1>4 DEF PlaceAgrees
  <2>4. QED
    BY <1>1, <1>2, <2>1, <2>2, <2>3, AsideSaved
<1>5. CASE ~Registered(x)
  <2>1. PICK n : n = [op[o] EXCEPT !.at = "saving"] /\ op' = [op EXCEPT ![o] = n]
    BY <1>1, <1>5 DEF Add, Goto, IInv, TypeInv, TypeOK
  <2>2. n.id = x /\ n.at = "saving" /\ n.config = op[o].config /\ n.id # None
    BY <1>1, <2>1, AtWork, <1>2, AbsentAssumption DEF Operation
  <2>3. registry' = [registry EXCEPT ![x] = op[o].built]
    BY <1>1, <1>5 DEF Add
  <2>4. /\ registry'[x] = op[o].built /\ op[o].built \in Instances
        /\ \A id \in Ids \ {x} : registry'[id] = registry[id]
    BY <1>2, <2>3 DEF IInv, TypeInv, TypeOK, WellPlaced, Holding
  <2>5. PlaceAgrees(op[o]) => PlaceAgrees(n)'
    BY <1>2, <2>2, <2>4, AbsentAssumption DEF PlaceAgrees, Registered
  <2>6. \A q \in Operations \ {o} : op[q].at = "assigning" => registry'[x] # op[q].found
    BY <1>2, <2>4 DEF IInv, BuildersOwn, Holding
  <2>7. /\ op[o].id \in {x, None} /\ n.id \in {x, None} /\ n.at # "assigning"
         /\ op' = [op EXCEPT ![o] = n] /\ disturbed \subseteq disturbed'
    BY <1>1, <1>2, <2>1, <2>2
  <2>8. \A id \in Ids \ {x} :
           /\ registry'[id] = registry[id]
           /\ disk'[id].config = disk[id].config
           /\ Registered(id) => instance'[registry[id]].config = instance[registry[id]].config
    BY <1>2, <2>4
  <2>9. x \notin disturbed' =>
           /\ \A q \in Operations \ {o} : op[q].id # x
           /\ n.id = None => Agreed(x)'
           /\ n.id = x => PlaceAgrees(n)'
    BY <1>3, <2>2, <2>5, AbsentAssumption
  <2>10. \A q \in Operations \ {o} : op[q].at \in {"adding", "swapping"} =>
            instance'[op[q].built].config = instance[op[q].built].config
    BY <1>2
  <2>11. \A q \in Operations \ {o} : op[q].at = "assigning" /\ registry'[x] = op[q].found =>
            registry[x] = op[q].found
    BY <2>6
  <2>12. QED
    BY ZenonT(60), <2>7, <2>8, <2>9, <2>10, <2>11, OneTenant
<1>6. QED
  BY <1>4, <1>5

LEMMA SaveSaved ==
  ASSUME IInv, IInv', SavedInv, NEW o \in Operations, Save(o) PROVE SavedInv'
<1>1. PICK x \in Ids : x = op[o].id
  BY AtWork DEF Save
<1>2. op[o].at = "saving" /\ UNCHANGED <<registry, instance>>
  BY DEF Save
<1>3. disturbed \subseteq disturbed' /\ \A id \in Ids \ {x} : disk'[id].config = disk[id].config
  BY <1>1 DEF Save, IInv, TypeInv, TypeOK
<1>4. PlaceAgrees(op[o]) => Registered(x)
  BY <1>1, <1>2 DEF PlaceAgrees
<1>5. CASE Goto(o, "loading")
  <2>1. PICK n : n = [op[o] EXCEPT !.at = "loading"] /\ op' = [op EXCEPT ![o] = n]
    BY <1>5 DEF Goto, IInv, TypeInv, TypeOK
  <2>2. n.id = x /\ n.at = "loading" /\ x # None
    BY <1>1, <1>2, <2>1, AtWork, AbsentAssumption DEF Operation
  <2>3. PlaceAgrees(op[o]) => PlaceAgrees(n)'
    BY <1>2, <1>4, <2>2 DEF PlaceAgrees, Registered
  <2>4. QED
    BY <1>1, <1>2, <1>3, <2>1, <2>2, <2>3, AsideSaved
<1>6. CASE End(o) /\ op[o].kind = "add" /\ disk' = [disk EXCEPT ![x].config = op[o].config]
  <2>1. disk'[x].config = op[o].config
    BY <1>6 DEF IInv, TypeInv, TypeOK
  <2>2. PlaceAgrees(op[o]) => Agreed(x)'
    BY <1>1, <1>2, <1>4, <1>6, <2>1 DEF PlaceAgrees, Agreed, Registered
  <2>3. QED
    BY <1>1, <1>2, <1>3, <1>6, <2>2, EndSaved
<1>7. CASE End(o) /\ disturbed' = disturbed \cup {x}
  BY <1>1, <1>2, <1>3, <1>7, EndSaved
<1>8. QED
  BY <1>1, <1>5, <1>6, <1>7 DEF Save

LEMMA DeregisterSaved ==
  ASSUME IInv, IInv', SavedInv, NEW o \in Operations, Deregister(o) PROVE SavedInv'
<1>1. PICK x \in Ids : x = op[o].id
  BY AtWork DEF Deregister
<1>2. op[o].at = "removing" /\ UNCHANGED <<disk, disturbed>>
  BY DEF Deregister, History
<1>3. x \notin disturbed' => PlaceAgrees(op[o]) /\ \A q \in Operations \ {o} : op[q].id # x
  BY <1>1, <1>2 DEF SavedInv, Undisturbed
<1>4. CASE Registered(x)
  <2>1. PICK n : /\ n = [op[o] EXCEPT !.found = registry[x], !.at = "draining"]
                 /\ op' = [op EXCEPT ![o] = n]
    BY <1>1, <1>4 DEF Deregister, IInv, TypeInv, TypeOK
  <2>2. n.id = x /\ n.at = "draining" /\ x # None
    BY <1>1, <1>2, <2>1, AtWork, AbsentAssumption DEF Operation
  <2>3. /\ registry' = [registry EXCEPT ![x] = NoInstance]
        /\ instance' = [instance EXCEPT ![registry[x]].removing = TRUE]
    BY <1>1, <1>4 DEF Deregister
  <2>4. /\ registry'[x] = NoInstance
        /\ \A id \in Ids \ {x} : registry'[id] = registry[id]
        /\ \A i \in Instances : instance'[i].config = instance[i].config
    BY <2>3 DEF IInv, TypeInv, TypeOK, Instance
  <2>5. /\ \A id \in Ids :
             Registered(id) => instance'[registry[id]].config = instance[registry[id]].config
        /\ \A q \in Operations \ {o} : op[q].at \in {"adding", "swapping"} =>
             instance'[op[q].built].config = instance[op[q].built].config
    BY <2>4, HeldAlone DEF Registered, IInv, TypeInv, TypeOK
  <2>6. PlaceAgrees(n)'
    BY <2>2, <2>4 DEF PlaceAgrees, Registered
  <2>7. \A q \in Operations \ {o} : op[q].at = "assigning" => registry'[x] # op[q].found
    BY <2>4, AbsentAssumption DEF IInv, TypeInv, WellPlaced
  <2>8. /\ op[o].id \in {x, None} /\ n.id \in {x, None} /\ n.at # "assigning"
         /\ op' = [op EXCEPT ![o] = n] /\ disturbed \subseteq disturbed'
    BY <1>1, <1>2, <2>1, <2>2
  <2>9. \A id \in Ids \ {x} :
           /\ registry'[id] = registry[id]
           /\ disk'[id].config = disk[id].config
           /\ Registered(id) => instance'[registry[id]].config = instance[registry[id]].config
    BY <1>2, <2>4, <2>5
  <2>10. x \notin disturbed' =>
           /\ \A q \in Operations \ {o} : op[q].id # x
           /\ n.id = None => Agreed(x)'
           /\ n.id = x => PlaceAgrees(n)'
    BY <1>3, <2>2, <2>6
  <2>11. \A q \in Operations \ {o} : op[q].at \in {"adding", "swapping"} =>
            instance'[op[q].built].config = instance[op[q].built].config
    BY <2>5
  <2>12. \A q \in Operations \ {o} : op[q].at = "assigning" /\ registry'[x] = op[q].found =>
            registry[x] = op[q].found
    BY <2>7
  <2>13. QED
    BY ZenonT(60), <2>8, <2>9, <2>10, <2>11, <2>12, OneTenant
<1>5. CASE ~Registered(x)
  <2>1. End(o) /\ UNCHANGED <<registry, instance>>
    BY <1>1, <1>5 DEF Deregister
  <2>2. PlaceAgrees(op[o]) => Agreed(x)'
    BY <1>1, <1>2, <2>1, AgreesOn DEF PlaceAgrees
  <2>3. QED
    BY <1>1, <1>2, <2>1, <2>2, EndSaved
<1>6. QED
  BY <1>4, <1>5

LEMMA EraseSaved ==
  ASSUME IInv, IInv', SavedInv, NEW o \in Operations, Erase(o) PROVE SavedInv'
<1>1. PICK x \in Ids : x = op[o].id
  BY AtWork DEF Erase
<1>2. op[o].at = "erasing" /\ End(o) /\ UNCHANGED <<registry, instance, disturbed>>
  BY DEF Erase, History
<1>3. disk'[x].config = None /\ \A id \in Ids \ {x} : disk'[id].config = disk[id].config
  BY <1>1 DEF Erase, IInv, TypeInv, TypeOK
<1>4. PlaceAgrees(op[o]) => Agreed(x)'
  BY <1>1, <1>2, <1>3 DEF PlaceAgrees, Agreed, Registered
<1>5. QED
  BY <1>1, <1>2, <1>3, <1>4, EndSaved

LEMMA IntrospectSaved ==
  ASSUME IInv, IInv', SavedInv, NEW o \in Operations, Introspect(o) PROVE SavedInv'
<1>1. PICK x \in Ids : x = op[o].id
  BY AtWork DEF Introspect
<1>2. op[o].at = "introspecting" /\ UNCHANGED <<registry, instance, disturbed>>
  BY DEF Introspect, History
<1>3. \A id \in Ids : disk'[id].config = disk[id].config
  <2>1. UNCHANGED disk \/ disk' = [disk EXCEPT ![x].schema = op[o].config.database]
    BY <1>1 DEF Introspect
  <2>2. QED
    BY <2>1 DEF IInv, TypeInv, TypeOK
<1>4. PlaceAgrees(op[o]) => Agreed(x)' /\ Registered(x)
  BY <1>1, <1>2, <1>3, AgreesOn DEF PlaceAgrees
<1>5. CASE End(o)
  BY <1>1, <1>2, <1>3, <1>4, <1>5, EndSaved
<1>6. CASE op[o].kind = "rewrite" /\ Goto(o, "saving")
  <2>1. PICK n : n = [op[o] EXCEPT !.at = "saving"] /\ op' = [op EXCEPT ![o] = n]
    BY <1>6 DEF Goto, IInv, TypeInv, TypeOK
  <2>2. n.id = x /\ n.at = "saving" /\ n.kind = "rewrite" /\ x # None
    BY <1>1, <1>2, <1>6, <2>1, AtWork, AbsentAssumption DEF Operation
  <2>3. PlaceAgrees(op[o]) => PlaceAgrees(n)'
    BY <1>2, <1>4, <2>2 DEF PlaceAgrees, Registered
  <2>4. QED
    BY <1>1, <1>2, <1>3, <2>1, <2>2, <2>3, AsideSaved
<1>7. QED
  BY <1>5, <1>6 DEF Introspect

LEMMA LoadSaved ==
  ASSUME IInv, IInv', SavedInv, NEW o \in Operations, Load(o) PROVE SavedInv'
<1>1. PICK x \in Ids : x = op[o].id
  BY AtWork DEF Load
<1>2. op[o].at = "loading" /\ UNCHANGED <<registry, instance, disk>>
  BY DEF Load
<1>3. CASE Fail(o)
  <2>1. x \in disturbed' /\ disturbed \subseteq disturbed' /\ End(o)
    BY <1>1, <1>3 DEF Fail
  <2>2. QED
    BY <1>1, <1>2, <1>3, <2>1, EndSaved
<1>4. CASE ~Fail(o)
  <2>1. PICK n : /\ n = [op[o] EXCEPT !.kind = "reload", !.config = disk[x].config,
                                      !.found = NoInstance, !.at = "finding"]
                 /\ op' = [op EXCEPT ![o] = n]
    BY <1>1, <1>4 DEF Load, IInv, TypeInv, TypeOK
  <2>2. n.id = x /\ n.at = "finding" /\ n.config = disk[x].config /\ x # None
    BY <1>1, <1>2, <2>1, AtWork, AbsentAssumption DEF Operation
  <2>3. PlaceAgrees(op[o]) => PlaceAgrees(n)'
    BY <1>1, <1>2, <2>2 DEF PlaceAgrees, Registered
  <2>4. UNCHANGED disturbed
    BY <1>4 DEF Load
  <2>5. QED
    BY <1>1, <1>2, <2>1, <2>2, <2>3, <2>4, AsideSaved
<1>5. QED
  BY <1>3, <1>4

LEMMA FindSaved ==
  ASSUME IInv, IInv', SavedInv, NEW o \in Operations, Find(o) PROVE SavedInv'
<1>1. PICK x \in Ids : x = op[o].id
  BY AtWork DEF Find
<1>2. op[o].at = "finding" /\ UNCHANGED <<registry, instance, disk>>
  BY DEF Find
<1>3. CASE Fail(o)
  <2>1. x \in disturbed' /\ disturbed \subseteq disturbed' /\ End(o)
    BY <1>1, <1>3 DEF Fail
  <2>2. QED
    BY <1>1, <1>2, <1>3, <2>1, EndSaved
<1>4. CASE ~Fail(o)
  <2>1. PICK n : /\ n = [op[o] EXCEPT
                          !.found = registry[x],
                          !.at = IF instance[registry[x]].config.database = op[o].config.database
                                 THEN "assigning" ELSE "rebuilding"]
                 /\ op' = [op EXCEPT ![o] = n]
    BY <1>1, <1>4 DEF Find, IInv, TypeInv, TypeOK
  <2>2. /\ n.id = x /\ n.at \in {"assigning", "rebuilding"} /\ n.config = op[o].config
        /\ n.found = registry[x] /\ x # None
    BY <1>1, <1>2, <2>1, AtWork, AbsentAssumption DEF Operation
  <2>3. PlaceAgrees(op[o]) => PlaceAgrees(n)'
    BY <1>1, <1>2, <2>2 DEF PlaceAgrees, Registered
  <2>4. UNCHANGED disturbed
    BY <1>4 DEF Find
  <2>5. QED
    BY <1>1, <1>2, <2>1, <2>2, <2>3, <2>4, AsideSaved
<1>5. QED
  BY <1>3, <1>4

LEMMA SwapSaved ==
  ASSUME IInv, IInv', SavedInv, NEW o \in Operations, Swap(o) PROVE SavedInv'
<1>1. PICK x \in Ids : x = op[o].id
  BY AtWork DEF Swap
<1>2. op[o].at = "swapping" /\ UNCHANGED <<instance, disk, disturbed>>
  BY DEF Swap
<1>3. x \notin disturbed' => PlaceAgrees(op[o]) /\ \A q \in Operations \ {o} : op[q].id # x
  BY <1>1, <1>2 DEF SavedInv, Undisturbed
<1>4. CASE Registered(x)
  <2>1. PICK n : /\ n = [Idle EXCEPT !.kind = op[o].kind, !.id = op[o].id, !.at = "retiring",
                                     !.found = op[o].found, !.built = NoInstance]
                 /\ op' = [op EXCEPT ![o] = n]
    BY <1>1, <1>4 DEF Swap, Keep
  <2>2. n.id = x /\ n.at = "retiring" /\ x # None
    BY <1>1, <2>1, AbsentAssumption DEF Idle
  <2>3. registry' = [registry EXCEPT ![x] = op[o].built]
    BY <1>1, <1>4 DEF Swap
  <2>4. /\ registry'[x] = op[o].built /\ op[o].built \in Instances
        /\ \A id \in Ids \ {x} : registry'[id] = registry[id]
    BY <1>2, <2>3 DEF IInv, TypeInv, TypeOK, WellPlaced, Holding
  <2>5. PlaceAgrees(op[o]) => PlaceAgrees(n)'
    BY <1>1, <1>2, <2>2, <2>4, AbsentAssumption DEF PlaceAgrees, Registered, Agreed
  <2>6. \A q \in Operations \ {o} : op[q].at = "assigning" => registry'[x] # op[q].found
    BY <1>2, <2>4 DEF IInv, BuildersOwn, Holding
  <2>7. /\ op[o].id \in {x, None} /\ n.id \in {x, None} /\ n.at # "assigning"
         /\ op' = [op EXCEPT ![o] = n] /\ disturbed \subseteq disturbed'
    BY <1>1, <1>2, <2>1, <2>2
  <2>8. \A id \in Ids \ {x} :
           /\ registry'[id] = registry[id]
           /\ disk'[id].config = disk[id].config
           /\ Registered(id) => instance'[registry[id]].config = instance[registry[id]].config
    BY <1>2, <2>4
  <2>9. x \notin disturbed' =>
           /\ \A q \in Operations \ {o} : op[q].id # x
           /\ n.id = None => Agreed(x)'
           /\ n.id = x => PlaceAgrees(n)'
    BY <1>3, <2>2, <2>5, AbsentAssumption
  <2>10. \A q \in Operations \ {o} : op[q].at \in {"adding", "swapping"} =>
            instance'[op[q].built].config = instance[op[q].built].config
    BY <1>2
  <2>11. \A q \in Operations \ {o} : op[q].at = "assigning" /\ registry'[x] = op[q].found =>
            registry[x] = op[q].found
    BY <2>6
  <2>12. QED
    BY ZenonT(60), <2>7, <2>8, <2>9, <2>10, <2>11, OneTenant
<1>5. CASE ~Registered(x)
  <2>1. PICK n : /\ n = [Idle EXCEPT !.kind = op[o].kind, !.id = op[o].id, !.at = "discarding",
                                     !.found = NoInstance, !.built = op[o].built]
                 /\ op' = [op EXCEPT ![o] = n]
    BY <1>1, <1>5 DEF Swap, Keep
  <2>2. n.id = x /\ n.at = "discarding" /\ UNCHANGED registry
    BY <1>1, <1>5, <2>1 DEF Idle, Swap
  <2>3. ~PlaceAgrees(op[o])
    BY <1>1, <1>2, <1>5 DEF PlaceAgrees
  <2>4. QED
    BY <1>1, <1>2, <2>1, <2>2, <2>3, AsideSaved
<1>6. QED
  BY <1>4, <1>5

LEMMA AssignSaved ==
  ASSUME IInv, IInv', SavedInv, NEW o \in Operations, Assign(o) PROVE SavedInv'
<1>1. PICK x \in Ids : x = op[o].id
  BY AtWork DEF Assign
<1>2. /\ op[o].at = "assigning" /\ UNCHANGED <<registry, disk, disturbed>>
      /\ instance' = Exchanged(op[o].found, op[o].config)
  BY DEF Assign, History
<1>3. PICK i \in Instances : i = op[o].found
  BY <1>2 DEF IInv, TypeInv, WellPlaced
<1>4. PICK n : n = Idle /\ op' = [op EXCEPT ![o] = n]
  BY DEF Assign, End
<1>5. n.id = None /\ n.at = "idle" /\ x # None
  BY <1>4, AbsentAssumption DEF Idle
<1>6. \A j \in Instances \ {i} : instance'[j].config = instance[j].config
  BY <1>2, <1>3 DEF Exchanged, IInv, TypeInv, TypeOK
<1>7. \A id \in Ids \ {x} :
        Registered(id) => instance'[registry[id]].config = instance[registry[id]].config
  <2>1. ASSUME NEW id \in Ids \ {x}, Registered(id) PROVE registry[id] \in Instances \ {i}
    BY <1>1, <1>2, <1>3, <2>1 DEF SavedInv, Registered, IInv, TypeInv, TypeOK
  <2>2. QED
    BY <1>6, <2>1
<1>8. \A q \in Operations \ {o} : op[q].at \in {"adding", "swapping"} =>
        instance'[op[q].built].config = instance[op[q].built].config
  BY <1>3, <1>6, HeldAlone
<1>9. PlaceAgrees(op[o]) => Agreed(x)'
  <2>1. PlaceAgrees(op[o]) =>
          Registered(x) /\ registry[x] = i /\ disk[x].config = op[o].config
    BY <1>1, <1>2, <1>3 DEF PlaceAgrees
  <2>2. Registered(x) /\ registry[x] = i => instance[i].open
    BY DEF IInv, RegisteredServes
  <2>3. instance[i].open => instance'[i].config = op[o].config
    BY <1>2, <1>3 DEF Exchanged, IInv, TypeInv, TypeOK, Instance
  <2>4. QED
    BY <1>2, <2>1, <2>2, <2>3 DEF Agreed, Registered
<1>10. x \notin disturbed' => PlaceAgrees(op[o]) /\ \A q \in Operations \ {o} : op[q].id # x
  BY <1>1, <1>2 DEF SavedInv, Undisturbed
<1>11. QED
  BY ZenonT(60), <1>1, <1>2, <1>4, <1>5, <1>7, <1>8, <1>9, <1>10, OneTenant

\* An operation begins: alone with a tenant that agrees, or the tenant is disturbed.
LEMMA BeginSaved ==
  ASSUME IInv, IInv', SavedInv, NEW o \in Operations, BeginSome(o) PROVE SavedInv'
<1>0. PICK x \in Ids : \E kind, c, place :
        Begin(o, kind, x, c, place) /\ place \in {"checking", "resolving", "removing"}
  BY Zenon DEF BeginSome
<1>1. PICK n :
        /\ op' = [op EXCEPT ![o] = n]
        /\ n.id = x
        /\ n.at \in {"checking", "resolving", "removing"}
  <2>1. PICK kind, c, place :
          Begin(o, kind, x, c, place) /\ place \in {"checking", "resolving", "removing"}
    BY <1>0
  <2> DEFINE m == [Idle EXCEPT !.kind = kind, !.id = x, !.config = c, !.at = place]
  <2>2. op' = [op EXCEPT ![o] = m]
    BY <2>1 DEF Begin
  <2>3. m.id = x /\ m.at = place
    BY DEF Idle
  <2> HIDE DEF m
  <2>4. QED
    BY <2>1, <2>2, <2>3
<1>2. /\ op[o].at = "idle"
      /\ disturbed' = IF Busy(x) THEN disturbed \cup {x} ELSE disturbed
      /\ UNCHANGED <<registry, instance, disk>>
  BY <1>0 DEF Begin
<1>3. op[o].id = None /\ x # None
  BY <1>2, AbsentAssumption DEF IInv, TypeInv, WellPlaced
<1>4. x \notin disturbed' => ~Busy(x) /\ Agreed(x)
  BY <1>2 DEF SavedInv, Undisturbed
<1>5. x \notin disturbed' => Agreed(x)'
  BY <1>2, <1>4, AgreesOn
<1>6. x \notin disturbed' => PlaceAgrees(n)'
  BY <1>1, <1>5 DEF PlaceAgrees
<1>7. x \notin disturbed' => \A q \in Operations \ {o} : op[q].id # x
  BY <1>4 DEF Busy
<1>8. disturbed \subseteq disturbed'
  BY <1>2
<1>9. QED
  BY <1>1, <1>2, <1>3, <1>6, <1>7, <1>8, OneTenant

\* Nothing that SavedInv speaks of is written: a request, a lock, a stutter.
LEMMA UntouchedSaved ==
  ASSUME SavedInv, UNCHANGED <<registry, instance, disk, op, disturbed>>
  PROVE  SavedInv'
<1>1. \A id \in Ids : Agreed(id) <=> Agreed(id)'
  BY DEF Agreed, Registered
<1>2. \A o \in Operations : op[o].id \in Ids /\ PlaceAgrees(op[o]) => PlaceAgrees(op[o])'
  BY <1>1 DEF PlaceAgrees, Registered
<1>3. \A id \in Ids : Busy(id) <=> Busy(id)'
  BY DEF Busy
<1>4. \A id \in Ids : Undisturbed(id) => Undisturbed(id)'
  BY <1>1, <1>2, <1>3 DEF Undisturbed
<1>5. QED
  BY <1>4 DEF SavedInv

\* A restart runs what is saved, or marks the tenant whose database it cannot reach.
LEMMA RestartSaved ==
  ASSUME IInv, IInv', Restart PROVE SavedInv'
<1>1. PICK up \in SUBSET Databases, new \in [Ids -> Instances] :
        LET restored == {id \in Ids : disk[id].config # None /\ disk[id].config.database \in up}
        IN  /\ \A id, other \in restored : id # other => new[id] # new[other]
            /\ registry' = [id \in Ids |-> IF id \in restored THEN new[id] ELSE NoInstance]
            /\ instance' = [i \in Instances |->
                    IF \E id \in restored : new[id] = i
                    THEN LET id == CHOOSE id \in restored : new[id] = i
                         IN  Built(disk[id].config)
                    ELSE Blank]
            /\ op' = [o \in Operations |-> Idle]
            /\ disturbed' = {id \in Ids : disk[id].config # None} \ restored
            /\ UNCHANGED disk
  BY ZenonT(60) DEF Restart
<1> DEFINE restored == {id \in Ids : disk[id].config # None /\ disk[id].config.database \in up}
<1>2. \A o \in Operations : op'[o].id = None /\ op'[o].at = "idle"
  BY <1>1 DEF Idle
<1>3. ASSUME NEW x \in restored
      PROVE  registry'[x] = new[x] /\ instance'[new[x]].config = disk[x].config
  <2> DEFINE t == CHOOSE id \in restored : new[id] = new[x]
  <2>1. t \in restored /\ new[t] = new[x]
    BY <1>3
  <2>2. t = x
    BY <1>1, <1>3, <2>1
  <2>3. new[x] \in Instances /\ instance'[new[x]] = Built(disk[t].config)
    BY <1>1, <1>3
  <2>4. QED
    BY <1>1, <1>3, <2>2, <2>3 DEF Built
<1>4. ASSUME NEW x \in Ids, x \notin disturbed' PROVE Agreed(x)'
  <2>1. CASE x \in restored
    <3>1. new[x] # NoInstance
      BY AbsentAssumption
    <3>2. registry'[x] = new[x] /\ instance'[new[x]].config = disk'[x].config
      BY ZenonT(60), <1>1, <1>3, <2>1
    <3>3. QED
      BY <3>1, <3>2 DEF Agreed, Registered
  <2>2. CASE x \notin restored
    BY <1>1, <1>4, <2>2 DEF Agreed, Registered
  <2>3. QED
    BY <2>1, <2>2
<1>5. \A x \in Ids : x # None
  BY AbsentAssumption
<1>6. ASSUME NEW x \in Ids, x \notin disturbed' PROVE Undisturbed(x)'
  BY <1>2, <1>4, <1>5, <1>6 DEF Undisturbed
<1>7. QED
  BY <1>2, <1>6 DEF SavedInv

\* A store without files runs nothing.
LEMMA InitSaved == Init => SavedInv
<1> SUFFICES ASSUME Init PROVE SavedInv
  OBVIOUS
<1>1. \A o \in Operations : op[o].id = None /\ op[o].at = "idle"
  BY DEF Init, Idle
<1>2. \A id \in Ids : Agreed(id) /\ id # None
  BY AbsentAssumption DEF Init, Agreed, Registered
<1>3. QED
  BY <1>1, <1>2 DEF SavedInv, Undisturbed

\* Every step keeps what runs and what is saved together, or has it written down that an
\* operation is under way, or that operations overlapped.
LEMMA NextSaved == IInv /\ IInv' /\ SavedInv /\ [Next]_vars => SavedInv'
<1> SUFFICES ASSUME IInv, IInv', SavedInv, [Next]_vars PROVE SavedInv'
  OBVIOUS
<1>1. ASSUME NEW r \in Requests, Enter(r) \/ Answer(r) PROVE SavedInv'
  BY <1>1, UntouchedSaved DEF Enter, Answer, Query, Describe, Leave, History
<1>2. ASSUME NEW o \in Operations, Reading(o) PROVE SavedInv'
  BY <1>2, ResolveSaved, CheckSaved, FindSaved DEF Reading
<1>3. ASSUME NEW o \in Operations, Working(o) PROVE SavedInv'
  BY <1>3, BuildSaved, AddSaved, DiscardSaved, SaveSaved, DeregisterSaved, DrainSaved,
     EraseSaved, IntrospectSaved, LoadSaved, RebuildSaved, SwapSaved, RetireSaved, AssignSaved
  DEF Working
<1>4. ASSUME NEW o \in Operations, BeginSome(o) PROVE SavedInv'
  BY <1>4, BeginSaved
<1>5. ASSUME NEW o \in Operations, Announce(o) PROVE SavedInv'
  BY <1>5, UntouchedSaved DEF Announce, History
<1>6. CASE UNCHANGED vars
  BY <1>6, UntouchedSaved DEF vars
<1> QED
  BY <1>1, <1>2, <1>3, <1>4, <1>5, <1>6, RestartSaved DEF Next

\* As long as the admin operations on a tenant follow one another and none fails after it
\* saved, the configuration that runs is the one in {id}.json, across crashes at any step
\* (AddTenant, ReloadTenant, RemoveTenant and the handlers around them).
THEOREM RunsAsSaved == Spec => []RunsWhatIsSaved
<1>1. SavedInv => RunsWhatIsSaved
  BY DEF SavedInv, Undisturbed, Agreed, RunsWhatIsSaved
<1>2. IInv /\ IInv' /\ SavedInv /\ [Next]_vars => SavedInv'
  BY NextSaved
<1> QED
  BY <1>1, <1>2, InitSaved, Inductive, PTL DEF Spec

=============================================================================
