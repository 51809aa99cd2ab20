---------------------------- MODULE SeedPipeline ----------------------------
(***************************************************************************)
(* agent-db's seed command line (services/agent-db/agent_db/cli.py and     *)
(* seedgen/): scenario directories become SQLite files, the files are      *)
(* registered as tenants of a running data-service, and the test commands  *)
(* run both and then look at what is served.                               *)
(*                                                                         *)
(* Shells run one command each.  Only FileShell runs commands that touch   *)
(* files; the others register and delete tenants beside it.  A file is     *)
(* known by its serial number (its inode): one that was unlinked under an  *)
(* open connection is still read through it.  The author of the scenarios  *)
(* may edit them once, to any edition.  A command is interrupted, a        *)
(* request refused and a bootstrap script fails at most MaxSeedFaults      *)
(* times; the shells run MaxCommands commands in all.  Two shells that      *)
(* materialize one file at the same time are left out: SQLite promises     *)
(* nothing of a database unlinked under its writer.                        *)
(***************************************************************************)
EXTENDS Naturals, Sequences, SequencesExt, FiniteSets

CONSTANTS
    Shells, FileShell,
    TestTenants,    \* the --tenants list of test and e2e
    Scenarios,      \* the scenario directories in the order of their names
    ScenarioMap,    \* e2e's map of a tenant to its scenario
    FirstEdition, Editions,  \* what the scenario files are, and may be made
    ConfigOf,       \* [edition -> [scenario -> config, seed, bootstrap script]]
    BootFile,       \* what a bootstrap script leaves in the file
    EntityOf,       \* the table of a tenant that the e2e check reads
    MaxCommands, MaxSeedFaults

ASSUME SeedAssumption ==
    /\ FileShell \in Shells
    /\ FirstEdition \in Editions
    /\ MaxCommands \in Nat /\ MaxSeedFaults \in Nat
    /\ \A e \in Editions : DOMAIN ConfigOf[e] = ToSet(Scenarios)

VARIABLES
    edition,    \* of the scenario directories
    copies,     \* every database file a scenario has had, by serial number
    atPath,     \* the serial number of the file at its path, 0 for none
    registered,     \* the tenants of the data-service
    shell,      \* what each shell is doing
    made,       \* history: what the last finished materialize reported
    claimed,    \* history: the tenants some register reported and none lost since
    commands, seedFaults

seedVars == <<edition, copies, atPath, registered, shell, made, claimed,
              commands, seedFaults>>
seedBounds == <<commands, seedFaults>>

SeedScenarios == ToSet(Scenarios)
SeedTenants == ToSet(TestTenants) \cup SeedScenarios
NotMade == [copy |-> 0, read |-> "", force |-> FALSE]
NotServed == [up |-> FALSE, copy |-> 0, read |-> ""]

-----------------------------------------------------------------------------
(* seedgen: the schema and the rows *)

\* The columns of an entity's table and, of its many-to-one relations, those
\* on a column the table has: the foreign keys written into CREATE TABLE.
CreateTable(ent) ==
    [cols |-> ent.fields,
     refs |-> {[col |-> r.local, table |-> r.table] :
                  r \in {q \in ent.relations : q.kind = "many_to_one"
                                               /\ q.local \in ent.fields}}]

GenerateDdl(entities) ==
    SelectSeq(entities, LAMBDA ent : ent.table # "" /\ ent.fields # {})

EmptyFile == [tables |-> <<>>, rows |-> {}]

\* CREATE TABLE IF NOT EXISTS
WithTable(file, ent) ==
    IF ent.table \in DOMAIN file.tables THEN file
    ELSE [file EXCEPT !.tables =
             [t \in DOMAIN file.tables \cup {ent.table} |->
                 IF t = ent.table THEN CreateTable(ent) ELSE file.tables[t]]]

SeedOrder == <<"groups", "disciplines", "teachers", "students", "schedule", "grades">>

SeedRows(seed) ==
    FlattenSeq([i \in 1 .. Len(SeedOrder) |->
                   IF SeedOrder[i] \in DOMAIN seed THEN seed[SeedOrder[i]] ELSE <<>>])

Has(file, table, id) == \E r \in file.rows : r.table = table /\ r.id = id

\* The table has the columns, and every parent a foreign key asks for.
RowAccepted(file, row) ==
    /\ row.table \in DOMAIN file.tables
    /\ row.cols \subseteq file.tables[row.table].cols
    /\ \A ref \in file.tables[row.table].refs :
          ref.col \in DOMAIN row.parents =>
             /\ ref.table \in DOMAIN file.tables
             /\ Has(file, ref.table, row.parents[ref.col])

\* INSERT OR IGNORE: a row whose id is there is passed over.  The first row
\* that is not accepted ends the transaction, and "bad" says so.
Inserted(file, rows) ==
    FoldLeft(LAMBDA acc, row :
                CASE acc.bad -> acc
                  [] row.table \in DOMAIN acc.file.tables
                     /\ row.cols \subseteq acc.file.tables[row.table].cols
                     /\ Has(acc.file, row.table, row.id) -> acc
                  [] ~RowAccepted(acc.file, row) -> [acc EXCEPT !.bad = TRUE]
                  [] OTHER -> [acc EXCEPT !.file.rows = @ \cup {row}],
             [file |-> file, bad |-> FALSE], rows)

\* The file of a scenario after a materialize of it into no file.
Finished(e, sc) ==
    LET given == ConfigOf[e][sc] IN
    IF given.bootstrap THEN BootFile[sc]
    ELSE Inserted(FoldLeft(WithTable, EmptyFile, GenerateDdl(given.entities)),
                  SeedRows(given.seed)).file

-----------------------------------------------------------------------------
(* Commands as lists of jobs *)

MaterializeJob(sc, force) == [op |-> "materialize", scenario |-> sc, force |-> force]
DropJob(sc)               == [op |-> "drop", scenario |-> sc]
RegisterJob(t, sc)        == [op |-> "register", tenant |-> t, scenario |-> sc]
CheckJob(t)               == [op |-> "check", tenant |-> t]
ProbeJob(t)               == [op |-> "probe", tenant |-> t]
ChatJob(t)                == [op |-> "chat", tenant |-> t]

Each(list, Job(_)) == [i \in 1 .. Len(list) |-> Job(list[i])]
Unless(skip, jobs) == IF skip THEN <<>> ELSE jobs

MaterializeAll(force) == Each(Scenarios, LAMBDA sc : MaterializeJob(sc, force))
RegisterAll           == Each(Scenarios, LAMBDA sc : RegisterJob(sc, sc))

\* test takes a tenant's id for the name of its scenario, e2e maps it.
TestJobs(skipMade, skipTenants) ==
    Unless(skipMade, Each(TestTenants, LAMBDA t : MaterializeJob(t, TRUE)))
    \o Unless(skipTenants, Each(TestTenants, LAMBDA t : RegisterJob(t, t)))
    \o Each(TestTenants, ProbeJob)

E2eJobs(skipMade, skipTenants) ==
    Unless(skipMade, Each(TestTenants, LAMBDA t : MaterializeJob(ScenarioMap[t], TRUE)))
    \o Unless(skipTenants, Each(TestTenants, LAMBDA t : RegisterJob(t, ScenarioMap[t])))
    \o Each(TestTenants, CheckJob)
    \o Each(TestTenants, ChatJob)

Command(name, whole, jobs) == [name |-> name, whole |-> whole, jobs |-> jobs]

RegisterCommands ==
    {Command("register", FALSE, <<RegisterJob(t, ScenarioMap[t])>>) :
        t \in ToSet(TestTenants)}
    \cup {Command("register", FALSE, RegisterAll)}

FileCommands ==
    {Command("file", FALSE, <<MaterializeJob(sc, force)>>) :
        sc \in SeedScenarios, force \in BOOLEAN}
    \cup {Command("file", FALSE, MaterializeAll(force)) : force \in BOOLEAN}
    \cup {Command("file", FALSE, <<DropJob(sc)>>) : sc \in SeedScenarios}
    \cup {Command("test", ~m /\ ~r, TestJobs(m, r)) : m, r \in BOOLEAN}
    \cup {Command("e2e", ~m /\ ~r, E2eJobs(m, r)) : m, r \in BOOLEAN}

-----------------------------------------------------------------------------
Waiting(name, told) ==
    [name |-> name, whole |-> FALSE, jobs |-> <<>>, at |-> "idle", read |-> "",
     ddl |-> <<>>, copy |-> 0, seen |-> {}, told |-> told]

SeedEarlier == {ScenarioMap[t] : t \in ToSet(TestTenants)}

\* Nothing is there yet, or what an e2e run of the same edition has left.
SeedPipelineInit ==
    /\ edition = FirstEdition
    /\ \E earlier \in {{}, SeedEarlier} :
          /\ copies = [sc \in SeedScenarios |->
                IF sc \notin earlier THEN <<>> ELSE <<Finished(FirstEdition, sc)>>]
          /\ atPath = [sc \in SeedScenarios |-> IF sc \in earlier THEN 1 ELSE 0]
          /\ registered = [t \in SeedTenants |->
                IF t \in ToSet(TestTenants) /\ earlier # {}
                THEN [up |-> TRUE, copy |-> 1, read |-> FirstEdition] ELSE NotServed]
    /\ shell = [s \in Shells |-> Waiting("", "nothing")]
    /\ made = [sc \in SeedScenarios |-> NotMade]
    /\ claimed = {}
    /\ commands = 0
    /\ seedFaults = 0

SeedPipelineTypeOK ==
    /\ edition \in Editions
    /\ DOMAIN copies = SeedScenarios
    /\ \A sc \in SeedScenarios : atPath[sc] \in 0 .. Len(copies[sc])
    /\ registered \in [SeedTenants ->
           [up: BOOLEAN, copy: Nat, read: Editions \cup {""}]]
    /\ \A s \in Shells :
          /\ shell[s].told \in {"nothing", "done", "failed", "interrupted"}
          /\ shell[s].at \in {"idle", "next", "seedgen", "open", "schema", "insert",
                               "commit", "bootstrap", "exists", "gone"}
    /\ made \in [SeedScenarios ->
           [copy: Nat, read: Editions \cup {""}, force: BOOLEAN]]
    /\ claimed \subseteq SeedTenants
    /\ commands \in 0 .. MaxCommands
    /\ seedFaults \in 0 .. MaxSeedFaults

Doing(s, op, at) == shell[s].jobs # <<>> /\ Head(shell[s].jobs).op = op /\ shell[s].at = at
JobOf(s) == Head(shell[s].jobs)
Given(s) == ConfigOf[shell[s].read][JobOf(s).scenario]

StepsTo(s, at) == shell' = [shell EXCEPT ![s].at = at]
JobDone(s) ==
    shell' = [shell EXCEPT ![s].jobs = Tail(@), ![s].at = "next", ![s].read = "",
                           ![s].ddl = <<>>, ![s].copy = 0]
\* sys.exit(1), or an exception nobody catches.
Fails(s) == shell' = [shell EXCEPT ![s] = Waiting(@.name, "failed")]

SeedFault == seedFaults < MaxSeedFaults /\ seedFaults' = seedFaults + 1

\* A new file at the path of sc, holding what is given.
NewFile(sc, file) ==
    /\ copies' = [copies EXCEPT ![sc] = Append(@, file)]
    /\ atPath' = [atPath EXCEPT ![sc] = Len(copies[sc]) + 1]
Unlinked(sc) == atPath' = [atPath EXCEPT ![sc] = 0]
\* OpenedFile to write: made empty when it is not there.
OpenedFile(sc) ==
    IF atPath[sc] = 0 THEN NewFile(sc, EmptyFile) ELSE UNCHANGED <<copies, atPath>>

-----------------------------------------------------------------------------
(* A command begins and ends *)

StartCommand(s, cmd) ==
    /\ shell[s].at = "idle"
    /\ commands < MaxCommands
    /\ commands' = commands + 1
    /\ cmd \in RegisterCommands \/ s = FileShell
    /\ shell' = [shell EXCEPT ![s] =
          [Waiting(cmd.name, "nothing")
             EXCEPT !.whole = cmd.whole, !.jobs = cmd.jobs, !.at = "next"]]
    /\ UNCHANGED <<edition, copies, atPath, registered, made, claimed, seedFaults>>

\* "ALL E2E TESTS PASSED" is printed whatever the chat tests have shown.
EndCommand(s) ==
    /\ shell[s].at = "next" /\ shell[s].jobs = <<>>
    /\ shell' = [shell EXCEPT ![s].at = "idle", ![s].told = "done"]
    /\ UNCHANGED <<edition, copies, atPath, registered, made, claimed, seedBounds>>

\* Ctrl-C: what was not committed is lost, a tenant that was deleted stays so.
InterruptCommand(s) ==
    /\ shell[s].at # "idle"
    /\ SeedFault
    /\ shell' = [shell EXCEPT ![s] = Waiting(@.name, "interrupted")]
    /\ claimed' = IF shell[s].at = "gone" THEN claimed \ {JobOf(s).tenant} ELSE claimed
    /\ UNCHANGED <<edition, copies, atPath, registered, made, commands>>

EditScenarios ==
    /\ edition = FirstEdition
    /\ edition' \in Editions \ {FirstEdition}
    /\ UNCHANGED <<copies, atPath, registered, shell, made, claimed, seedBounds>>

-----------------------------------------------------------------------------
(* materialize and drop *)

IsFile(e, sc) == ConfigOf[e][sc].driver = "sqlite"
HasSqlite(sc) == sc \in SeedScenarios /\ IsFile(edition, sc)

\* The command's own look at the config; force removes the file, not yet its WAL.
BeginMaterialize(s) ==
    /\ Doing(s, "materialize", "next")
    /\ LET job == JobOf(s) IN
        IF ~HasSqlite(job.scenario) THEN Fails(s) /\ UNCHANGED <<atPath, made>>
        ELSE /\ StepsTo(s, "seedgen")
             /\ made' = [made EXCEPT ![job.scenario] = NotMade]
             /\ IF job.force THEN Unlinked(job.scenario) ELSE UNCHANGED atPath
    /\ UNCHANGED <<edition, copies, registered, claimed, seedBounds>>

\* seedgen.materialize reads config and seed, and removes file and WAL again.
LoadScenario(s) ==
    /\ Doing(s, "materialize", "seedgen")
    /\ LET given == ConfigOf[edition][JobOf(s).scenario] IN
        IF given.entities = <<>> THEN Fails(s) /\ UNCHANGED atPath
        ELSE /\ shell' = [shell EXCEPT ![s].at = "open", ![s].read = edition,
                                       ![s].ddl = GenerateDdl(given.entities)]
             /\ IF JobOf(s).force THEN Unlinked(JobOf(s).scenario) ELSE UNCHANGED atPath
    /\ UNCHANGED <<edition, copies, registered, made, claimed, seedBounds>>

OpenDatabase(s) ==
    /\ Doing(s, "materialize", "open")
    /\ OpenedFile(JobOf(s).scenario)
    /\ shell' = [shell EXCEPT ![s].at = "schema", ![s].copy = atPath'[JobOf(s).scenario]]
    /\ UNCHANGED <<edition, registered, made, claimed, seedBounds>>

\* Each CREATE TABLE is committed by itself.
ApplyDdl(s) ==
    /\ Doing(s, "materialize", "schema")
    /\ IF shell[s].ddl = <<>> THEN StepsTo(s, "insert") /\ UNCHANGED copies
       ELSE /\ copies' = [copies EXCEPT ![JobOf(s).scenario][shell[s].copy] =
                              WithTable(@, Head(shell[s].ddl))]
            /\ shell' = [shell EXCEPT ![s].ddl = Tail(@)]
    /\ UNCHANGED <<edition, atPath, registered, made, claimed, seedBounds>>

SeededFile(s) ==
    Inserted(copies[JobOf(s).scenario][shell[s].copy], SeedRows(Given(s).seed))

\* A row that is refused ends the transaction; the schema stays.
InsertRows(s) ==
    /\ Doing(s, "materialize", "insert")
    /\ IF SeededFile(s).bad THEN Fails(s) ELSE StepsTo(s, "commit")
    /\ UNCHANGED <<edition, copies, atPath, registered, made, claimed, seedBounds>>

CommitRows(s) ==
    /\ Doing(s, "materialize", "commit")
    /\ \/ /\ copies' = [copies EXCEPT ![JobOf(s).scenario][shell[s].copy] =
                             SeededFile(s).file]
          /\ StepsTo(s, "bootstrap")
          /\ UNCHANGED seedFaults
       \/ /\ SeedFault
          /\ Fails(s)
          /\ UNCHANGED copies
    /\ UNCHANGED <<edition, atPath, registered, made, claimed, commands>>

\* bootstrap.sh, where there is one, makes the file anew; then "Done" is reported.
BootstrapAndReport(s) ==
    /\ Doing(s, "materialize", "bootstrap")
    /\ LET sc == JobOf(s).scenario IN
        \/ /\ IF Given(s).bootstrap THEN NewFile(sc, BootFile[sc])
              ELSE UNCHANGED <<copies, atPath>>
           /\ made' = [made EXCEPT ![sc] = [copy |-> atPath'[sc], read |-> shell[s].read,
                                            force |-> JobOf(s).force]]
           /\ JobDone(s)
           /\ UNCHANGED seedFaults
        \/ /\ Given(s).bootstrap
           /\ SeedFault
           /\ NewFile(sc, EmptyFile) \/ UNCHANGED <<copies, atPath>>
           /\ Fails(s)
           /\ UNCHANGED made
    /\ UNCHANGED <<edition, registered, claimed, commands>>

DropDatabase(s) ==
    /\ Doing(s, "drop", "next")
    /\ LET sc == JobOf(s).scenario IN
        IF ~HasSqlite(sc) THEN Fails(s) /\ UNCHANGED <<atPath, made>>
        ELSE /\ Unlinked(sc)
             /\ made' = [made EXCEPT ![sc] = NotMade]
             /\ JobDone(s)
    /\ UNCHANGED <<edition, copies, registered, claimed, seedBounds>>

-----------------------------------------------------------------------------
(* register *)

\* The data-service takes the tenant and opens its database, or refuses; a server
\* that is no file may be away.
TenantTaken(s, t, sc, read) ==
    \/ /\ IF IsFile(read, sc) THEN OpenedFile(sc) ELSE UNCHANGED <<copies, atPath>>
       /\ registered' = [registered EXCEPT ![t] =
              [up |-> TRUE, read |-> read,
               copy |-> IF IsFile(read, sc) THEN atPath'[sc] ELSE 0]]
       /\ claimed' = claimed \cup {t}
       /\ JobDone(s)
       /\ UNCHANGED seedFaults
    \/ /\ IF IsFile(read, sc) THEN SeedFault ELSE UNCHANGED seedFaults
       /\ claimed' = claimed \ {t}
       /\ Fails(s)
       /\ UNCHANGED <<copies, atPath, registered>>

PostTenantOnce(s) ==
    /\ Doing(s, "register", "next")
    /\ LET t == JobOf(s).tenant
           sc == JobOf(s).scenario
       IN  /\ sc \in SeedScenarios
           /\ IF registered[t].up
              THEN /\ claimed' = claimed \cup {t} /\ JobDone(s)
                   /\ UNCHANGED <<copies, atPath, registered, seedFaults>>
              ELSE TenantTaken(s, t, sc, edition)
    /\ UNCHANGED <<edition, made, commands>>

PostTenant(s) ==
    /\ Doing(s, "register", "next")
    /\ LET t == JobOf(s).tenant
           sc == JobOf(s).scenario
       IN  IF sc \notin SeedScenarios
           THEN Fails(s) /\ UNCHANGED <<copies, atPath, registered, claimed, seedFaults>>
           ELSE IF registered[t].up
           THEN /\ shell' = [shell EXCEPT ![s].at = "exists", ![s].read = edition]
                /\ UNCHANGED <<copies, atPath, registered, claimed, seedFaults>>
           ELSE TenantTaken(s, t, sc, edition)
    /\ UNCHANGED <<edition, made, commands>>

\* The answer to the DELETE is not looked at.
DeleteTenant(s) ==
    /\ Doing(s, "register", "exists")
    /\ StepsTo(s, "gone")
    /\ \/ /\ registered' = [registered EXCEPT ![JobOf(s).tenant] = NotServed]
          /\ UNCHANGED seedFaults
       \/ SeedFault /\ UNCHANGED registered
    /\ UNCHANGED <<edition, copies, atPath, made, claimed, commands>>

PostAgain(s) ==
    /\ Doing(s, "register", "gone")
    /\ IF registered[JobOf(s).tenant].up
       THEN Fails(s) /\ UNCHANGED <<copies, atPath, registered, claimed, seedFaults>>
       ELSE TenantTaken(s, JobOf(s).tenant, JobOf(s).scenario, shell[s].read)
    /\ UNCHANGED <<edition, made, commands>>

-----------------------------------------------------------------------------
(* The tests *)

\* The data-service reads through a connection it has, or through one it opens now.
Readable(t, sc) == {registered[t].copy, atPath[sc]} \ {0}

CheckTenant(s) ==
    /\ Doing(s, "check", "next")
    /\ LET t == JobOf(s).tenant
           sc == ScenarioMap[t]
       IN  \/ /\ registered[t].up /\ ConfigOf[registered[t].read][sc].entities # <<>>
              /\ \E c \in Readable(t, sc) :
                    /\ \E r \in copies[sc][c].rows : r.table = EntityOf[t]
                    /\ shell' = [shell EXCEPT ![s].jobs = Tail(@), ![s].seen = @ \cup
                                    {[tenant |-> t, copy |-> c, path |-> atPath[sc]]}]
              /\ UNCHANGED seedFaults
           \/ /\ IF registered[t].up /\ \A c \in Readable(t, sc) :
                        \E r \in copies[sc][c].rows : r.table = EntityOf[t]
                 THEN SeedFault ELSE UNCHANGED seedFaults
              /\ Fails(s)
    /\ UNCHANGED <<edition, copies, atPath, registered, made, claimed, commands>>

\* test's own look at tenants and manifests: only a request that cannot be made fails.
ProbeTenant(s) ==
    /\ Doing(s, "probe", "next")
    /\ \/ JobDone(s) /\ UNCHANGED seedFaults
       \/ SeedFault /\ Fails(s)
    /\ UNCHANGED <<edition, copies, atPath, registered, made, claimed, commands>>

\* A chat test only prints what went wrong, and never fails.
ChatTenant(s) ==
    /\ Doing(s, "chat", "next")
    /\ JobDone(s)
    /\ UNCHANGED <<edition, copies, atPath, registered, made, claimed, seedBounds>>

SeedPipelineNext ==
    \/ EditScenarios
    \/ \E s \in Shells :
        \/ \E cmd \in RegisterCommands \cup FileCommands : StartCommand(s, cmd)
        \/ EndCommand(s) \/ InterruptCommand(s)
        \/ BeginMaterialize(s) \/ LoadScenario(s) \/ OpenDatabase(s) \/ ApplyDdl(s)
        \/ InsertRows(s) \/ CommitRows(s) \/ BootstrapAndReport(s) \/ DropDatabase(s)
        \/ PostTenant(s) \/ DeleteTenant(s) \/ PostAgain(s)
        \/ CheckTenant(s) \/ ProbeTenant(s) \/ ChatTenant(s)

SeedPipelineSpec == SeedPipelineInit /\ [][SeedPipelineNext]_seedVars

-----------------------------------------------------------------------------
(* Properties *)

\* No file ever shows two rows of one id, or a row whose parent is missing, however
\* often and from whichever editions it was materialized (apply.py, _build_insert).
FilesAreConsistent ==
    \A sc \in SeedScenarios : \A i \in 1 .. Len(copies[sc]) :
        LET file == copies[sc][i] IN
        /\ \A r, q \in file.rows : r.table = q.table /\ r.id = q.id => r = q
        /\ \A r \in file.rows : RowAccepted(file, r)

\* After "Done" and until the next command on that scenario, the file at the path is
\* what the scenario said: all of it and nothing else when it was forced or
\* bootstrapped, at least a row for each of its ids otherwise (cli.py, materialize).
DoneIsWhole ==
    \A sc \in SeedScenarios : made[sc].copy # 0 =>
        LET whole == Finished(made[sc].read, sc) IN
        /\ atPath[sc] = made[sc].copy
        /\ IF made[sc].force \/ ConfigOf[made[sc].read][sc].bootstrap
           THEN copies[sc][atPath[sc]] = whole
           ELSE \A r \in whole.rows : Has(copies[sc][atPath[sc]], r.table, r.id)

\* An e2e run that reports success has seen rows of every tenant, and one that did
\* all its steps has seen them in the very file it made, not in one a tenant of an
\* earlier registration still held open (cli.py, e2e and register).
PassedWasServed ==
    \A s \in Shells : shell[s].name = "e2e" /\ shell[s].told = "done" =>
        /\ \A t \in ToSet(TestTenants) : \E x \in shell[s].seen : x.tenant = t
        /\ shell[s].whole => \A x \in shell[s].seen : x.copy = x.path

\* A tenant that a register command has reported is registered, unless a command that is
\* recreating it is between its DELETE and its POST, or failed there and said so.
ReportedIsServed ==
    \A t \in claimed :
        \/ registered[t].up
        \/ \E s \in Shells : Doing(s, "register", "gone") /\ JobOf(s).tenant = t

\* What the commands report of files and tenants is so.
SeedIsSound ==
    SeedPipelineTypeOK /\ FilesAreConsistent /\ DoneIsWhole /\ PassedWasServed /\ ReportedIsServed
===============================================================================
