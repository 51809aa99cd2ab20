------------------------------ MODULE MCServices ------------------------------
(* Small instances of the components that share no state with each other.  A
   behaviour exercises one of them, `part`; the others stay where they begin. *)
EXTENDS
    McpClient, ChatSessions, TokenBuckets, RagIndex, LoadLadder, StageRun, RunGuard,
    GatewayScopes, LoadClients, MeasuredRun, BenchRun, Stores, SeedPipeline, MessageChecks, TLC

CONSTANTS
    r1, r2, r3,     \* chat requests
    k1, k2,         \* session keys
    c1, c2,         \* clients
    path            \* of a document

\* Two turns with scopes of their own, which are named for them.
MCScope == [t \in Turns |-> t]

\* Two requests of a direct session from different clients, and a voice message to
\* the agent whose session has the same id.
MCKeyOf == [r \in ChatRequests |-> IF r = r3 THEN k2 ELSE k1]
MCClientOf == [r \in ChatRequests |-> IF r = r2 THEN c2 ELSE c1]
MCBare == [k \in Keys |-> "s"]

MCPolicies == {[rps |-> 1, burst |-> 1], [rps |-> 1, burst |-> 2]}

MCPathOf == [r \in RagRequests |-> path]

MCRungs == <<0, 4, 8>>

MCTurnsOf == (1 :> 2) @@ (2 :> 1)

\* A fixture of exact values and one of lists and absences, with a case of the past.
MCCase ==
    [type |-> "exact_value", wants |-> {24}, bans |-> {}, told |-> {}, refusal |-> FALSE,
     mustCall |-> {"search"}, mustNot |-> {"write"}, least |-> 0, breakdown |-> FALSE,
     maxCalls |-> 2, maxTokens |-> 5, deprecated |-> FALSE]
MCFixtures ==
    <<<<MCCase,
       [MCCase EXCEPT !.type = "count", !.wants = {12}, !.told = {35}, !.breakdown = TRUE],
       [MCCase EXCEPT !.deprecated = TRUE]>>,
     <<[MCCase EXCEPT !.type = "not_found", !.wants = {}, !.bans = {24}, !.refusal = TRUE],
       [MCCase EXCEPT !.type = "list", !.wants = {}, !.least = 2]>>>>

\* What the tools return and the answer says: the fact, a wrong number, one that can be
\* worked out from what was returned, nothing.
MCPayload(tool, kind, has, total) == [tool |-> tool, kind |-> kind, has |-> has, total |-> total]
MCResults ==
    {<< >>,
     <<MCPayload("search", "rows", {12, 3}, 12)>>,
     <<MCPayload("search", "rows", {24}, -1), MCPayload("get", "rows", {24}, -1)>>,
     <<MCPayload("search", "error", {}, -1)>>,
     <<MCPayload("get", "rejected", {}, -1), MCPayload("search", "scalar", {24}, -1)>>,
     <<MCPayload("db_map", "rows", {50}, -1), MCPayload("search", "empty", {}, 0)>>}
MCSampleRuns ==
    [calls : {<<"search">>}, badEntity : {FALSE}, results : MCResults,
     says : {{}, {12}, {24}, {24, 35}, {12, 35}, {60}}, worked : {{}},
     marks : {{}, {"refuses"}, {"unsure"}}, errors : {FALSE}]
    \cup [calls : {<< >>, <<"get", "write">>, <<"search", "search", "get">>},
          badEntity : {FALSE}, results : {<< >>, <<MCPayload("search", "rows", {24}, -1)>>},
          says : {{}, {24}, {24, 35}}, worked : {{}}, marks : {{}, {"refuses"}},
          errors : {FALSE}]
    \cup [calls : {<<"search">>}, badEntity : BOOLEAN,
          results : {<<MCPayload("search", "rows", {24}, -1)>>},
          says : {{24, 35}}, worked : {{35}}, marks : {{}}, errors : BOOLEAN]

\* SeedPipeline: a scenario of another driver, one with a bootstrap script, and one
\* with a seed, which the author moves a student in, adds grades to, or breaks.
MCTestTenants == <<"default", "shop">>
MCScenarios   == <<"postgres", "shop", "testseed">>
MCScenarioMap == [default |-> "testseed", shop |-> "shop"]
MCEntityOf    == [default |-> "students", shop |-> "products"]

MCEntity(table, fields, rels) == [table |-> table, fields |-> fields, relations |-> rels]
MCRelation(kind, local, table) == [kind |-> kind, local |-> local, table |-> table]
MCRow(table, id, parents) ==
    [table |-> table, id |-> id, cols |-> {"id"} \cup DOMAIN parents, parents |-> parents]

MCGroups   == MCEntity("groups", {"id"}, {MCRelation("one_to_many", "id", "students")})
MCStudents == MCEntity("students", {"id", "group"},
                       {MCRelation("many_to_one", "group", "groups")})
MCGrades   == MCEntity("grades", {"id", "student"},
                       {MCRelation("many_to_one", "student", "students")})
MCGroupRow(id)      == MCRow("groups", id, <<>>)
MCStudentRow(id, g) == MCRow("students", id, [group |-> g])
MCGradeRow(id, s)   == MCRow("grades", id, [student |-> s])

MCScenario(driver, entities, seed, bootstrap) ==
    [driver |-> driver, entities |-> entities, seed |-> seed, bootstrap |-> bootstrap]

MCTestSeed(e) ==
    CASE e = "first" -> MCScenario("sqlite", <<MCStudents, MCGroups>>,
            [students |-> <<MCStudentRow("s1", "g1")>>, groups |-> <<MCGroupRow("g1")>>],
            FALSE)
      [] e = "second" -> MCScenario("sqlite", <<MCStudents, MCGroups, MCGrades>>,
            [students |-> <<MCStudentRow("s1", "g2"), MCStudentRow("s2", "g2")>>,
             groups |-> <<MCGroupRow("g2")>>, grades |-> <<MCGradeRow("m1", "s1")>>],
            FALSE)
      [] e = "broken" -> MCScenario("sqlite", <<MCStudents, MCGroups>>,
            [students |-> <<MCStudentRow("s3", "g9")>>, groups |-> <<MCGroupRow("g1")>>],
            FALSE)

MCConfigOf == [e \in {"first", "second", "broken"} |->
    [postgres |-> MCScenario("postgres", <<MCGroups>>, <<>>, FALSE),
     shop     |-> MCScenario("sqlite", <<MCEntity("products", {"id"}, {})>>, <<>>, TRUE),
     testseed |-> MCTestSeed(e)]]

MCBootFile == [shop |->
    [tables |-> [products |-> [cols |-> {"id"}, refs |-> {}]],
     rows |-> {MCRow("products", "p1", <<>>)}]]

\* MessageChecks: the same text twice, and the sessions the messages may come from.
MCTextOf == [m1 |-> "a", m2 |-> "a", m3 |-> "b"]
MCChatIdOf(a, b, c) == [m1 |-> a, m2 |-> b, m3 |-> c]

-----------------------------------------------------------------------------
VARIABLE part

Parts == {"scopes", "chat", "buckets", "rag", "ladder", "stage", "guard", "handlers",
          "chat turns", "tool turns", "measured run", "bench", "agents", "policy",
          "seed", "messages"}

servicesVars ==
    <<vars, chatVars, bucketVars, ragVars, ladderVars, stageVars, guardVars, scopeVars,
      chatTurnVars, toolTurnVars, measuredRunVars, benchRunVars, agentVars, policyVars,
      seedVars, messageVars, part>>

\* What an initial state may choose is chosen only for the part that runs.
ServicesInit ==
    /\ part \in Parts
    /\ BucketInit /\ (part # "buckets" => ~shared)
    /\ Init /\ ChatInit /\ RagInit
    /\ LadderInit /\ StageInit /\ GuardInit /\ ScopesInit
    /\ ChatTurnsInit
    /\ ToolTurnsInit
    /\ MeasuredRunInit
    /\ BenchRunInit
    /\ part # "bench" => benchLock = "free" /\ fixture = 1
    /\ AgentStoreInit
    /\ part # "agents" => \A n \in AgentNames : agents[n] = NoRow
    /\ \A n \in AgentNames :
         agents[n].llm \in {NoValue, Encrypt("e1", "s1"), Encrypt(NoCipher, "s1")}
    /\ AbusePolicyInit
    /\ part # "policy" => workersOn = ApiWorkers
    /\ SeedPipelineInit
    /\ atPath["shop"] = IF part = "seed" THEN 1 ELSE 0
    /\ MessageChecksInit
    /\ \/ part = "messages" /\ currentChecker = 1
          /\ chatIdOf \in {MCChatIdOf("k1", "k2", "k3"), MCChatIdOf("k1", "k1", "k2")}
       \/ currentChecker = 0 /\ chatIdOf = MCChatIdOf("k1", "k1", "k1")

\* What a step of part p leaves alone.
Others(p) ==
    /\ part = p
    /\ UNCHANGED part
    /\ p # "scopes" => UNCHANGED vars
    /\ p # "chat" => UNCHANGED chatVars
    /\ p # "buckets" => UNCHANGED bucketVars
    /\ p # "rag" => UNCHANGED ragVars
    /\ p # "ladder" => UNCHANGED ladderVars
    /\ p # "stage" => UNCHANGED stageVars
    /\ p # "guard" => UNCHANGED guardVars
    /\ p # "handlers" => UNCHANGED scopeVars
    /\ p # "chat turns" => UNCHANGED chatTurnVars
    /\ p # "tool turns" => UNCHANGED toolTurnVars
    /\ p # "measured run" => UNCHANGED measuredRunVars
    /\ p # "bench" => UNCHANGED benchRunVars
    /\ p # "agents" => UNCHANGED agentVars
    /\ p # "policy" => UNCHANGED policyVars
    /\ p # "seed" => UNCHANGED seedVars
    /\ p # "messages" => UNCHANGED messageVars

ClientStep == Others("scopes") /\ Next
ChatsStep == Others("chat") /\ ChatNext
BucketsStep == Others("buckets") /\ BucketNext
RagStep == Others("rag") /\ RagNext
LadderStep == Others("ladder") /\ LadderNext
StagesStep == Others("stage") /\ StageNext
GuardStep == Others("guard") /\ GuardNext
HandlersStep == Others("handlers") /\ ScopesNext
ChatTurnsStep == Others("chat turns") /\ ChatTurnsNext
ToolTurnsStep == Others("tool turns") /\ ToolTurnsNext
MeasuredRunStep == Others("measured run") /\ MeasuredRunNext
BenchRunStep == Others("bench") /\ BenchRunNext
AgentStoreStep == Others("agents") /\ AgentStoreNext
AbusePolicyStep == Others("policy") /\ AbusePolicyNext
SeedStep == Others("seed") /\ SeedPipelineNext
MessagesStep == Others("messages") /\ MessageChecksNext

ServicesNext ==
    \/ ClientStep \/ ChatsStep \/ BucketsStep
    \/ RagStep \/ LadderStep \/ StagesStep \/ GuardStep \/ HandlersStep
    \/ ChatTurnsStep
    \/ ToolTurnsStep
    \/ MeasuredRunStep
    \/ BenchRunStep
    \/ AgentStoreStep
    \/ AbusePolicyStep
    \/ SeedStep
    \/ MessagesStep

ServicesSpec == ServicesInit /\ [][ServicesNext]_servicesVars
=============================================================================
