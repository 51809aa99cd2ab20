---------------------------- MODULE MCAgentService ----------------------------
(* Small instances of the modules of the agent service.  A behaviour exercises one of
   them, `part`; the others stay where they begin. *)
EXTENDS
    MCAgentLoop, ProviderPool, TurnEvidence, Completions

CONSTANTS
    p1, p2,         \* providers
    u1, u2          \* upstreams

MCEnvProviders == <<p1, p2>>
MCEnvUpstream == p1 :> u1 @@ p2 :> u2

MCBase == [throttled |-> 2, transient |-> 1]

\* TurnEvidence: two sessions whose names _path takes for the same file.
MCCompletionsOf == [t1 |-> 1, t2 |-> 0]
MCSessionOf == [t1 |-> "a_b", t2 |-> "a:b"]
MCBacklogPath == [s \in {"a_b", "a:b"} |-> "f"]

\* CompletionWire: the policy of litellm_compatibility.py that does all it can, a model
\* without one that the registry denies function calling, and the direct transport.
MCRoutes ==
    {[transport |-> "litellm", keep |-> TRUE, parse |-> TRUE, registry |-> "raises"],
     [transport |-> "litellm", keep |-> FALSE, parse |-> FALSE, registry |-> "no"],
     [transport |-> "direct", keep |-> FALSE, parse |-> FALSE, registry |-> "raises"]}
MCWireCalls ==
    {[id |-> "native", args |-> "object"], [id |-> "native", args |-> "text"],
     [id |-> "missing", args |-> "text"], [id |-> "native", args |-> "broken"]}

\* VoiceInput: a chain of both kinds, one that stops at the first failure and has a
\* provider switched off, and none.
MCProvider(kind, on) == [kind |-> kind, enabled |-> on]
MCVoiceConfigs ==
    {[enabled |-> TRUE, fallback |-> TRUE,
      providers |-> <<MCProvider("local", TRUE), MCProvider("litellm", TRUE)>>],
     [enabled |-> TRUE, fallback |-> FALSE,
      providers |-> <<MCProvider("litellm", FALSE), MCProvider("local", TRUE),
                      MCProvider("local", TRUE)>>],
     [enabled |-> FALSE, fallback |-> TRUE, providers |-> <<>>]}
MCAgentVoices ==
    {[enabled |-> "unset", fallback |-> "on", inputDisabled |-> FALSE],
     [enabled |-> "on", fallback |-> "unset", inputDisabled |-> TRUE]}

\* SpendingReport: a turn of one tenant, and one of both.
MCTenantIds == [q1 |-> <<"shop">>, q2 |-> <<"shop", "bank">>]
MCReportCalls == [q1 |-> 2, q2 |-> 1]

-----------------------------------------------------------------------------
VARIABLE part

Parts == {"loop", "pool", "retry", "evidence", "wire", "voice", "report"}

serviceVars ==
    <<vars, poolVars, retryVars, evidenceVars, wireVars, voiceVars, reportVars, part>>

\* What an initial state may choose is chosen only for the part that runs.
ServiceInit ==
    /\ part \in Parts
    /\ Init
    /\ part # "loop" => default = Unlimited
    /\ PoolInit
    /\ RetryInit
    /\ TurnEvidenceInit
    /\ part # "evidence" => backlogMode = "full"
    /\ CompletionWireInit
    /\ part # "wire" => route.transport = "direct"
    /\ VoiceInputInit
    /\ part # "voice" => ~voiceConfig.enabled /\ ~voiceAgent.there
    /\ SpendingReportInit
    /\ \/ part = "report" /\ reserving /\ workerOf = [q1 |-> "w1", q2 |-> "w2"]
       \/ ~reserving /\ workerOf = [q1 |-> "w1", q2 |-> "w1"]

\* What a step of part p leaves alone.
Others(p) ==
    /\ part = p
    /\ UNCHANGED part
    /\ p # "loop" => UNCHANGED vars
    /\ p # "pool" => UNCHANGED poolVars
    /\ p # "retry" => UNCHANGED retryVars
    /\ p # "evidence" => UNCHANGED evidenceVars
    /\ p # "wire" => UNCHANGED wireVars
    /\ p # "voice" => UNCHANGED voiceVars
    /\ p # "report" => UNCHANGED reportVars

LoopStep == Others("loop") /\ Next
PoolStep == Others("pool") /\ PoolNext
RetryStep == Others("retry") /\ RetryNext
EvidenceStep == Others("evidence") /\ TurnEvidenceNext
WireStep == Others("wire") /\ CompletionWireNext
VoiceStep == Others("voice") /\ VoiceInputNext
ReportStep == Others("report") /\ SpendingReportNext

ServiceNext ==
    LoopStep \/ PoolStep \/ RetryStep \/ EvidenceStep \/ WireStep \/ VoiceStep \/ ReportStep

ServiceSpec == ServiceInit /\ [][ServiceNext]_serviceVars
=============================================================================
