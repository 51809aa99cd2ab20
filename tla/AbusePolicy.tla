----------------------------- MODULE AbusePolicy -----------------------------
(***************************************************************************)
(* The abuse policy between the admin-dashboard (internal/server/abuse.go) *)
(* and the worker processes of the api-service (abuse_live.py and the      *)
(* routes of server/routes/admin.py).                                      *)
(*                                                                         *)
(* The dashboard keeps the policy in memory and in a file, asks the        *)
(* api-service to reload the file, and puts back what it had when that is  *)
(* not acknowledged.  A worker loads the file when it is first asked, keeps *)
(* the enforcers it built per agent, and applies the runtime part of the   *)
(* policy to its settings.  The api-service has an endpoint that writes    *)
(* the file itself.  A write truncates the file before it fills it.        *)
(***************************************************************************)
EXTENDS Naturals, FiniteSets

CONSTANTS
    PolicyValues,   \* policies an administrator may choose
    EnvPolicy,      \* the one of the environment
    Requests,       \* handlers of the dashboard that run at a time
    ApiWorkers,
    Nothing,        \* no such thing
    MaxSaves        \* bound: requests that save a policy

ASSUME AbusePolicyAssumption ==
    /\ EnvPolicy \in PolicyValues /\ Nothing \notin PolicyValues \cup Requests
    /\ IsFiniteSet(ApiWorkers) /\ MaxSaves \in Nat

VARIABLES
    policyFile,  \* abuse_config.json
    dashUp,
    dashPolicy,  \* AbuseStore.config
    writer,      \* the handler inside AbuseStore.Set, which holds its mutex
    saving,      \* each handler of the dashboard: where it is, its policy, the previous one
    workersOn,   \* settings.api_workers: the processes of the api-service
    api,         \* each of them
    saves,       \* requests so far
    upsets       \* history: what kept file and processes from being told alike

policyVars == <<policyFile, dashUp, dashPolicy, writer, saving, workersOn, api, saves, upsets>>

-----------------------------------------------------------------------------
Contents(p, by) == [policy |-> p, by |-> by]
NoFile == Contents(Nothing, "nobody")
HalfFile   == Contents(Nothing, "a writer")

PolicyFiles ==
    {NoFile, HalfFile} \cup {Contents(p, by) : p \in PolicyValues, by \in {"dash", "api"}}

\* The api-service falls back on the environment when there is no file.
Loadable     == policyFile # HalfFile
FilePolicy   == IF policyFile = NoFile THEN EnvPolicy ELSE policyFile.policy

\* The api-service writes max_repeated_count, a field the dashboard does not know: its
\* strict decoder panics on it as it does on half a file.
DashReadable == Loadable /\ policyFile.by # "api"

NoSave   == [at |-> "none", new |-> Nothing, previous |-> Nothing]
NewWorker    == [up |-> FALSE, loaded |-> Nothing, live |-> EnvPolicy, cached |-> Nothing,
             save |-> "none", wants |-> Nothing]
NobodySaves    == /\ \A h \in Requests : saving[h] = NoSave
            /\ \A w \in workersOn : api[w].save = "none"

-----------------------------------------------------------------------------
\* abuseSettingsPutHandler and abusePresetHandler: what to go back to, AbuseStore.Set,
\* applyAbuseConfig, and Set again when the reload is not acknowledged.
BeginPut(h, p) ==
    /\ dashUp /\ saving[h] = NoSave /\ writer = Nothing /\ saves < MaxSaves
    /\ saving' = [saving EXCEPT ![h] = [at |-> "set", new |-> p, previous |-> dashPolicy]]
    /\ saves' = saves + 1
    /\ upsets' = IF \E g \in Requests : saving[g] # NoSave THEN upsets \cup {"overlap"}
                 ELSE upsets
    /\ UNCHANGED <<policyFile, dashUp, dashPolicy, writer, workersOn, api>>

Truncate(h) ==
    /\ saving[h].at \in {"set", "put back"} /\ writer = Nothing
    /\ writer' = h
    /\ dashPolicy' = IF saving[h].at = "set" THEN saving[h].new ELSE saving[h].previous
    /\ policyFile' = HalfFile
    /\ UNCHANGED <<dashUp, saving, workersOn, api, saves, upsets>>

Fill(h) ==
    /\ writer = h
    /\ policyFile' = Contents(dashPolicy, "dash")
    /\ writer' = Nothing
    /\ saving' = [saving EXCEPT ![h] = IF @.at = "set" THEN [@ EXCEPT !.at = "apply"]
                                       ELSE NoSave]
    /\ UNCHANGED <<dashUp, dashPolicy, workersOn, api, saves, upsets>>

\* The write fails: the policy stays in memory, and the answer is 500 or, when it was to
\* be put back, a line in the log.
FillFails(h) ==
    /\ writer = h
    /\ writer' = Nothing
    /\ saving' = [saving EXCEPT ![h] = NoSave]
    /\ upsets' = upsets \cup {"failed write"}
    /\ UNCHANGED <<policyFile, dashUp, dashPolicy, workersOn, api, saves>>

\* reload and apply_runtime_settings in one worker: the enforcers of agents are forgotten.
Reloaded(worker) ==
    [worker EXCEPT !.loaded = FilePolicy, !.live = FilePolicy, !.cached = Nothing]

\* The 200 reaches the dashboard, or comes after its ten seconds.
Apply(h, w) ==
    /\ saving[h].at = "apply" /\ api[w].up /\ api[w].save = "none" /\ Loadable
    /\ api' = [api EXCEPT ![w] = Reloaded(@)]
    /\ \/ /\ saving' = [saving EXCEPT ![h] = NoSave]
          /\ UNCHANGED upsets
       \/ /\ saving' = [saving EXCEPT ![h].at = "put back"]
          /\ upsets' = upsets \cup {"late answer"}
    /\ UNCHANGED <<policyFile, dashUp, dashPolicy, writer, workersOn, saves>>

\* Nobody answers, or the file is not what it should be: 422.
NotPutBack(h)  == [saving EXCEPT ![h] = NoSave]
PuttingBack(h) == [saving EXCEPT ![h].at = "put back"]

ApplyFails(h) ==
    /\ saving[h].at = "apply"
    /\ saving' = PuttingBack(h)
    /\ UNCHANGED <<policyFile, dashUp, dashPolicy, writer, workersOn, api, saves, upsets>>

DashCrash ==
    /\ dashUp
    /\ dashUp' = FALSE /\ writer' = Nothing
    /\ saving' = [h \in Requests |-> NoSave]
    /\ upsets' = IF \E h \in Requests : saving[h] # NoSave THEN upsets \cup {"crash"}
                 ELSE upsets
    /\ UNCHANGED <<policyFile, dashPolicy, workersOn, api, saves>>

DashStart ==
    /\ ~dashUp /\ DashReadable
    /\ dashUp' = TRUE
    /\ dashPolicy' = FilePolicy
    /\ UNCHANGED <<policyFile, writer, saving, workersOn, api, saves, upsets>>

-----------------------------------------------------------------------------
\* A worker that loads a policy which is not acknowledged yet keeps it when that is put
\* back, and one that starts on half a file has the settings of the environment.
LoadsEarly ==
    upsets' = IF ~Loadable \/ \E h \in Requests : saving[h].at \in {"apply", "put back"}
              THEN upsets \cup {"early load"} ELSE upsets

\* main() loads the policy and applies its runtime part in the process it runs in: that is
\* the server when there is one worker, and their parent when there are several.
StartWorker(w) ==
    /\ ~api[w].up
    /\ api' = [api EXCEPT ![w] =
                 [(IF Cardinality(workersOn) = 1 /\ Loadable THEN Reloaded(NewWorker) ELSE NewWorker)
                  EXCEPT !.up = TRUE]]
    /\ LoadsEarly
    /\ UNCHANGED <<policyFile, dashUp, dashPolicy, writer, saving, workersOn, saves>>

CrashWorker(w) ==
    /\ api[w].up
    /\ api' = [api EXCEPT ![w] = NewWorker]
    /\ upsets' = IF api[w].save = "none" THEN upsets ELSE upsets \cup {"crash"}
    /\ UNCHANGED <<policyFile, dashUp, dashPolicy, writer, saving, workersOn, saves>>

\* get_instance and get_enforcers: a chat request of an agent that overrides the policy.
Enforcing(worker) ==
    LET now == IF worker.loaded = Nothing THEN FilePolicy ELSE worker.loaded
    IN [worker EXCEPT !.loaded = now, !.cached = IF @ = Nothing THEN now ELSE @]

GetEnforcers(w) ==
    /\ api[w].up /\ api[w].save = "none"
    /\ api[w].loaded = Nothing => Loadable
    /\ api' = [api EXCEPT ![w] = Enforcing(@)]
    /\ IF api[w].loaded = Nothing THEN LoadsEarly ELSE UNCHANGED upsets
    /\ UNCHANGED <<policyFile, dashUp, dashPolicy, writer, saving, workersOn, saves>>

\* save_config of the api-service: validated fields over the policy it has, the file, a
\* reload.  The worker does nothing else meanwhile; the dashboard does.
SaveConfig(w, p) ==
    /\ api[w].up /\ api[w].save = "none" /\ saves < MaxSaves
    /\ api[w].loaded # Nothing \/ Loadable
    /\ policyFile' = HalfFile
    /\ api' = [api EXCEPT ![w].save = "fill", ![w].wants = p]
    /\ saves' = saves + 1
    /\ upsets' = upsets \cup {"api save"}
    /\ UNCHANGED <<dashUp, dashPolicy, writer, saving, workersOn>>

FillConfig(w) ==
    /\ api[w].save = "fill"
    /\ policyFile' = Contents(api[w].wants, "api")
    /\ api' = [api EXCEPT ![w].save = "reload"]
    /\ UNCHANGED <<dashUp, dashPolicy, writer, saving, workersOn, saves, upsets>>

ReloadConfig(w) ==
    /\ api[w].save = "reload"
    /\ api' = [api EXCEPT ![w] = [(IF Loadable THEN Reloaded(@) ELSE @)
                                  EXCEPT !.save = "none", !.wants = Nothing]]
    /\ UNCHANGED <<policyFile, dashUp, dashPolicy, writer, saving, workersOn, saves, upsets>>

\* abuseReloadHandler: a reload without a save.
AskReload(w) ==
    /\ dashUp /\ api[w].up /\ api[w].save = "none" /\ Loadable
    /\ api' = [api EXCEPT ![w] = Reloaded(@)]
    /\ LoadsEarly
    /\ UNCHANGED <<policyFile, dashUp, dashPolicy, writer, saving, workersOn, saves>>

-----------------------------------------------------------------------------
AbusePolicyInit ==
    /\ policyFile = NoFile
    /\ dashUp = TRUE /\ dashPolicy = EnvPolicy
    /\ writer = Nothing /\ saving = [h \in Requests |-> NoSave]
    /\ workersOn \in SUBSET ApiWorkers \ {{}}
    /\ api = [w \in ApiWorkers |-> NewWorker]
    /\ saves = 0 /\ upsets = {}

AbusePolicyNext ==
    \/ DashCrash \/ DashStart
    \/ \E h \in Requests :
          \/ \E p \in PolicyValues : BeginPut(h, p)
          \/ Truncate(h) \/ Fill(h) \/ FillFails(h) \/ ApplyFails(h)
          \/ \E w \in workersOn : Apply(h, w)
    \/ \E w \in workersOn :
          \/ StartWorker(w) \/ CrashWorker(w) \/ GetEnforcers(w)
          \/ \E p \in PolicyValues : SaveConfig(w, p)
          \/ FillConfig(w) \/ ReloadConfig(w) \/ AskReload(w)

AbusePolicySpec == AbusePolicyInit /\ [][AbusePolicyNext]_policyVars

-----------------------------------------------------------------------------
AbusePolicyTypeOK ==
    /\ policyFile \in PolicyFiles
    /\ dashUp \in BOOLEAN /\ dashPolicy \in PolicyValues
    /\ writer \in Requests \cup {Nothing}
    /\ \A h \in Requests : saving[h].at \in {"none", "set", "apply", "put back"}
    /\ \A w \in ApiWorkers : /\ api[w].loaded \in PolicyValues \cup {Nothing}
                             /\ api[w].live \in PolicyValues
    /\ saves \in 0..MaxSaves

\* When nobody is saving and nothing upset the exchange, the dashboard's memory and the
\* only worker agree with the file, on limits and on runtime settings alike.
ToldAlike ==
    NobodySaves /\ upsets = {} =>
        /\ dashUp => dashPolicy = FilePolicy
        /\ Cardinality(workersOn) = 1 => \A w \in workersOn :
             /\ api[w].loaded \in {Nothing, FilePolicy}
             /\ api[w].up => api[w].live = FilePolicy

\* The dashboard can start again, unless the api-service wrote the file or a write was cut.
CanStartAgain ==
    writer = Nothing /\ upsets \subseteq {"overlap", "late answer", "early load"} => DashReadable

\* An agent is never judged by enforcers of a policy its worker no longer has.
EnforcersAreCurrent == \A w \in ApiWorkers : api[w].cached \in {Nothing, api[w].loaded}

\* What the dashboard calls applied is what the api-service enforces and what both find
\* after a restart.
PolicyIsApplied == ToldAlike /\ CanStartAgain /\ EnforcersAreCurrent
=============================================================================
