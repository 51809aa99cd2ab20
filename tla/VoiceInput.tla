----------------------------- MODULE VoiceInput -----------------------------
(***************************************************************************)
(* Voice messages of the api-service (audio/stt_engine.py,                 *)
(* audio/voice_config.py and the preamble of chat_voice_endpoint in        *)
(* server/routes/chat.py).  A request looks up its agent, resolves the     *)
(* voice configuration, has the recording transcribed by the providers of  *)
(* that configuration in their order, passes the gates of a chat request   *)
(* and becomes a turn.  The administrator may change the configuration and *)
(* the agent meanwhile, at most MaxVoiceChanges times.  A local provider   *)
(* works on a temporary file in a process of its own.                      *)
(***************************************************************************)
EXTENDS Naturals, Sequences, Selections

CONSTANTS
    VoiceRequests,
    VoiceConfigs,       \* what PUT /api/voice-config may save
    AgentVoices,        \* what an agent may override
    AgentScopes,        \* what tenants an agent may be given
    DirectScope,        \* direct_chat_scope
    MaxVoiceChanges

VoiceProviders == [kind : {"litellm", "local"}, enabled : BOOLEAN]
VoiceSettings == [enabled : BOOLEAN, fallback : BOOLEAN, providers : Seq(VoiceProviders)]
VoiceOverrides ==
    [enabled : {"unset", "on", "off"}, fallback : {"unset", "on", "off"}, inputDisabled : BOOLEAN]

ASSUME VoiceInputAssumption ==
    /\ MaxVoiceChanges \in Nat
    /\ DirectScope \notin AgentScopes
    /\ VoiceConfigs \subseteq VoiceSettings /\ AgentVoices \subseteq VoiceOverrides

VARIABLES
    voiceConfig,        \* of the global_config table
    voiceAgent,         \* the row of the one agent requests may name
    voice,              \* what is known of each request
    recordings,         \* the requests whose temporary file exists
    transcribers,       \* the requests of which a transcriber's process runs
    voiceChanges

voiceVars == <<voiceConfig, voiceAgent, voice, recordings, transcribers, voiceChanges>>

NoAgent == [there |-> FALSE]
VoiceAgentRows ==
    {NoAgent} \cup [there : {TRUE}, scope : AgentScopes, override : AgentVoices]

Unresolved == [enabled |-> FALSE, fallback |-> FALSE, providers |-> <<>>]

-----------------------------------------------------------------------------
\* resolve_voice_config: the agent's word over the global one, "unset" for none.
Override(given, by) == IF by = "unset" THEN given ELSE by = "on"

ResolveVoice(config, row) ==
    IF ~row.there THEN config
    ELSE [config EXCEPT !.enabled = Override(@, row.override.enabled)
                                      /\ ~row.override.inputDisabled,
                        !.fallback = Override(@, row.override.fallback)]

\* build_stt_providers: those that are enabled and of a kind it knows.
BuildProviders(config) ==
    LET p == config.providers
    IN  SelectAt(p, {i \in DOMAIN p : p[i].enabled /\ p[i].kind \in {"litellm", "local"}})

VoiceInputInit ==
    /\ voiceConfig \in VoiceConfigs
    /\ voiceAgent \in VoiceAgentRows
    /\ voice = [r \in VoiceRequests |->
          [at |-> "new", row |-> NoAgent, named |-> FALSE, config |-> Unresolved,
           failed |-> 0, timedOut |-> FALSE, unwritten |-> FALSE, scope |-> {}]]
    /\ recordings = {}
    /\ transcribers = {}
    /\ voiceChanges = 0

VoiceInputTypeOK ==
    /\ voiceConfig \in VoiceConfigs
    /\ voiceAgent \in VoiceAgentRows
    /\ \A r \in VoiceRequests :
          /\ voice[r].at \in {"new", "known", "trying", "recorded", "running",
                              "heard", "turn", "refused"}
          /\ voice[r].failed \in 0 .. Len(voice[r].config.providers)
    /\ recordings \subseteq VoiceRequests
    /\ transcribers \subseteq VoiceRequests
    /\ voiceChanges \in 0 .. MaxVoiceChanges

VoiceAt(r, at) == voice[r].at = at
VoiceGoes(r, at) == voice' = [voice EXCEPT ![r].at = at]
Chain(r) == BuildProviders(voice[r].config)
Provider(r) == Chain(r)[voice[r].failed + 1]

-----------------------------------------------------------------------------
(* The request *)

\* A named agent must exist; its row is read once, in a thread.
VoiceArrives(r) ==
    /\ VoiceAt(r, "new")
    /\ \E named \in BOOLEAN :
          voice' = [voice EXCEPT
              ![r].named = named,
              ![r].row = IF named THEN voiceAgent ELSE NoAgent,
              ![r].at = IF named /\ ~voiceAgent.there THEN "refused" ELSE "known"]
    /\ UNCHANGED <<voiceConfig, voiceAgent, recordings, transcribers, voiceChanges>>

\* The global switch first, then the size, then what the agent makes of it.  A chain
\* with no enabled provider fails as if all had.
ConfigureVoice(r) ==
    /\ VoiceAt(r, "known")
    /\ LET resolved == ResolveVoice(voiceConfig, voice[r].row) IN
       \/ /\ voiceConfig.enabled /\ resolved.enabled
          /\ BuildProviders(resolved) # <<>>
          /\ voice' = [voice EXCEPT ![r].at = "trying", ![r].config = resolved]
       \/ VoiceGoes(r, "refused")
    /\ UNCHANGED <<voiceConfig, voiceAgent, recordings, transcribers, voiceChanges>>

\* STTEngine.transcribe: an exception of a provider ends it, or the next one is tried.
NextProvider(r, timedOut, unwritten) ==
    voice' = [voice EXCEPT
        ![r].failed = @ + 1,
        ![r].timedOut = @ \/ timedOut,
        ![r].unwritten = @ \/ unwritten,
        ![r].at = IF voice[r].config.fallback /\ voice[r].failed + 1 < Len(Chain(r))
                  THEN "trying" ELSE "refused"]

\* Silence is no failure: the first transcript there is counts, and an empty one is
\* answered with "No speech detected".
Transcribed(r) == \E speech \in BOOLEAN : VoiceGoes(r, IF speech THEN "heard" ELSE "refused")

TranscribeRemotely(r) ==
    /\ VoiceAt(r, "trying") /\ Provider(r).kind = "litellm"
    /\ Transcribed(r) \/ NextProvider(r, FALSE, FALSE)
    /\ UNCHANGED <<voiceConfig, voiceAgent, recordings, transcribers, voiceChanges>>

\* The temporary file is written outside the try that removes it.
WriteRecording(r) ==
    /\ VoiceAt(r, "trying") /\ Provider(r).kind = "local"
    /\ recordings' = recordings \cup {r}
    /\ VoiceGoes(r, "recorded") \/ NextProvider(r, FALSE, TRUE)
    /\ UNCHANGED <<voiceConfig, voiceAgent, transcribers, voiceChanges>>

StartTranscriber(r) ==
    /\ VoiceAt(r, "recorded")
    /\ \/ /\ VoiceGoes(r, "running")
          /\ transcribers' = transcribers \cup {r}
          /\ UNCHANGED recordings
       \/ /\ NextProvider(r, FALSE, FALSE)
          /\ recordings' = recordings \ {r}
          /\ UNCHANGED transcribers
    /\ UNCHANGED <<voiceConfig, voiceAgent, voiceChanges>>

\* It ends with a transcript or an exit code; after 120 s it is left to run by itself.
TranscriberAnswers(r) ==
    /\ VoiceAt(r, "running")
    /\ recordings' = recordings \ {r}
    /\ \/ /\ r \in transcribers
          /\ transcribers' = transcribers \ {r}
          /\ Transcribed(r) \/ NextProvider(r, FALSE, FALSE)
       \/ /\ NextProvider(r, TRUE, FALSE)
          /\ UNCHANGED transcribers
    /\ UNCHANGED <<voiceConfig, voiceAgent, voiceChanges>>

\* One that was given up ends at last.
TranscriberEnds(r) ==
    /\ r \in transcribers /\ voice[r].timedOut /\ ~VoiceAt(r, "running")
    /\ transcribers' = transcribers \ {r}
    /\ UNCHANGED <<voiceConfig, voiceAgent, voice, recordings, voiceChanges>>

\* The session's token and the anti-abuse gate, then the turn in the scope of the row
\* that was read before the recording was transcribed.
StartVoiceTurn(r) ==
    /\ VoiceAt(r, "heard")
    /\ \/ voice' = [voice EXCEPT ![r].at = "turn",
                 ![r].scope = IF voice[r].row.there THEN voice[r].row.scope ELSE DirectScope]
       \/ VoiceGoes(r, "refused")
    /\ UNCHANGED <<voiceConfig, voiceAgent, recordings, transcribers, voiceChanges>>

-----------------------------------------------------------------------------
(* The administrator *)

ChangeVoice ==
    /\ voiceChanges < MaxVoiceChanges
    /\ voiceChanges' = voiceChanges + 1
    /\ \/ voiceConfig' \in VoiceConfigs /\ UNCHANGED voiceAgent
       \/ voiceAgent' \in VoiceAgentRows /\ UNCHANGED voiceConfig
    /\ UNCHANGED <<voice, recordings, transcribers>>

VoiceInputNext ==
    \/ ChangeVoice
    \/ \E r \in VoiceRequests :
        \/ VoiceArrives(r) \/ ConfigureVoice(r) \/ TranscribeRemotely(r)
        \/ WriteRecording(r) \/ StartTranscriber(r) \/ TranscriberAnswers(r)
        \/ TranscriberEnds(r) \/ StartVoiceTurn(r)

VoiceInputSpec == VoiceInputInit /\ [][VoiceInputNext]_voiceVars

-----------------------------------------------------------------------------
(* Properties *)

\* A request that names an agent is never answered in the scope of direct chat, nor
\* one without in an agent's, even when the agent is deleted or changed while its
\* recording is transcribed ("would silently downgrade", chat.py:446-447).
ScopeIsTheAgents ==
    \A r \in VoiceRequests : VoiceAt(r, "turn") =>
        IF voice[r].named THEN voice[r].scope \in AgentScopes
        ELSE voice[r].scope = DirectScope

\* A turn comes of a configuration that allowed voice, for the agent too, and of its
\* first provider alone where fallback was off; a provider that is switched off is
\* never asked (stt_engine.py:214-221, voice_config.py:62-64, :111-116).
OnlyAllowedProviders ==
    \A r \in VoiceRequests :
        /\ voice[r].at \in {"trying", "recorded", "running", "heard", "turn"} =>
              /\ voice[r].config.enabled
              /\ voice[r].row.there => ~voice[r].row.override.inputDisabled
              /\ voice[r].failed < Len(Chain(r)) /\ Provider(r).enabled
        /\ voice[r].failed > 1 => voice[r].config.fallback

\* A recording stays on disk only while a local provider works on it, or when writing
\* it failed; a process runs on only when it was given up after its time.
NothingIsLeft ==
    \A r \in VoiceRequests :
        /\ r \in recordings => VoiceAt(r, "recorded") \/ VoiceAt(r, "running")
                               \/ voice[r].unwritten
        /\ r \in transcribers => VoiceAt(r, "running") \/ voice[r].timedOut

\* A voice message is a chat request of the agent it names, and leaves nothing behind.
VoiceIsSound == ScopeIsTheAgents /\ OnlyAllowedProviders /\ NothingIsLeft
===============================================================================
