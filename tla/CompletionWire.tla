---------------------------- MODULE CompletionWire ----------------------------
(***************************************************************************)
(* What the agent loop and a model say to each other over the two          *)
(* transports of agent/providers: LiteLLMProvider and                      *)
(* OpenAICompatibleProvider.  Both write the transcript of the loop in the *)
(* wire's form, decide or take over which tool schemas go with it, and     *)
(* turn the answer into calls with an id, a name and an object of          *)
(* arguments, or refuse it.                                                *)
(*                                                                         *)
(* A route is a transport with what litellm_compatibility.py and LiteLLM's *)
(* registry say of its model.  Retries are CompletionRetry; here an        *)
(* attempt over HTTP only says whether there is another.                   *)
(***************************************************************************)
EXTENDS Naturals, Sequences, SequencesExt

CONSTANTS
    Routes,         \* [transport, keep, parse, registry]
    WireCalls,      \* [id, args] of the calls a model may write
    MaxUserTurns,   \* bound: turns of the session
    MaxTurnCalls,   \* LoopLimits.max_model_calls
    MaxHttpAttempts \* CompletionRetryPolicy.max_attempts

ASSUME CompletionWireAssumption ==
    /\ Routes \subseteq [transport : {"litellm", "direct"}, keep : BOOLEAN, parse : BOOLEAN,
                         registry : {"yes", "no", "raises"}]
    /\ WireCalls \subseteq [id : {"native", "missing"},
                            args : {"object", "text", "broken", "list"}]
    /\ {MaxUserTurns, MaxTurnCalls, MaxHttpAttempts} \subseteq Nat

VARIABLES
    route,
    wireTranscript, \* the transcript of the loop: [role, args]
    userTurns,
    turnCalls,      \* LoopMetrics.model_calls
    completing,     \* "idle", "sent", "handed", "refused"
    request,        \* what the model was asked last
    attempts,       \* how each attempt of it over HTTP ended
    reply,          \* history: what the model answered
    handed          \* the CompletionResponse made of it

wireVars == <<route, wireTranscript, userTurns, turnCalls, completing, request, attempts,
              reply, handed>>

-----------------------------------------------------------------------------
Message(role, args) == [role |-> role, args |-> args]
NoReply   == [calls |-> << >>, text |-> "none"]
NotAsked == [messages |-> << >>, tools |-> FALSE, final |-> FALSE]

Replies ==
    [calls : {<< >>} \cup {<<c>> : c \in WireCalls} \cup {<<c, d>> : c, d \in WireCalls},
     text  : {"none", "words", "envelope", "foreign"}]

\* _is_unresolved_tool_continuation.
IsContinuation(messages) ==
    messages # << >> /\ \/ Last(messages).role = "tool"
                        \/ Last(messages).role = "assistant" /\ Last(messages).args # << >>

\* _completion_tools; the direct transport sends what it is given.
SendsTools(offered, messages) ==
    /\ offered
    /\ \/ route.transport = "direct" \/ route.keep \/ route.registry \in {"yes", "raises"}
       \/ ~ IsContinuation(messages)

\* _serialize_transcript: copies whose arguments are JSON strings.
Serialized(message) ==
    [message EXCEPT !.args = [i \in DOMAIN message.args |-> "text"]]
SerializeTranscript(messages) == [i \in DOMAIN messages |-> Serialized(messages[i])]

\* _tool_call.
IsCall(c)   == c.id = "native" /\ c.args \in {"object", "text"}
ToolCall(c) == [from |-> "native", args |-> "object"]

\* _text_tool_call: the whole text is a call of a tool this request offered.
IsTextCall(r) ==
    /\ route.transport = "litellm" /\ route.parse
    /\ r.calls = << >> /\ r.text = "envelope" /\ request.tools

CompletionOf(r) ==
    IF IsTextCall(r) THEN [calls |-> <<[from |-> "text", args |-> "object"]>>, text |-> "none"]
    ELSE [calls |-> [i \in DOMAIN r.calls |-> ToolCall(r.calls[i])], text |-> r.text]

-----------------------------------------------------------------------------
\* stream_events: the history of the session and the user's message.
UserTurn ==
    /\ completing = "idle" /\ turnCalls = 0 /\ userTurns < MaxUserTurns
    /\ wireTranscript # << >> => Last(wireTranscript).role # "user"
    /\ userTurns' = userTurns + 1
    /\ wireTranscript' = Append(wireTranscript, Message("user", << >>))
    /\ UNCHANGED <<route, turnCalls, completing, request, attempts, reply, handed>>

\* One iteration of the loop asks; the last one it may is for text only.
AskModel ==
    /\ completing = "idle" /\ wireTranscript # << >>
    /\ turnCalls = 0 => Last(wireTranscript).role = "user"
    /\ turnCalls < MaxTurnCalls
    /\ turnCalls' = turnCalls + 1
    /\ LET final == turnCalls' = MaxTurnCalls
       IN  request' = [messages |-> SerializeTranscript(wireTranscript),
                       tools    |-> SendsTools(~ final, wireTranscript),
                       final    |-> final]
    /\ completing' = "sent"
    /\ attempts' = << >>
    /\ UNCHANGED <<route, wireTranscript, userTurns, reply, handed>>

\* _raise_for_status and the executor around it.
HttpAttempt(outcome) ==
    /\ completing = "sent" /\ route.transport = "direct"
    /\ attempts' = Append(attempts, outcome)
    /\ completing' = IF outcome \in {"throttled", "transient"}
                            /\ Len(attempts') < MaxHttpAttempts
                     THEN "sent" ELSE "refused"
    /\ UNCHANGED <<route, wireTranscript, userTurns, turnCalls, request, reply, handed>>

\* complete and _parse: calls that are all sound, or a ProviderProtocolError.
Reply(r) ==
    /\ completing = "sent"
    /\ IF \A i \in DOMAIN r.calls : IsCall(r.calls[i])
       THEN reply' = r /\ handed' = CompletionOf(r) /\ completing' = "handed"
       ELSE completing' = "refused" /\ UNCHANGED <<reply, handed>>
    /\ UNCHANGED <<route, wireTranscript, userTurns, turnCalls, request, attempts>>

\* No choices, no message, no JSON.
ReplyIsNone ==
    /\ completing = "sent"
    /\ completing' = "refused"
    /\ UNCHANGED <<route, wireTranscript, userTurns, turnCalls, request, attempts, reply, handed>>

-----------------------------------------------------------------------------
\* What the loop makes of it: calls are appended with their results, a recoverable error
\* with a notice behind; text ends the turn; calls of the last iteration are ignored.
Returns  == completing' = "idle" /\ reply' = NoReply /\ handed' = NoReply /\ attempts' = << >>
GoesOn   == Returns /\ UNCHANGED turnCalls
EndsTurn == Returns /\ turnCalls' = 0

RunCalls ==
    /\ completing = "handed" /\ handed.calls # << >> /\ ~ request.final
    /\ \E notice \in {<< >>, <<Message("system", << >>)>>}, ends \in BOOLEAN :
           /\ wireTranscript' =
                  Append(wireTranscript,
                         Message("assistant", [i \in DOMAIN handed.calls |-> handed.calls[i].args]))
                      \o [i \in DOMAIN handed.calls |-> Message("tool", << >>)] \o notice
           /\ IF ends /\ notice = << >> THEN EndsTurn ELSE GoesOn
    /\ UNCHANGED <<route, userTurns, request>>

AnswerUser ==
    /\ completing = "handed" /\ (handed.calls = << >> \/ request.final)
    /\ handed.text # "none"
    /\ wireTranscript' = Append(wireTranscript, Message("assistant", << >>))
    /\ EndsTurn
    /\ UNCHANGED <<route, userTurns, request>>

NothingToSay ==
    /\ completing = "handed" /\ (handed.calls = << >> \/ request.final)
    /\ handed.text = "none"
    /\ IF request.final THEN EndsTurn ELSE GoesOn
    /\ UNCHANGED <<route, wireTranscript, userTurns, request>>

\* provider_error: the turn ends as it stands.
GiveUpTurn ==
    /\ completing = "refused"
    /\ EndsTurn
    /\ UNCHANGED <<route, wireTranscript, userTurns, request>>

-----------------------------------------------------------------------------
CompletionWireInit ==
    /\ route \in Routes
    /\ wireTranscript = << >>
    /\ userTurns = 0
    /\ turnCalls = 0
    /\ completing = "idle"
    /\ request = NotAsked
    /\ attempts = << >>
    /\ reply = NoReply
    /\ handed = NoReply

CompletionWireNext ==
    \/ UserTurn \/ AskModel \/ ReplyIsNone
    \/ \E outcome \in {"throttled", "transient", "rejected"} : HttpAttempt(outcome)
    \/ \E r \in Replies : Reply(r)
    \/ RunCalls \/ AnswerUser \/ NothingToSay \/ GiveUpTurn

CompletionWireSpec == CompletionWireInit /\ [][CompletionWireNext]_wireVars

-----------------------------------------------------------------------------
CompletionWireTypeOK ==
    /\ route \in Routes
    /\ wireTranscript \in Seq([role : {"user", "assistant", "tool", "system"},
                               args : Seq({"object", "text", "broken", "list"})])
    /\ userTurns \in 0..MaxUserTurns
    /\ turnCalls \in 0..MaxTurnCalls
    /\ completing \in {"idle", "sent", "handed", "refused"}
    /\ {request.tools, request.final} \subseteq BOOLEAN
    /\ attempts \in Seq({"throttled", "transient", "rejected"})
    /\ reply \in Replies

(***************************************************************************)
(* PROPERTIES                                                              *)
(***************************************************************************)
\* The wire's form never comes back: the loop's own transcript, which is stored with the
\* session and sent again by the next turn, keeps arguments as objects, while each request
\* carries them as strings.
FormsAreSeparate ==
    /\ \A i \in DOMAIN wireTranscript : Range(wireTranscript[i].args) \subseteq {"object"}
    /\ \A i \in DOMAIN request.messages : Range(request.messages[i].args) \subseteq {"text"}

\* A model is only left without schemas by the loop, for its last word, or inside a tool
\* cycle of this turn that LiteLLM says it cannot continue: the tool records of earlier
\* turns never starve a new question.
SchemasAreSent ==
    request # NotAsked /\ ~ request.final /\ ~ request.tools
    => /\ Last(request.messages).role # "user"
       /\ route.transport = "litellm" /\ route.registry = "no" /\ ~ route.keep

\* A completion is taken whole or not at all, a call is never made of text but by the one
\* policy that allows it and for a tool this request offered, and an answer the provider
\* rejected is not asked for again.
CompletionsAreWhole ==
    /\ completing = "handed"
       => /\ Len(handed.calls) >= Len(reply.calls)
          /\ \A i \in DOMAIN reply.calls : IsCall(reply.calls[i])
          /\ \A i \in DOMAIN handed.calls :
                 handed.calls[i].from = "text" => route.parse /\ request.tools /\ ~ request.final
          /\ handed.text = "none" => handed.calls # << >> \/ reply.text = "none"
    /\ \A i \in DOMAIN attempts : attempts[i] = "rejected" => i = Len(attempts)

\* What goes over the wire is what the loop and the model said, and no more.
WireIsFaithful == FormsAreSeparate /\ SchemasAreSent /\ CompletionsAreWhole
=============================================================================
