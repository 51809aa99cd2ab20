----------------------------- MODULE ChatSessions -----------------------------
(***************************************************************************)
(* Chat requests on shared sessions: server/routes/chat.py, the gate of    *)
(* server/security.py, the session store, and the turn of                  *)
(* agent/orchestrator.py under the session's lock.                         *)
(*                                                                         *)
(* A request reads the token hash of its session, is counted by the abuse  *)
(* gate, binds a token if the session has none, and streams a turn: lock,  *)
(* history, model, append.  Database work is done by worker threads, so    *)
(* each await of one is a place where other requests run.  Transcripts and *)
(* tokens belong to an effective session key (direct:S, agent:NAME:S); the *)
(* gate counts by the bare session id S, which several keys share.         *)
(*                                                                         *)
(* A token is named by the request that minted it, a lock by the request   *)
(* that created it.                                                        *)
(***************************************************************************)
EXTENDS Naturals, Sequences, SequencesExt

CONSTANTS
    ChatRequests,
    Keys,           \* effective session ids
    Bare,           \* the session id of each key
    KeyOf,          \* the key of each request
    ClientOf,       \* the browser each request comes from
    Voice,          \* the requests whose text is transcribed from audio first
    None,
    Quota,          \* max_user_turns_per_session
    HistoryTurns,   \* history_turns
    LockCap         \* max_session_locks

ASSUME ChatNoneAssumption == None \notin ChatRequests
ASSUME ChatRoutesAssumption ==
    /\ KeyOf \in [ChatRequests -> Keys]
    /\ Voice \subseteq ChatRequests
ASSUME ChatLimitsAssumption ==
    Quota \in Nat /\ HistoryTurns \in Nat \ {0} /\ LockCap \in Nat \ {0}

VARIABLES
    tokenOf,    \* sessions.session_token_hash of each key
    counted,    \* sessions.user_turn_count of each bare session id
    turnsOf,    \* session_turns of each key, oldest first
    locks,      \* the lock cache, least recently used first
    line,       \* of each lock: its holder, then its waiters
    chat,       \* the state of each request
    stray,      \* appends begun by a thread whose turn no longer waits
    wallet,     \* the tokens each client received
    begun,      \* history: the turns of each key in the order they got a lock
    strayed,    \* history: the turns cancelled while they were appended
    evicted     \* history: the locks evicted while held or awaited

storeVars == <<tokenOf, counted, turnsOf>>
lockVars == <<locks, line, evicted>>
turnVars == <<stray, begun, strayed>>
chatVars == <<storeVars, lockVars, turnVars, chat, wallet>>

Sids == {Bare[k] : k \in Keys}
Clients == {ClientOf[r] : r \in ChatRequests}
Token == ChatRequests \cup {None}

ChatPlaces ==
    {"new", "transcribing",
     "authorizing", "counting", "checking", "accepting", "binding",     \* the gate
     "opening", "waiting", "preparing", "running",                      \* the stream
     "appending",       \* the turn awaits the append of its messages
     "left",            \* the producer returned, its generator is suspended in the turn
     "closing",         \* the generator's finalizer awaits the append
     "over"}

\* The places of a turn that has its session's lock.
Locked == {"preparing", "running", "appending", "left", "closing"}
Streaming == {"opening", "waiting"} \cup Locked

ChatState ==
    [at: ChatPlaces,
     presented: Token,      \* the X-Session-Token header
     stored: Token,         \* the hash the route read
     count: Nat,            \* the accepted turns the gate read
     lock: Token,
     gone: BOOLEAN,         \* the client has disconnected
     full: BOOLEAN]         \* history: the quota was used up when the request came

Fresh ==
    [at |-> "new", presented |-> None, stored |-> None, count |-> 0, lock |-> None,
     gone |-> FALSE, full |-> FALSE]

ChatTypeOK ==
    /\ tokenOf \in [Keys -> Token]
    /\ counted \in [Sids -> Nat]
    /\ turnsOf \in [Keys -> Seq(ChatRequests)]
    /\ locks \in Seq([key: Keys, lock: ChatRequests])
    /\ line \in [ChatRequests -> Seq(ChatRequests)]
    /\ chat \in [ChatRequests -> ChatState]
    /\ stray \in SUBSET ChatRequests
    /\ wallet \in [Clients -> SUBSET ChatRequests]
    /\ begun \in [Keys -> Seq(ChatRequests)]
    /\ strayed \in SUBSET ChatRequests
    /\ evicted \in SUBSET ChatRequests

ChatInit ==
    /\ tokenOf = [k \in Keys |-> None]
    /\ counted = [s \in Sids |-> 0]
    /\ turnsOf = [k \in Keys |-> << >>]
    /\ locks = << >>
    /\ line = [r \in ChatRequests |-> << >>]
    /\ chat = [r \in ChatRequests |-> Fresh]
    /\ stray = {}
    /\ wallet = [c \in Clients |-> {}]
    /\ begun = [k \in Keys |-> << >>]
    /\ strayed = {}
    /\ evicted = {}

At(r, place) == chat[r].at = place
Move(r, place) == chat' = [chat EXCEPT ![r].at = place]
\* The request is over, and with it what it knew.
Over(r) == [Fresh EXCEPT !.at = "over", !.gone = chat[r].gone]
Ends(r) == chat' = [chat EXCEPT ![r] = Over(r)]

SidOf(r) == Bare[KeyOf[r]]

-----------------------------------------------------------------------------
(* The route and its gate *)

\* The tokens a client can send with a request: the one of the session, if any.
TokensFor(r) ==
    LET mine == {t \in wallet[ClientOf[r]] : KeyOf[t] = KeyOf[r]} IN
    IF mine = {} THEN {None} ELSE mine

\* A body that parses, for an agent that exists; a voice message is transcribed
\* before anything is looked up.
Arrive(r) ==
    /\ At(r, "new")
    /\ \E t \in TokensFor(r) :
        chat' = [chat EXCEPT
            ![r].at = IF r \in Voice THEN "transcribing" ELSE "authorizing",
            ![r].presented = t,
            ![r].full = counted[SidOf(r)] >= Quota]
    /\ UNCHANGED <<storeVars, lockVars, turnVars, wallet>>

\* STTEngine tries its providers in turn; the route gives up when all failed or
\* nothing was said.
Transcribe(r) ==
    /\ At(r, "transcribing")
    /\ Move(r, "authorizing") \/ Ends(r)
    /\ UNCHANGED <<storeVars, lockVars, turnVars, wallet>>

\* _reject_session_hijack, and the buckets that check_abuse consumes before its
\* first await: a session with a token admits only requests that present it.
Authorize(r) ==
    LET hash == tokenOf[KeyOf[r]] IN
    /\ At(r, "authorizing")
    /\ \/ /\ hash \in {None, chat[r].presented}
          /\ chat' = [chat EXCEPT ![r].at = "counting", ![r].stored = hash, ![r].presented = None]
       \/ Ends(r)      \* also when a bucket is empty
    /\ UNCHANGED <<storeVars, lockVars, turnVars, wallet>>

ReadCount(r) ==
    /\ At(r, "counting")
    /\ chat' = [chat EXCEPT ![r].at = "checking", ![r].count = counted[SidOf(r)]]
    /\ UNCHANGED <<storeVars, lockVars, turnVars, wallet>>

\* AntiAbuseChecker.check on what was read; its other checks may refuse any request.
Check(r) ==
    /\ At(r, "checking")
    /\ \/ /\ chat[r].count < Quota
          /\ chat' = [chat EXCEPT ![r].at = "accepting", ![r].count = 0]
       \/ Ends(r)
    /\ UNCHANGED <<storeVars, lockVars, turnVars, wallet>>

\* accept_user_turn counts the turn of the bare session, or fails (503).
Accept(r) ==
    /\ At(r, "accepting")
    /\ \/ /\ Move(r, IF chat[r].stored = None THEN "binding" ELSE "opening")
          /\ counted' = [counted EXCEPT ![SidOf(r)] = @ + 1]
       \/ /\ Ends(r)
          /\ UNCHANGED counted
    /\ UNCHANGED <<tokenOf, turnsOf, lockVars, turnVars, wallet>>

\* Faulty variant of Bind: the last token wins.
BindOverwriting(r) ==
    /\ At(r, "binding")
    /\ Move(r, "opening")
    /\ tokenOf' = [tokenOf EXCEPT ![KeyOf[r]] = r]
    /\ UNCHANGED <<counted, turnsOf, lockVars, turnVars, wallet>>

\* _mint_session_token binds a fresh token without overwriting, or raises.
Bind(r) ==
    /\ At(r, "binding")
    /\ \/ /\ Move(r, "opening")
          /\ tokenOf' = [tokenOf EXCEPT ![KeyOf[r]] = IF @ = None THEN r ELSE @]
       \/ /\ Ends(r)
          /\ UNCHANGED tokenOf
    /\ UNCHANGED <<counted, turnsOf, lockVars, turnVars, wallet>>

-----------------------------------------------------------------------------
(* The session's lock *)

\* The cached lock of a key, or a new one named for the request.
LockFor(r) ==
    LET cached == {e \in ToSet(locks) : e.key = KeyOf[r]} IN
    IF cached = {} THEN r ELSE (CHOOSE e \in cached : TRUE).lock

WithoutKey(cache, key) == RemoveFirstMatch(cache, LAMBDA e : e.key = key)

\* get_or_create: the key becomes the most recently used; a new key may evict the
\* oldest, whatever its lock is doing.
TouchLock(r) ==
    LET others == WithoutKey(locks, KeyOf[r])
        touched == Append(others, [key |-> KeyOf[r], lock |-> LockFor(r)])
        oldest == Head(touched)
    IN  IF Len(touched) > LockCap
        THEN /\ locks' = Tail(touched)
             /\ evicted' = evicted \cup (IF line[oldest.lock] = << >> THEN {} ELSE {oldest.lock})
        ELSE /\ locks' = touched
             /\ UNCHANGED evicted

\* The response starts: its first event carries a minted token, then the producer
\* asks for the session's lock.
Open(r) ==
    /\ At(r, "opening")
    /\ ~chat[r].gone
    /\ wallet' = IF chat[r].stored = None /\ tokenOf[KeyOf[r]] = r
                 THEN [wallet EXCEPT ![ClientOf[r]] = @ \cup {r}]
                 ELSE wallet
    /\ TouchLock(r)
    /\ line' = [line EXCEPT ![LockFor(r)] = Append(@, r)]
    /\ chat' = [chat EXCEPT ![r].at = "waiting", ![r].lock = LockFor(r)]
    /\ UNCHANGED <<storeVars, turnVars>>

\* A client that left before the response began: its stream never starts.
Unopened(r) ==
    /\ At(r, "opening")
    /\ chat[r].gone
    /\ Ends(r)
    /\ UNCHANGED <<storeVars, lockVars, turnVars, wallet>>

Enter(r) ==
    /\ At(r, "waiting")
    /\ Head(line[chat[r].lock]) = r
    /\ Move(r, "preparing")
    /\ begun' = [begun EXCEPT ![KeyOf[r]] = Append(@, r)]
    /\ UNCHANGED <<storeVars, lockVars, stray, strayed, wallet>>

\* The request ends and leaves its lock, held or awaited.
Leave(r) ==
    /\ Ends(r)
    /\ line' = [line EXCEPT ![chat[r].lock] = RemoveFirst(@, r)]
    /\ UNCHANGED <<locks, evicted>>

-----------------------------------------------------------------------------
(* The turn *)

\* resolve_llm, the MCP session, db_map and the history of the session; a failure of any
\* ends the turn with nothing to store.
Prepare(r) ==
    /\ At(r, "preparing")
    /\ \/ Move(r, "running") /\ UNCHANGED lockVars
       \/ Leave(r)
    /\ UNCHANGED <<storeVars, turnVars, wallet>>

\* Faulty variant of RunEnds: the lock is released before the append.
RunEndsUnlocked(r) ==
    /\ At(r, "running")
    /\ Move(r, "appending")
    /\ line' = [line EXCEPT ![chat[r].lock] = RemoveFirst(@, r)]
    /\ UNCHANGED <<storeVars, locks, evicted, turnVars, wallet>>

\* The loop ends, in whatever way, or a failing transport cancels the producer: the
\* turn's messages are stored first.
RunEnds(r) ==
    /\ At(r, "running")
    /\ Move(r, "appending")
    /\ UNCHANGED <<storeVars, lockVars, turnVars, wallet>>

\* append_turn and its trim, or its failure, which is only logged.
Store(r) ==
    LET k == KeyOf[r]
        all == Append(turnsOf[k], r)
        kept == SubSeq(all, Len(all) - HistoryTurns + 1, Len(all))
    IN  /\ turnsOf' \in {turnsOf, [turnsOf EXCEPT ![k] = IF Len(all) > HistoryTurns THEN kept ELSE all]}
        /\ UNCHANGED <<tokenOf, counted>>

Append_(r) ==
    /\ chat[r].at \in {"appending", "closing"}
    /\ Store(r)
    /\ Leave(r)
    /\ UNCHANGED <<turnVars, wallet>>

-----------------------------------------------------------------------------
(* Disconnects, cancellation and crashes *)

\* Before the response starts nobody looks: a client that is gone by then is one that
\* goes when it opens.
Disconnect(r) ==
    /\ chat[r].at \in Streaming
    /\ ~chat[r].gone
    /\ chat' = [chat EXCEPT ![r].gone = TRUE]
    /\ UNCHANGED <<storeVars, lockVars, turnVars, wallet>>

\* The producer meets the disconnect latch at an event and returns; the generator
\* of the turn stays suspended, with the lock, until its finalizer runs.
SeesLatch(r) ==
    /\ At(r, "running")
    /\ chat[r].gone
    /\ Move(r, "left")
    /\ UNCHANGED <<storeVars, lockVars, turnVars, wallet>>

Finalize(r) ==
    /\ At(r, "left")
    /\ Move(r, "closing")
    /\ UNCHANGED <<storeVars, lockVars, turnVars, wallet>>

\* The writer is torn down and cancels the producer, or the transport's cancel scope
\* does.  Cancelled in its append, the turn gives the lock up at once; a thread that
\* has begun goes on.
CancelProducer(r) ==
    /\ \/ chat[r].gone
       \/ At(r, "preparing")
    /\ \/ /\ chat[r].at \in {"waiting", "preparing"}
          /\ Leave(r)
          /\ UNCHANGED turnVars
       \/ /\ At(r, "running")
          /\ Move(r, "appending")
          /\ UNCHANGED <<lockVars, turnVars>>
       \/ /\ At(r, "appending")
          /\ Leave(r)
          /\ stray' \in {stray, stray \cup {r}}
          /\ strayed' = strayed \cup {r}
          /\ UNCHANGED begun
    /\ UNCHANGED <<storeVars, wallet>>

StrayAppend(r) ==
    /\ r \in stray
    /\ Store(r)
    /\ stray' = stray \ {r}
    /\ UNCHANGED <<lockVars, begun, strayed, chat, wallet>>

\* The process dies; the database and what the clients have survive.
ChatCrash ==
    /\ chat' = [r \in ChatRequests |->
        IF At(r, "new") THEN chat[r] ELSE [Over(r) EXCEPT !.gone = TRUE]]
    /\ locks' = << >>
    /\ line' = [r \in ChatRequests |-> << >>]
    /\ stray' = {}
    /\ UNCHANGED <<storeVars, begun, strayed, evicted, wallet>>

ChatStep(r) ==
    \/ Transcribe(r) \/ Authorize(r) \/ ReadCount(r) \/ Check(r) \/ Accept(r) \/ Bind(r)
    \/ Open(r) \/ Unopened(r) \/ Enter(r) \/ Prepare(r) \/ RunEnds(r)
    \/ Append_(r) \/ Finalize(r) \/ StrayAppend(r)

ChatNext ==
    \/ \E r \in ChatRequests :
        Arrive(r) \/ ChatStep(r) \/ Disconnect(r) \/ SeesLatch(r) \/ CancelProducer(r)
    \/ ChatCrash

ChatSpec == ChatInit /\ [][ChatNext]_chatVars

-----------------------------------------------------------------------------
(* Properties *)

Position(s, r) == CHOOSE i \in DOMAIN s : s[i] = r

\* Two turns of one session overlap only after its lock was evicted under one of
\* them: whatever requests are cancelled, abandoned or kept waiting, the lock of
\* orchestrator.stream_events keeps the turns apart.
OverlapOnlyByEviction ==
    \A r, q \in ChatRequests :
        /\ r # q
        /\ KeyOf[r] = KeyOf[q]
        /\ chat[r].at \in Locked
        /\ chat[q].at \in Locked
        => {chat[r].lock, chat[q].lock} \cap evicted # {}

\* A transcript lists the turns in the order in which they ran, unless a turn was
\* cancelled while its messages were being appended, or a lock was evicted in use.
TranscriptInOrder ==
    \A k \in Keys : \A i, j \in DOMAIN turnsOf[k] :
        LET x == turnsOf[k][i]
            y == turnsOf[k][j]
        IN  i < j => \/ Position(begun[k], x) < Position(begun[k], y)
                     \/ x \in strayed \/ y \in strayed
                     \/ evicted # {}

\* No client holds a token that its session would not accept: of first requests that
\* race to bind, one token is stored and no other is handed out.
TokensHeldAreStored ==
    \A c \in Clients : \A t \in wallet[c] : tokenOf[KeyOf[t]] = t

\* The visitor can return: the token of a session is with the client of the request
\* that minted it, is about to be sent, or was lost because that client went away.
\* A request the gate refuses never leaves a session behind that nobody can use.
OwnerCanReturn ==
    \A k \in Keys : tokenOf[k] # None =>
        LET r == tokenOf[k] IN
        r \in wallet[ClientOf[r]] \/ At(r, "opening") \/ chat[r].gone

\* What a session demands of its visitor and what the visitors hold agree.
TokensAgree == TokensHeldAreStored /\ OwnerCanReturn

\* The quota of a session binds whatever route, agent or transcript its requests
\* use: one that comes after it is used up is never accepted.  (Those that
\* overlap may pass together.)
QuotaBinds ==
    \A r \in ChatRequests : chat[r].full => chat[r].at \notin {"binding"} \cup Streaming

\* Two turns of one session never run at once nor overtake one another in what they
\* read and append to its conversation (conversation.py, orchestrator.py).
TurnsKeepOrder == OverlapOnlyByEviction /\ TranscriptInOrder

\* A session keeps the one token it was bound to, no client is sent another, and a
\* quota that is used up admits no request that begins later (security.py, chat.py).
GateIsSound == TokensAgree /\ QuotaBinds
=============================================================================
