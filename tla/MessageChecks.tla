---------------------------- MODULE MessageChecks ----------------------------
(***************************************************************************)
(* The checks of one message (AntiAbuseChecker in anti_abuse.py) between   *)
(* the reading of its session's accepted turns and the acceptance of its   *)
(* own (check_abuse in server/security.py).                                *)
(*                                                                         *)
(* Reading and accepting are queries that a request awaits; the checks in  *)
(* between run at once.  A checker remembers the texts of the last Window  *)
(* seconds, of at most MaxRemembered sessions.  A reload of the policy     *)
(* puts a new one in its place, while requests that already have theirs    *)
(* keep it.  What a message is refused for by itself, its User-Agent and   *)
(* its length, is a choice; the quota of turns is ChatSessions's.  One     *)
(* clock stands for the code's two, which it does not compare.             *)
(***************************************************************************)
EXTENDS Naturals, Sequences, FiniteSets, FiniteSetsExt, SequencesExt, Selections

CONSTANTS
    Messages, ChatIds,
    TextOf,             \* of each message
    Window,             \* RECENT_MESSAGE_WINDOW_SECONDS
    MaxRemembered,      \* RECENT_MESSAGES_MAX_SESSIONS
    MaxRepeated,        \* max_repeated_count
    MinInterval,        \* min_interval_ms
    Never,              \* last_user_turn_at of a session without one
    LastSecond,         \* bound of the clock
    MaxReloads          \* bound

ASSUME MessageChecksAssumption ==
    /\ {Window, MaxRemembered, MaxRepeated} \subseteq Nat \ {0}
    /\ {MinInterval, LastSecond, MaxReloads} \subseteq Nat
    /\ Never \notin Nat

VARIABLES
    chatIdOf,        \* the session of each message
    second,          \* the clock
    currentChecker,  \* the checker of the policy in force: how many there were before it
    recent,          \* of each checker: of some sessions, the messages and when they came
    lastTurnAt,      \* of each session: last_user_turn_at
    message,         \* of each message: where it is
    acceptedTurns,   \* history: the messages whose turn is accepted, in that order
    passed,          \* history: of each checker and session, what it let through since it
                     \* forgot the session
    lastPass         \* history: of each checker and session, when it last let one through

messageVars ==
    <<chatIdOf, second, currentChecker, recent, lastTurnAt, message,
      acceptedTurns, passed, lastPass>>

Checkers == 0 .. MaxReloads
Seen(m, at) == [text |-> TextOf[m], at |-> at]

MessageChecksInit ==
    /\ chatIdOf \in [Messages -> ChatIds]
    /\ second = 0
    /\ currentChecker \in Checkers
    /\ recent = [g \in Checkers |-> <<>>]
    /\ lastTurnAt = [k \in ChatIds |-> Never]
    /\ message = [m \in Messages |->
          [at |-> "new", checker |-> 0, last |-> Never, knew |-> {}, accepted |-> 0]]
    /\ acceptedTurns = <<>>
    /\ passed = [g \in Checkers |-> [k \in ChatIds |-> <<>>]]
    /\ lastPass = [g \in Checkers |-> [k \in ChatIds |-> Never]]

MessageChecksTypeOK ==
    /\ second \in 0 .. LastSecond
    /\ currentChecker \in Checkers
    /\ \A g \in Checkers : DOMAIN recent[g] \subseteq ChatIds
    /\ lastTurnAt \in [ChatIds -> 0 .. LastSecond \cup {Never}]
    /\ \A m \in Messages :
          message[m].at \in {"new", "checking", "accepting", "turn", "refused"}
    /\ ToSet(acceptedTurns) \subseteq Messages

MessageAt(m, at) == message[m].at = at

-----------------------------------------------------------------------------
SecondPasses ==
    /\ second < LastSecond
    /\ second' = second + 1
    /\ UNCHANGED <<chatIdOf, currentChecker, recent, lastTurnAt, message,
                   acceptedTurns, passed, lastPass>>

\* LiveAbuseProvider.reload: nothing is remembered.
ReloadChecker ==
    /\ currentChecker < MaxReloads
    /\ currentChecker' = currentChecker + 1
    /\ UNCHANGED <<chatIdOf, second, recent, lastTurnAt, message,
                   acceptedTurns, passed, lastPass>>

\* The checker of get_enforcers, and abuse_state.
ReadTurns(m) ==
    /\ MessageAt(m, "new")
    /\ message' = [message EXCEPT ![m].at = "checking", ![m].checker = currentChecker,
                                  ![m].last = lastTurnAt[chatIdOf[m]],
                                  ![m].knew = ToSet(acceptedTurns)]
    /\ UNCHANGED <<chatIdOf, second, currentChecker, recent, lastTurnAt, acceptedTurns,
                   passed, lastPass>>

-----------------------------------------------------------------------------
TooSoon(m) == message[m].last # Never /\ second < message[m].last + MinInterval

Newest(remembered, k) == Max({remembered[k][i].at : i \in DOMAIN remembered[k]})

\* _prune_session_locked: what is left of session k; a session is dropped with its last.
Pruned(remembered, k) ==
    LET left == IF k \in DOMAIN remembered
                THEN SelectAt(remembered[k],
                              {i \in DOMAIN remembered[k] : second < remembered[k][i].at + Window})
                ELSE <<>>
    IN [o \in (DOMAIN remembered \ {k}) \cup (IF left = <<>> THEN {} ELSE {k}) |->
           IF o = k THEN left ELSE remembered[o]]

\* Faulty variant of Evicted: any of the other sessions go.
EvictedAny(remembered, k) ==
    LET excess == Cardinality(DOMAIN remembered) - MaxRemembered IN
    IF excess <= 0 THEN {{}} ELSE kSubset(excess, DOMAIN remembered \ {k})

\* _maybe_evict_sessions_locked: beyond the cap the idlest go, but not the one served.
Evicted(remembered, k) ==
    LET excess == Cardinality(DOMAIN remembered) - MaxRemembered IN
    IF excess <= 0 THEN {{}}
    ELSE {gone \in kSubset(excess, DOMAIN remembered \ {k}) :
            \A o \in gone, p \in DOMAIN remembered \ ({k} \cup gone) :
                Newest(remembered, o) <= Newest(remembered, p)}

Repeats(remembered, k, text) ==
    IF k \notin DOMAIN remembered THEN 0
    ELSE Cardinality({i \in DOMAIN remembered[k] : remembered[k][i].text = text})

\* _check_repeated_message remembers the message it lets through; also a message that is
\* refused prunes what is remembered of its session.
CheckRepeated(m) ==
    LET g == message[m].checker
        k == chatIdOf[m]
        left == Pruned(recent[g], k)
        with == [o \in DOMAIN left \cup {k} |->
                    IF o # k THEN left[o]
                    ELSE Append(IF k \in DOMAIN left THEN left[k] ELSE <<>>, Seen(m, second))]
    IN  IF Repeats(left, k, TextOf[m]) >= MaxRepeated
        THEN /\ recent' = [recent EXCEPT ![g] = left]
             /\ message' = [message EXCEPT ![m].at = "refused"]
             /\ UNCHANGED <<passed, lastPass>>
        ELSE /\ message' = [message EXCEPT ![m].at = "accepting", ![m].accepted = second]
             /\ lastPass' = [lastPass EXCEPT ![g][k] = second]
             /\ \E gone \in Evicted(with, k) :
                   /\ recent' = [recent EXCEPT ![g] = Restrict(with, DOMAIN with \ gone)]
                   /\ passed' = [passed EXCEPT ![g] = [o \in ChatIds |->
                         IF o \in gone THEN <<>>
                         ELSE IF o = k THEN Append(@[o], Seen(m, second)) ELSE @[o]]]

\* AntiAbuseChecker.check on what was read, in the order of its checks.
CheckMessage(m) ==
    /\ MessageAt(m, "checking")
    /\ \/ /\ message' = [message EXCEPT ![m].at = "refused"]
          /\ UNCHANGED <<recent, passed, lastPass>>
       \/ ~TooSoon(m) /\ CheckRepeated(m)
    /\ UNCHANGED <<chatIdOf, second, currentChecker, lastTurnAt, acceptedTurns>>

\* accept_user_turn stores the time that was read before it waited, or fails (503).
AcceptTurn(m) ==
    /\ MessageAt(m, "accepting")
    /\ \/ /\ message' = [message EXCEPT ![m].at = "turn"]
          /\ lastTurnAt' = [lastTurnAt EXCEPT ![chatIdOf[m]] = message[m].accepted]
          /\ acceptedTurns' = Append(acceptedTurns, m)
       \/ /\ message' = [message EXCEPT ![m].at = "refused"]
          /\ UNCHANGED <<lastTurnAt, acceptedTurns>>
    /\ UNCHANGED <<chatIdOf, second, currentChecker, recent, passed, lastPass>>

MessageChecksNext ==
    \/ SecondPasses \/ ReloadChecker
    \/ \E m \in Messages :
          ReadTurns(m) \/ CheckMessage(m) \/ AcceptTurn(m)

MessageChecksSpec == MessageChecksInit /\ [][MessageChecksNext]_messageVars

-----------------------------------------------------------------------------
(* Properties *)

\* However the sessions of a checker are pruned and evicted, it lets the same text of a
\* session through at most MaxRepeated times in any Window, while it remembers the session.
RepeatsAreBounded ==
    \A g \in Checkers, k \in ChatIds : \A n \in DOMAIN passed[g][k] :
        LET final == passed[g][k][n] IN
        Cardinality({i \in 1 .. n : /\ passed[g][k][i].text = final.text
                                    /\ final.at < passed[g][k][i].at + Window}) <= MaxRepeated

\* The sessions a checker remembers are no more than it may, and none that it forgot was
\* served after one of them ("least-recently-active first", anti_abuse.py:421).
IdlestAreForgotten ==
    \A g \in Checkers :
        /\ Cardinality(DOMAIN recent[g]) <= MaxRemembered
        /\ \A k \in ChatIds \ DOMAIN recent[g], o \in DOMAIN recent[g] :
              lastPass[g][k] # Never => lastPass[g][k] <= Newest(recent[g], o)

\* Two turns of a session are accepted closer to each other than the interval only when
\* the later one was read before the earlier one was stored, or a third one overlapped the
\* earlier one and was stored over it with an older time.
IntervalIsKept ==
    \A a, b \in ToSet(acceptedTurns) :
        /\ a # b /\ chatIdOf[a] = chatIdOf[b]
        /\ a \in message[b].knew
        /\ message[b].accepted < message[a].accepted + MinInterval
        => \E c \in message[b].knew \ {a} :
              /\ chatIdOf[c] = chatIdOf[a] /\ a \notin message[c].knew
              /\ message[c].accepted <= message[a].accepted

\* The messages of a session repeat and follow each other within the limits of the policy.
MessagesAreChecked ==
    MessageChecksTypeOK /\ RepeatsAreBounded /\ IdlestAreForgotten /\ IntervalIsKept
=============================================================================
