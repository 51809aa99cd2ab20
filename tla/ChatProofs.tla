------------------------------ MODULE ChatProofs ------------------------------
(***************************************************************************)
(* Proofs about the way of a chat message, for any requests, keys and      *)
(* bounds: about ChatSessions, then MessageChecks, then TurnEvidence.      *)
(*                                                                         *)
(* The invariant of the sessions says who is in the line of which lock,    *)
(* which lock the cache has for a session, what has begun under it and     *)
(* what of that is stored; and, of the gate, which request a token is      *)
(* named by.  A step of the gate disturbs only the second half, a step of  *)
(* a turn only the first.                                                  *)
(***************************************************************************)
EXTENDS ChatSessions, MessageChecks, TurnEvidence, Integers, FoldTheorems

-----------------------------------------------------------------------------
(* Sequences *)

LEMMA MinOfOne == ASSUME NEW n \in Nat PROVE Min({n}) = n
BY DEF Min

\* What is left of a sequence without its i-th element.
LEMMA WithoutOne ==
    ASSUME NEW S, NEW s \in Seq(S), NEW i \in 1 .. Len(s)
    PROVE  /\ RemoveAt(s, i) \in Seq(S)
           /\ Len(RemoveAt(s, i)) = Len(s) - 1
           /\ \A j \in 1 .. Len(s) - 1 : RemoveAt(s, i)[j] = IF j < i THEN s[j] ELSE s[j + 1]
<1> DEFINE a == SubSeq(s, 1, i - 1)
           b == SubSeq(s, i + 1, Len(s))
<1>1. /\ a \in Seq(S) /\ Len(a) = i - 1
      /\ \A j \in 1 .. i - 1 : a[j] = s[j]
  BY SubSeqProperties
<1>2. /\ b \in Seq(S) /\ Len(b) = Len(s) - i
      /\ \A j \in 1 .. Len(s) - i : b[j] = s[j + i]
  BY SubSeqProperties
<1> HIDE DEF a, b
<1>a. /\ a \o b \in Seq(S) /\ Len(a \o b) = Len(a) + Len(b)
      /\ \A j \in 1 .. Len(a) + Len(b) :
            (a \o b)[j] = IF j <= Len(a) THEN a[j] ELSE b[j - Len(a)]
  BY <1>1, <1>2, ConcatProperties
<1> DEFINE c == a \o b
<1> HIDE DEF c
<1>3. /\ c \in Seq(S) /\ Len(c) = Len(s) - 1
      /\ \A j \in 1 .. Len(s) - 1 : c[j] = IF j <= i - 1 THEN a[j] ELSE b[j - (i - 1)]
  BY <1>1, <1>2, <1>a DEF c
<1>4. \A j \in 1 .. Len(s) - 1 : c[j] = IF j < i THEN s[j] ELSE s[j + 1]
  BY <1>1, <1>2, <1>3
<1>5. RemoveAt(s, i) = c
  BY DEF RemoveAt, a, b, c
<1>6. QED
  BY <1>3, <1>4, <1>5

LEMMA RemovedElement ==
    ASSUME NEW S, NEW s \in Seq(S), IsInjective(s), NEW i \in 1 .. Len(s)
    PROVE  RemoveFirst(s, s[i]) = RemoveAt(s, i)
<1>1. {j \in 1 .. Len(s) : s[j] = s[i]} = {i}
  BY DEF IsInjective
<1>2. SelectInSeq(s, LAMBDA v : v = s[i]) = i
  BY <1>1, MinOfOne DEF SelectInSeq
<1>3. QED
  BY <1>2 DEF RemoveFirst

LEMMA RemovedLock ==
    ASSUME NEW S, NEW s \in Seq(S), NEW k, NEW i \in 1 .. Len(s), s[i].key = k,
           \A j \in 1 .. Len(s) : s[j].key = k => j = i
    PROVE  WithoutKey(s, k) = RemoveAt(s, i)
<1>1. {j \in 1 .. Len(s) : s[j].key = k} = {i}
  OBVIOUS
<1>2. SelectInSeq(s, LAMBDA e : e.key = k) = i
  BY <1>1, MinOfOne DEF SelectInSeq
<1>3. QED
  BY <1>2 DEF WithoutKey, RemoveFirstMatch

-----------------------------------------------------------------------------
(* The inductive invariant *)

\* The places at which a request is in the line of a lock.
Waiting == {"waiting"} \cup Locked

\* Who came when the quota was used up is not let past the gate; the count never falls.
QuotaInv ==
    \A r \in ChatRequests : chat[r].full =>
        /\ counted[SidOf(r)] >= Quota
        /\ chat[r].at = "checking" => chat[r].count >= Quota
        /\ chat[r].at \notin {"accepting", "binding"} \cup Streaming

\* A token is named by a request that is past the gate and found none.
TokenInv ==
    /\ \A k \in Keys : tokenOf[k] # None =>
        /\ KeyOf[tokenOf[k]] = k
        /\ chat[tokenOf[k]].at \in {"over"} \cup Streaming
    /\ \A r \in ChatRequests :
        chat[r].at = "binding" \/ (chat[r].at = "opening" /\ tokenOf[KeyOf[r]] = r)
            => chat[r].stored = None
    /\ TokensAgree

\* Who waits for a lock or has it is in its line, once, and the holder comes first.
LineInv ==
    /\ \A r \in ChatRequests : chat[r].at \in Waiting =>
        \E i \in DOMAIN line[chat[r].lock] : line[chat[r].lock][i] = r
    /\ \A r \in ChatRequests : chat[r].at \in Waiting => chat[r].lock \in ChatRequests
    /\ \A l \in ChatRequests : IsInjective(line[l])
    /\ \A l \in ChatRequests : \A i \in DOMAIN line[l] :
        chat[line[l][i]].at \in Waiting /\ chat[line[l][i]].lock = l
    /\ \A r \in ChatRequests : chat[r].at \in Locked => line[chat[r].lock][1] = r

\* A key has one lock in the cache, and it is the one its requests wait for, unless that
\* was evicted.
CacheInv ==
    /\ \A i, j \in DOMAIN locks : locks[i].key = locks[j].key => i = j
    /\ \A r \in ChatRequests : chat[r].at \in Waiting /\ chat[r].lock \notin evicted =>
        \E i \in DOMAIN locks : locks[i].key = KeyOf[r] /\ locks[i].lock = chat[r].lock

\* A turn begins once, under the lock, and is stored once, at its end.
BegunInv ==
    /\ \A k \in Keys : IsInjective(begun[k])
    /\ \A k \in Keys : \A i \in DOMAIN begun[k] :
        KeyOf[begun[k][i]] = k /\ chat[begun[k][i]].at \in {"over"} \cup Locked
    /\ \A r \in ChatRequests : chat[r].at \in Locked \/ r \in stray =>
        \E i \in DOMAIN begun[KeyOf[r]] : begun[KeyOf[r]][i] = r
    /\ \A r \in stray : chat[r].at = "over" /\ r \in strayed
    \* Nobody else of its session has begun since.
    /\ evicted = {} => \A r \in ChatRequests : chat[r].at \in Locked =>
        begun[KeyOf[r]][Len(begun[KeyOf[r]])] = r

\* What is stored are turns that are over, in the order in which they began.
StoredInv ==
    \A k \in Keys :
        /\ \A i \in DOMAIN turnsOf[k] :
            /\ chat[turnsOf[k][i]].at = "over"
            /\ \E a \in DOMAIN begun[k] : begun[k][a] = turnsOf[k][i]
        /\ evicted = {} => \A i, j \in DOMAIN turnsOf[k] : i < j =>
            \/ turnsOf[k][i] \in strayed \/ turnsOf[k][j] \in strayed
            \/ \E a, b \in DOMAIN begun[k] :
                a < b /\ begun[k][a] = turnsOf[k][i] /\ begun[k][b] = turnsOf[k][j]

ChatInv ==
    /\ ChatTypeOK
    /\ QuotaInv
    /\ TokenInv
    /\ LineInv
    /\ CacheInv
    /\ BegunInv
    /\ StoredInv

-----------------------------------------------------------------------------
(* Steps that leave lines, locks and transcripts alone *)

LEMMA KeysAndSids ==
    \A r \in ChatRequests : KeyOf[r] \in Keys /\ SidOf(r) \in Sids
BY ChatRoutesAssumption DEF SidOf, Sids

\* Nobody comes to a lock, gets it or leaves it.
Settled ==
    \A q \in ChatRequests :
        /\ chat'[q].at \in Waiting <=> chat[q].at \in Waiting
        /\ chat'[q].at \in Locked <=> chat[q].at \in Locked
        /\ chat[q].at \in Waiting => chat'[q].lock = chat[q].lock
        /\ chat[q].at = "over" => chat'[q].at = "over"

LEMMA SettledKeeps ==
    ASSUME ChatInv, Settled, UNCHANGED <<turnsOf, lockVars, turnVars>>
    PROVE  LineInv' /\ CacheInv' /\ BegunInv' /\ StoredInv'
<1> USE DEF lockVars, turnVars, Settled
<1>a. /\ \A l \in ChatRequests : \A i \in DOMAIN line[l] : line[l][i] \in ChatRequests
      /\ \A k \in Keys : \A i \in DOMAIN begun[k] : begun[k][i] \in ChatRequests
      /\ \A k \in Keys : \A i \in DOMAIN turnsOf[k] : turnsOf[k][i] \in ChatRequests
      /\ stray \subseteq ChatRequests
  BY DEF ChatInv, ChatTypeOK
<1>1. LineInv'
  <2>1. \A q \in ChatRequests : chat'[q].at \in Waiting =>
          \E i \in DOMAIN line[chat'[q].lock] : line[chat'[q].lock][i] = q
    BY DEF ChatInv, LineInv
  <2>2. \A q \in ChatRequests : chat'[q].at \in Waiting => chat'[q].lock \in ChatRequests
    BY DEF ChatInv, LineInv
  <2>3. \A l \in ChatRequests : \A i \in DOMAIN line[l] :
          chat'[line[l][i]].at \in Waiting /\ chat'[line[l][i]].lock = l
    BY <1>a DEF ChatInv, LineInv
  <2>4. \A q \in ChatRequests : chat'[q].at \in Locked => line[chat'[q].lock][1] = q
    BY DEF ChatInv, LineInv, Waiting
  <2>5. QED
    BY <2>1, <2>2, <2>3, <2>4 DEF ChatInv, LineInv
<1>2. CacheInv'
  BY DEF ChatInv, CacheInv
<1>3. BegunInv'
  <2>1. \A k \in Keys : \A i \in DOMAIN begun[k] :
          KeyOf[begun[k][i]] = k /\ chat'[begun[k][i]].at \in {"over"} \cup Locked
    BY <1>a DEF ChatInv, BegunInv
  <2>2. \A q \in stray : chat'[q].at = "over" /\ q \in strayed
    BY <1>a DEF ChatInv, BegunInv
  <2>3. \A q \in ChatRequests : chat'[q].at \in Locked \/ q \in stray =>
          \E i \in DOMAIN begun[KeyOf[q]] : begun[KeyOf[q]][i] = q
    BY DEF ChatInv, BegunInv
  <2>4. evicted = {} => \A q \in ChatRequests : chat'[q].at \in Locked =>
          begun[KeyOf[q]][Len(begun[KeyOf[q]])] = q
    BY DEF ChatInv, BegunInv
  <2>5. QED
    BY <2>1, <2>2, <2>3, <2>4 DEF ChatInv, BegunInv
<1>4. StoredInv'
  <2>1. \A k \in Keys : \A i \in DOMAIN turnsOf[k] : chat'[turnsOf[k][i]].at = "over"
    BY <1>a DEF ChatInv, StoredInv
  <2>2. QED
    BY <2>1 DEF ChatInv, StoredInv
<1>5. QED
  BY <1>1, <1>2, <1>3, <1>4

\* The gate is over for whoever moves, and a client that has gone stays away.
Past ==
    /\ UNCHANGED <<tokenOf, counted, wallet>>
    /\ \A q \in ChatRequests :
        \/ chat'[q] = chat[q]
        \/ /\ chat[q].at \in Streaming
           /\ chat'[q].at \in {"over"} \cup Streaming
           /\ chat'[q].full => chat[q].full
           /\ chat[q].gone => chat'[q].gone
           /\ chat[q].at = "opening" => chat'[q].at = "opening" \/ chat'[q].gone
           /\ chat'[q].at = "opening" => chat[q].at = "opening" /\ chat'[q].stored = chat[q].stored

LEMMA PastKeeps == ASSUME ChatInv, Past PROVE QuotaInv' /\ TokenInv'
<1> USE DEF Past
<1>1. QuotaInv'
  BY DEF ChatInv, QuotaInv, Streaming, Locked
<1>2. TokensAgree'
  <2>1. TokensHeldAreStored'
    BY DEF ChatInv, TokenInv, TokensAgree, TokensHeldAreStored
  <2>2. OwnerCanReturn'
    <3>1. SUFFICES ASSUME NEW k \in Keys, tokenOf[k] # None
                   PROVE  \/ tokenOf[k] \in wallet[ClientOf[tokenOf[k]]]
                          \/ chat'[tokenOf[k]].at = "opening"
                          \/ chat'[tokenOf[k]].gone
      BY DEF OwnerCanReturn, At
    <3>2. tokenOf[k] \in ChatRequests
      BY <3>1 DEF ChatInv, ChatTypeOK, Token
    <3>3. QED
      BY <3>1, <3>2 DEF ChatInv, TokenInv, TokensAgree, OwnerCanReturn, At
  <2>3. QED
    BY <2>1, <2>2 DEF TokensAgree
<1>3. TokenInv'
  <2>1. ASSUME NEW k \in Keys, tokenOf[k] # None
        PROVE  KeyOf[tokenOf[k]] = k /\ chat'[tokenOf[k]].at \in {"over"} \cup Streaming
    <3>1. tokenOf[k] \in ChatRequests
      BY <2>1 DEF ChatInv, ChatTypeOK, Token
    <3>2. QED
      BY <2>1, <3>1 DEF ChatInv, TokenInv
  <2>2. ASSUME NEW r \in ChatRequests,
               chat'[r].at = "binding" \/ (chat'[r].at = "opening" /\ tokenOf[KeyOf[r]] = r)
        PROVE  chat'[r].stored = None
    BY <2>2 DEF ChatInv, TokenInv, Streaming, Locked
  <2>3. QED
    BY <1>2, <2>1, <2>2 DEF TokenInv
<1>4. QED
  BY <1>1, <1>3

LEMMA Changed ==
    ASSUME ChatInv, NEW r \in ChatRequests, NEW n \in ChatState, chat' = [chat EXCEPT ![r] = n]
    PROVE  /\ chat' \in [ChatRequests -> ChatState]
           /\ chat'[r] = n
           /\ \A q \in ChatRequests \ {r} : chat'[q] = chat[q]
BY DEF ChatInv, ChatTypeOK

-----------------------------------------------------------------------------
(* The gate *)

\* The places at which a request knows no lock.
Early == ChatPlaces \ Streaming

LEMMA EarlySettled ==
    ASSUME NEW r \in ChatRequests, chat[r].at \notin {"over"} \cup Waiting,
           chat'[r].at \notin Waiting,
           \A q \in ChatRequests \ {r} : chat'[q] = chat[q]
    PROVE  Settled
BY DEF Settled, Waiting

\* A step of the gate that stores nothing.
LEMMA GateKeeps ==
    ASSUME ChatInv, NEW r \in ChatRequests, NEW n \in ChatState, chat' = [chat EXCEPT ![r] = n],
           UNCHANGED <<storeVars, lockVars, turnVars, wallet>>,
           chat[r].at \in Early \ {"over"},
           n.at \in Early \/ (n.at = "opening" /\ tokenOf[KeyOf[r]] # r),
           n.at = "binding" => n.stored = None,
           n.full => /\ counted[SidOf(r)] >= Quota
                     /\ n.at = "checking" => n.count >= Quota
                     /\ n.at \notin {"accepting", "binding", "opening"}
    PROVE  ChatInv'
<1>1. /\ chat' \in [ChatRequests -> ChatState]
      /\ chat'[r] = n
      /\ \A q \in ChatRequests \ {r} : chat'[q] = chat[q]
  BY Changed
<1>2. ChatTypeOK'
  BY <1>1 DEF ChatInv, ChatTypeOK, storeVars, lockVars, turnVars
<1>3. LineInv' /\ CacheInv' /\ BegunInv' /\ StoredInv'
  <2>1. Settled
    BY <1>1, EarlySettled DEF Early, Streaming, Waiting, Locked
  <2>2. QED
    BY <2>1, SettledKeeps DEF storeVars
<1>4. QuotaInv'
  BY <1>1 DEF ChatInv, QuotaInv, Early, Streaming, Locked, storeVars
<1>5. \A k \in Keys : tokenOf[k] # r
  BY ChatNoneAssumption DEF ChatInv, TokenInv, Early
<1>6. TokensAgree'
  BY <1>1, <1>5 DEF ChatInv, TokenInv, TokensAgree, TokensHeldAreStored, OwnerCanReturn, At,
     ChatTypeOK, Token, storeVars
<1>7. TokenInv'
  BY <1>1, <1>5, <1>6 DEF ChatInv, TokenInv, ChatTypeOK, Token, storeVars, Early, Streaming
<1>8. QED
  BY <1>2, <1>3, <1>4, <1>7 DEF ChatInv

LEMMA StateOf ==
    ASSUME ChatInv, NEW r \in ChatRequests
    PROVE  /\ chat[r] \in ChatState
           /\ chat[r].at \in ChatPlaces /\ chat[r].count \in Nat
           /\ tokenOf[KeyOf[r]] \in Token /\ counted[SidOf(r)] \in Nat
           /\ chat[r].full => counted[SidOf(r)] >= Quota
<1>1. chat[r] \in ChatState
  BY DEF ChatInv, ChatTypeOK
<1>2. QED
  BY <1>1, KeysAndSids DEF ChatInv, ChatTypeOK, QuotaInv, ChatState

LEMMA GatePlaces ==
    /\ {"new", "transcribing", "authorizing", "counting", "checking", "accepting", "binding"}
          \subseteq Early \ {"over"}
    /\ "over" \in Early
BY DEF Early, ChatPlaces, Streaming, Locked

LEMMA ArriveKeeps == ASSUME ChatInv, NEW r \in ChatRequests, Arrive(r) PROVE ChatInv'
<1>1. PICK t \in TokensFor(r) :
        chat' = [chat EXCEPT
            ![r].at = IF r \in Voice THEN "transcribing" ELSE "authorizing",
            ![r].presented = t,
            ![r].full = counted[SidOf(r)] >= Quota]
  BY DEF Arrive
<1>2. t \in Token
  <2>1. ClientOf[r] \in Clients
    BY DEF Clients
  <2>2. wallet[ClientOf[r]] \subseteq ChatRequests
    BY <2>1 DEF ChatInv, ChatTypeOK
  <2>3. QED
    BY <2>2 DEF TokensFor, Token
<1> DEFINE place == IF r \in Voice THEN "transcribing" ELSE "authorizing"
           late == counted[SidOf(r)] >= Quota
           n == [chat[r] EXCEPT !.at = place, !.presented = t, !.full = late]
<1>3. chat' = [chat EXCEPT ![r] = n]
  BY <1>1
<1>4. /\ place \in {"transcribing", "authorizing"} /\ place \in ChatPlaces /\ late \in BOOLEAN
  BY DEF ChatPlaces
<1>5. late => counted[SidOf(r)] >= Quota
  OBVIOUS
<1> HIDE DEF place, late
<1>6. n \in ChatState /\ n.at = place /\ n.full = late
  BY <1>2, <1>4, StateOf DEF ChatState
<1> HIDE DEF n
<1>7. /\ chat[r].at \in Early \ {"over"} /\ n.at \in Early
      /\ n.at \notin {"checking", "accepting", "binding", "opening"}
      /\ UNCHANGED <<storeVars, lockVars, turnVars, wallet>>
  BY <1>4, <1>6, GatePlaces DEF Arrive, At
<1>8. QED
  BY <1>3, <1>5, <1>6, <1>7, GateKeeps

\* A request that ends knows nothing any more.
LEMMA OverIsOver ==
    ASSUME ChatInv, NEW r \in ChatRequests
    PROVE  /\ Over(r) \in ChatState /\ Over(r).at = "over" /\ ~Over(r).full
           /\ Over(r).gone = chat[r].gone
BY DEF ChatInv, ChatTypeOK, ChatState, ChatPlaces, Over, Fresh, Token

LEMMA GateEnds ==
    ASSUME ChatInv, NEW r \in ChatRequests, Ends(r),
           UNCHANGED <<storeVars, lockVars, turnVars, wallet>>,
           chat[r].at \in Early \ {"over"}
    PROVE  ChatInv'
<1> DEFINE n == Over(r)
<1>1. n \in ChatState /\ n.at = "over" /\ ~n.full
  BY OverIsOver
<1>2. chat' = [chat EXCEPT ![r] = n]
  BY DEF Ends
<1> HIDE DEF n
<1>3. n.at \in Early
  BY <1>1, GatePlaces
<1>4. QED
  BY <1>1, <1>2, <1>3, GateKeeps

\* What a request is after a move.
LEMMA Moved ==
    ASSUME ChatInv, NEW r \in ChatRequests, NEW p \in ChatPlaces, Move(r, p)
    PROVE  \E n \in ChatState : /\ chat' = [chat EXCEPT ![r] = n]
                                /\ n.at = p /\ n.lock = chat[r].lock
                                /\ n.full = chat[r].full /\ n.gone = chat[r].gone
                                /\ n.stored = chat[r].stored /\ n.count = chat[r].count
<1> DEFINE n == [chat[r] EXCEPT !.at = p]
<1>1. chat' = [chat EXCEPT ![r] = n]
  BY DEF Move
<1>2. /\ n \in ChatState /\ n.at = p /\ n.lock = chat[r].lock
      /\ n.full = chat[r].full /\ n.gone = chat[r].gone
      /\ n.stored = chat[r].stored /\ n.count = chat[r].count
  BY StateOf DEF ChatState
<1> HIDE DEF n
<1>3. QED
  BY <1>1, <1>2

LEMMA TranscribeKeeps == ASSUME ChatInv, NEW r \in ChatRequests, Transcribe(r) PROVE ChatInv'
<1>1. chat[r].at \in Early \ {"over"} /\ UNCHANGED <<storeVars, lockVars, turnVars, wallet>>
  BY GatePlaces DEF Transcribe, At
<1>2. CASE Ends(r)
  BY <1>1, <1>2, GateEnds
<1>3. CASE Move(r, "authorizing")
  <2>1. PICK n \in ChatState :
          /\ chat' = [chat EXCEPT ![r] = n]
          /\ n.at = "authorizing" /\ n.full = chat[r].full
    BY <1>3, Moved DEF ChatPlaces
  <2>2. n.full => counted[SidOf(r)] >= Quota
    BY <2>1, StateOf
  <2>3. n.at \in Early
    BY <2>1, GatePlaces
  <2>4. QED
    BY <1>1, <2>1, <2>2, <2>3, GateKeeps
<1>4. QED
  BY <1>2, <1>3 DEF Transcribe

LEMMA AuthorizeKeeps == ASSUME ChatInv, NEW r \in ChatRequests, Authorize(r) PROVE ChatInv'
<1>1. chat[r].at \in Early \ {"over"} /\ UNCHANGED <<storeVars, lockVars, turnVars, wallet>>
  BY GatePlaces DEF Authorize, At
<1>2. CASE Ends(r)
  BY <1>1, <1>2, GateEnds
<1>3. CASE ~Ends(r)
  <2> DEFINE n == [chat[r] EXCEPT
                    !.at = "counting", !.stored = tokenOf[KeyOf[r]], !.presented = None]
  <2>1. chat' = [chat EXCEPT ![r] = n]
    BY <1>3 DEF Authorize
  <2>2. n \in ChatState /\ n.at = "counting" /\ n.full = chat[r].full
    BY StateOf DEF ChatState, ChatPlaces, Token
  <2> HIDE DEF n
  <2>3. n.full => counted[SidOf(r)] >= Quota
    BY <2>2, StateOf
  <2>4. n.at \in Early
    BY <2>2, GatePlaces
  <2>5. QED
    BY <1>1, <2>1, <2>2, <2>3, <2>4, GateKeeps
<1>4. QED
  BY <1>2, <1>3

LEMMA ReadCountKeeps == ASSUME ChatInv, NEW r \in ChatRequests, ReadCount(r) PROVE ChatInv'
<1> DEFINE n == [chat[r] EXCEPT !.at = "checking", !.count = counted[SidOf(r)]]
<1>1. chat[r].at \in Early \ {"over"} /\ UNCHANGED <<storeVars, lockVars, turnVars, wallet>>
  BY GatePlaces DEF ReadCount, At
<1>2. chat' = [chat EXCEPT ![r] = n]
  BY DEF ReadCount
<1>3. n \in ChatState /\ n.at = "checking" /\ n.full = chat[r].full /\ n.count = counted[SidOf(r)]
  BY StateOf DEF ChatState, ChatPlaces
<1> HIDE DEF n
<1>4. n.full => counted[SidOf(r)] >= Quota
  BY <1>3, StateOf
<1>5. n.at \in Early
  BY <1>3, GatePlaces
<1>6. QED
  BY <1>1, <1>2, <1>3, <1>4, <1>5, GateKeeps

LEMMA CheckKeeps == ASSUME ChatInv, NEW r \in ChatRequests, Check(r) PROVE ChatInv'
<1>1. chat[r].at \in Early \ {"over"} /\ UNCHANGED <<storeVars, lockVars, turnVars, wallet>>
  BY GatePlaces DEF Check, At
<1>2. CASE Ends(r)
  BY <1>1, <1>2, GateEnds
<1>3. CASE ~Ends(r)
  <2> DEFINE n == [chat[r] EXCEPT !.at = "accepting", !.count = 0]
  <2>1. chat' = [chat EXCEPT ![r] = n] /\ chat[r].count < Quota /\ chat[r].at = "checking"
    BY <1>3 DEF Check, At
  <2>2. n \in ChatState /\ n.at = "accepting" /\ n.full = chat[r].full
    BY StateOf DEF ChatState, ChatPlaces
  <2> HIDE DEF n
  <2>3. ~n.full
    BY <2>1, <2>2, StateOf, ChatLimitsAssumption DEF ChatInv, QuotaInv
  <2>4. n.at \in Early
    BY <2>2, GatePlaces
  <2>5. QED
    BY <1>1, <2>1, <2>2, <2>3, <2>4, GateKeeps
<1>4. QED
  BY <1>2, <1>3

\* The turn is counted: what was used up stays used up.
LEMMA CountedKeeps ==
    ASSUME ChatInv, NEW r \in ChatRequests, NEW n \in ChatState, chat' = [chat EXCEPT ![r] = n],
           counted' = [counted EXCEPT ![SidOf(r)] = @ + 1],
           UNCHANGED <<tokenOf, turnsOf, lockVars, turnVars, wallet>>,
           chat[r].at = "accepting",
           n.at \in {"binding", "opening"}, n.full = chat[r].full, n.stored = chat[r].stored,
           n.at = "binding" => n.stored = None
    PROVE  ChatInv'
<1>1. /\ chat' \in [ChatRequests -> ChatState]
      /\ chat'[r] = n
      /\ \A q \in ChatRequests \ {r} : chat'[q] = chat[q]
  BY Changed
<1>2. /\ counted' \in [Sids -> Nat]
      /\ \A s \in Sids : counted'[s] >= counted[s]
  BY KeysAndSids DEF ChatInv, ChatTypeOK
<1>3. ChatTypeOK'
  BY <1>1, <1>2 DEF ChatInv, ChatTypeOK, lockVars, turnVars
<1>4. LineInv' /\ CacheInv' /\ BegunInv' /\ StoredInv'
  <2>1. Settled
    BY <1>1, EarlySettled DEF Waiting, Locked
  <2>2. QED
    BY <2>1, SettledKeeps
<1>5. ~n.full
  BY DEF ChatInv, QuotaInv
<1>6. QuotaInv'
  <2>1. SUFFICES ASSUME NEW q \in ChatRequests, chat'[q].full
                 PROVE  /\ counted'[SidOf(q)] >= Quota
                        /\ chat'[q].at = "checking" => chat'[q].count >= Quota
                        /\ chat'[q].at \notin {"accepting", "binding"} \cup Streaming
    BY DEF QuotaInv
  <2>2. q # r /\ chat'[q] = chat[q]
    BY <1>1, <1>5, <2>1
  <2>3. SidOf(q) \in Sids /\ counted[SidOf(q)] \in Nat /\ counted'[SidOf(q)] \in Nat
    BY <1>2, KeysAndSids DEF ChatInv, ChatTypeOK
  <2>4. counted'[SidOf(q)] >= Quota
    BY <1>2, <2>1, <2>2, <2>3, StateOf, ChatLimitsAssumption
  <2>5. QED
    BY <2>1, <2>2, <2>4 DEF ChatInv, QuotaInv
<1>7. \A k \in Keys : tokenOf[k] # r
  BY ChatNoneAssumption DEF ChatInv, TokenInv, Streaming, Locked
<1>8. TokensAgree'
  BY <1>1, <1>7 DEF ChatInv, TokenInv, TokensAgree, TokensHeldAreStored, OwnerCanReturn, At,
     ChatTypeOK, Token
<1>9. TokenInv'
  BY <1>1, <1>7, <1>8, KeysAndSids DEF ChatInv, TokenInv, ChatTypeOK, Token
<1>10. QED
  BY <1>3, <1>4, <1>6, <1>9 DEF ChatInv

LEMMA AcceptKeeps == ASSUME ChatInv, NEW r \in ChatRequests, Accept(r) PROVE ChatInv'
<1>1. chat[r].at = "accepting" /\ UNCHANGED <<tokenOf, turnsOf, lockVars, turnVars, wallet>>
  BY DEF Accept, At
<1>2. CASE Ends(r) /\ UNCHANGED counted
  BY <1>1, <1>2, GateEnds, GatePlaces DEF storeVars
<1>3. CASE /\ Move(r, IF chat[r].stored = None THEN "binding" ELSE "opening")
           /\ counted' = [counted EXCEPT ![SidOf(r)] = @ + 1]
  <2> DEFINE p == IF chat[r].stored = None THEN "binding" ELSE "opening"
  <2>1. p \in ChatPlaces /\ p \in {"binding", "opening"} /\ (p = "binding" => chat[r].stored = None)
    BY DEF ChatPlaces
  <2>2. Move(r, p)
    BY <1>3
  <2> HIDE DEF p
  <2>3. PICK n \in ChatState :
          /\ chat' = [chat EXCEPT ![r] = n]
          /\ n.at = p /\ n.full = chat[r].full /\ n.stored = chat[r].stored
    BY <2>1, <2>2, Moved
  <2>4. QED
    BY <1>1, <1>3, <2>1, <2>3, CountedKeeps
<1>4. QED
  BY <1>2, <1>3 DEF Accept

\* The token is bound, to whoever came first.
LEMMA BoundKeeps ==
    ASSUME ChatInv, NEW r \in ChatRequests, NEW n \in ChatState, chat' = [chat EXCEPT ![r] = n],
           tokenOf' = [tokenOf EXCEPT ![KeyOf[r]] = IF @ = None THEN r ELSE @],
           UNCHANGED <<counted, turnsOf, lockVars, turnVars, wallet>>,
           chat[r].at = "binding",
           n.at = "opening", n.full = chat[r].full, n.stored = chat[r].stored
    PROVE  ChatInv'
<1>1. /\ chat' \in [ChatRequests -> ChatState]
      /\ chat'[r] = n
      /\ \A q \in ChatRequests \ {r} : chat'[q] = chat[q]
  BY Changed
<1>2. /\ tokenOf' \in [Keys -> Token]
      /\ \A k \in Keys : \/ tokenOf'[k] = tokenOf[k]
                         \/ k = KeyOf[r] /\ tokenOf[k] = None /\ tokenOf'[k] = r
  BY KeysAndSids DEF ChatInv, ChatTypeOK, Token
<1>3. ChatTypeOK'
  BY <1>1, <1>2 DEF ChatInv, ChatTypeOK, lockVars, turnVars
<1>4. LineInv' /\ CacheInv' /\ BegunInv' /\ StoredInv'
  <2>1. Settled
    BY <1>1, EarlySettled DEF Waiting, Locked
  <2>2. QED
    BY <2>1, SettledKeeps
<1>5. ~n.full /\ n.stored = None
  BY DEF ChatInv, QuotaInv, TokenInv
<1>6. QuotaInv'
  BY <1>1, <1>5 DEF ChatInv, QuotaInv
<1>7. \A k \in Keys : tokenOf[k] # r
  BY ChatNoneAssumption DEF ChatInv, TokenInv, Streaming, Locked
<1>8. TokensHeldAreStored'
  <2>1. SUFFICES ASSUME NEW c \in Clients, NEW t \in wallet[c] PROVE tokenOf'[KeyOf[t]] = t
    BY DEF TokensHeldAreStored
  <2>2. t \in ChatRequests
    BY DEF ChatInv, ChatTypeOK
  <2>3. tokenOf[KeyOf[t]] = t /\ t # None
    BY <2>2, ChatNoneAssumption DEF ChatInv, TokenInv, TokensAgree, TokensHeldAreStored
  <2>4. QED
    BY <1>2, <2>2, <2>3, KeysAndSids
<1>9. OwnerCanReturn'
  <2>1. SUFFICES ASSUME NEW k \in Keys, tokenOf'[k] # None
                 PROVE  \/ tokenOf'[k] \in wallet[ClientOf[tokenOf'[k]]]
                        \/ chat'[tokenOf'[k]].at = "opening"
                        \/ chat'[tokenOf'[k]].gone
    BY DEF OwnerCanReturn, At
  <2>2. CASE tokenOf'[k] = r
    BY <1>1, <2>2
  <2>3. CASE tokenOf'[k] = tokenOf[k]
    <3>1. tokenOf[k] \in ChatRequests \ {r}
      BY <1>7, <2>1, <2>3 DEF ChatInv, ChatTypeOK, Token
    <3>2. QED
      BY <1>1, <2>1, <2>3, <3>1 DEF ChatInv, TokenInv, TokensAgree, OwnerCanReturn, At
  <2>4. QED
    BY <1>2, <2>2, <2>3
<1>10. TokenInv'
  <2>1. ASSUME NEW k \in Keys, tokenOf'[k] # None
        PROVE  KeyOf[tokenOf'[k]] = k /\ chat'[tokenOf'[k]].at \in {"over"} \cup Streaming
    <3>1. CASE tokenOf'[k] = r /\ k = KeyOf[r]
      BY <1>1, <3>1 DEF Streaming
    <3>2. CASE tokenOf'[k] = tokenOf[k]
      <4>1. tokenOf[k] \in ChatRequests \ {r}
        BY <1>7, <2>1, <3>2 DEF ChatInv, ChatTypeOK, Token
      <4>2. QED
        BY <1>1, <2>1, <3>2, <4>1 DEF ChatInv, TokenInv
    <3>3. QED
      BY <1>2, <3>1, <3>2
  <2>2. ASSUME NEW q \in ChatRequests,
               chat'[q].at = "binding" \/ (chat'[q].at = "opening" /\ tokenOf'[KeyOf[q]] = q)
        PROVE  chat'[q].stored = None
    <3>1. CASE q = r
      BY <1>1, <1>5, <3>1
    <3>2. CASE q # r
      BY <1>1, <1>2, <2>2, <3>2, KeysAndSids DEF ChatInv, TokenInv
    <3>3. QED
      BY <3>1, <3>2
  <2>3. QED
    BY <1>8, <1>9, <2>1, <2>2 DEF TokenInv, TokensAgree
<1>11. QED
  BY <1>3, <1>4, <1>6, <1>10 DEF ChatInv

LEMMA BindKeeps == ASSUME ChatInv, NEW r \in ChatRequests, Bind(r) PROVE ChatInv'
<1>1. chat[r].at = "binding" /\ UNCHANGED <<counted, turnsOf, lockVars, turnVars, wallet>>
  BY DEF Bind, At
<1>2. CASE Ends(r) /\ UNCHANGED tokenOf
  BY <1>1, <1>2, GateEnds, GatePlaces DEF storeVars
<1>3. CASE Move(r, "opening") /\ tokenOf' = [tokenOf EXCEPT ![KeyOf[r]] = IF @ = None THEN r ELSE @]
  <2>1. PICK n \in ChatState :
          /\ chat' = [chat EXCEPT ![r] = n]
          /\ n.at = "opening" /\ n.full = chat[r].full /\ n.stored = chat[r].stored
    BY <1>3, Moved DEF ChatPlaces
  <2>2. QED
    BY <1>1, <1>3, <2>1, BoundKeeps
<1>4. QED
  BY <1>2, <1>3 DEF Bind

-----------------------------------------------------------------------------
(* Steps of a turn that keep its place in the line *)

LEMMA StreamKeeps ==
    ASSUME ChatInv, NEW r \in ChatRequests, NEW n \in ChatState, chat' = [chat EXCEPT ![r] = n],
           UNCHANGED <<storeVars, lockVars, turnVars, wallet>>,
           chat[r].at \in Streaming, n.at \in {"over"} \cup Streaming,
           n.at \in Waiting <=> chat[r].at \in Waiting,
           n.at \in Locked <=> chat[r].at \in Locked,
           n.lock = chat[r].lock \/ chat[r].at = "opening",
           n.full => chat[r].full,
           chat[r].gone => n.gone,
           chat[r].at = "opening" => n.at = "opening" \/ n.gone,
           n.at = "opening" => chat[r].at = "opening" /\ n.stored = chat[r].stored
    PROVE  ChatInv'
<1>1. /\ chat' \in [ChatRequests -> ChatState]
      /\ chat'[r] = n
      /\ \A q \in ChatRequests \ {r} : chat'[q] = chat[q]
  BY Changed
<1>2. ChatTypeOK'
  BY <1>1 DEF ChatInv, ChatTypeOK, storeVars, lockVars, turnVars
<1>3. Settled
  BY <1>1 DEF Settled, Streaming, Waiting, Locked
<1>4. LineInv' /\ CacheInv' /\ BegunInv' /\ StoredInv'
  BY <1>3, SettledKeeps DEF storeVars
<1>5. Past
  BY <1>1 DEF Past, storeVars
<1>6. QuotaInv' /\ TokenInv'
  BY <1>5, PastKeeps
<1>7. QED
  BY <1>2, <1>4, <1>6 DEF ChatInv

\* A move from one place under the lock to another.
LEMMA LockedMoveKeeps ==
    ASSUME ChatInv, NEW r \in ChatRequests, NEW p \in Locked, chat[r].at \in Locked, Move(r, p),
           UNCHANGED <<storeVars, lockVars, turnVars, wallet>>
    PROVE  ChatInv'
<1>1. p \in ChatPlaces /\ p \in Waiting /\ p \in Streaming /\ p # "opening"
  BY DEF Locked, ChatPlaces, Streaming, Waiting
<1>2. chat[r].at \in Waiting /\ chat[r].at \in Streaming /\ chat[r].at # "opening"
  BY DEF Locked, Streaming, Waiting
<1>3. PICK n \in ChatState :
        /\ chat' = [chat EXCEPT ![r] = n]
        /\ n.at = p /\ n.lock = chat[r].lock /\ n.full = chat[r].full /\ n.gone = chat[r].gone
  BY <1>1, Moved
<1>4. QED
  BY <1>1, <1>2, <1>3, StreamKeeps

LEMMA UnopenedKeeps == ASSUME ChatInv, NEW r \in ChatRequests, Unopened(r) PROVE ChatInv'
<1>1. /\ chat[r].at = "opening" /\ chat[r].gone /\ Ends(r)
      /\ UNCHANGED <<storeVars, lockVars, turnVars, wallet>>
  BY DEF Unopened, At
<1> DEFINE n == Over(r)
<1>2. n \in ChatState /\ n.at = "over" /\ ~n.full /\ n.gone = chat[r].gone
  BY OverIsOver
<1>3. chat' = [chat EXCEPT ![r] = n]
  BY <1>1 DEF Ends
<1> HIDE DEF n
<1>4. /\ "opening" \in Streaming /\ "opening" \notin Waiting /\ "opening" \notin Locked
      /\ "over" \notin Waiting /\ "over" \notin Locked
  BY DEF Streaming, Waiting, Locked
<1>5. QED
  BY <1>1, <1>2, <1>3, <1>4, StreamKeeps

LEMMA DisconnectKeeps == ASSUME ChatInv, NEW r \in ChatRequests, Disconnect(r) PROVE ChatInv'
<1>1. /\ chat[r].at \in Streaming /\ chat' = [chat EXCEPT ![r].gone = TRUE]
      /\ UNCHANGED <<storeVars, lockVars, turnVars, wallet>>
  BY DEF Disconnect
<1> DEFINE n == [chat[r] EXCEPT !.gone = TRUE]
<1>2. chat' = [chat EXCEPT ![r] = n]
  BY <1>1
<1>3. /\ n \in ChatState /\ n.at = chat[r].at /\ n.lock = chat[r].lock /\ n.gone
      /\ n.full = chat[r].full /\ n.stored = chat[r].stored
  BY StateOf DEF ChatState
<1> HIDE DEF n
<1>4. QED
  BY <1>1, <1>2, <1>3, StreamKeeps

LEMMA SeesLatchKeeps == ASSUME ChatInv, NEW r \in ChatRequests, SeesLatch(r) PROVE ChatInv'
BY LockedMoveKeeps DEF SeesLatch, At, Locked

LEMMA FinalizeKeeps == ASSUME ChatInv, NEW r \in ChatRequests, Finalize(r) PROVE ChatInv'
BY LockedMoveKeeps DEF Finalize, At, Locked

LEMMA RunEndsKeeps == ASSUME ChatInv, NEW r \in ChatRequests, RunEnds(r) PROVE ChatInv'
BY LockedMoveKeeps DEF RunEnds, At, Locked

-----------------------------------------------------------------------------
(* Entering *)

\* Of one lock, one turn runs; of one session, while no lock is evicted.
LEMMA OneRuns ==
    ASSUME ChatInv, NEW r \in ChatRequests, NEW q \in ChatRequests,
           chat[r].at \in Waiting, line[chat[r].lock][1] = r, chat[q].at \in Locked,
           KeyOf[r] = KeyOf[q], chat[r].lock \notin evicted, chat[q].lock \notin evicted
    PROVE  r = q
<1>1. chat[q].at \in Waiting
  BY DEF Waiting
<1>2. PICK i \in DOMAIN locks : locks[i].key = KeyOf[r] /\ locks[i].lock = chat[r].lock
  BY DEF ChatInv, CacheInv
<1>3. PICK j \in DOMAIN locks : locks[j].key = KeyOf[q] /\ locks[j].lock = chat[q].lock
  BY <1>1 DEF ChatInv, CacheInv
<1>4. chat[r].lock = chat[q].lock
  BY <1>2, <1>3 DEF ChatInv, CacheInv
<1>5. QED
  BY <1>4 DEF ChatInv, LineInv

LEMMA EnterKeeps == ASSUME ChatInv, NEW r \in ChatRequests, Enter(r) PROVE ChatInv'
<1>1. /\ chat[r].at = "waiting" /\ Move(r, "preparing")
      /\ Head(line[chat[r].lock]) = r
      /\ begun' = [begun EXCEPT ![KeyOf[r]] = Append(@, r)]
      /\ UNCHANGED <<storeVars, lockVars, stray, strayed, wallet>>
  BY DEF Enter, At
<1>2. /\ "waiting" \in Waiting /\ "waiting" \notin Locked /\ "waiting" \in Streaming
      /\ "preparing" \in Waiting /\ "preparing" \in Locked /\ "preparing" \in Streaming
      /\ "preparing" \in ChatPlaces
  BY DEF Waiting, Locked, Streaming, ChatPlaces
<1>3. PICK n \in ChatState :
        /\ chat' = [chat EXCEPT ![r] = n]
        /\ n.at = "preparing" /\ n.lock = chat[r].lock
        /\ n.full = chat[r].full /\ n.gone = chat[r].gone
  BY <1>1, <1>2, Moved
<1>4. /\ chat' \in [ChatRequests -> ChatState]
      /\ chat'[r] = n
      /\ \A q \in ChatRequests \ {r} : chat'[q] = chat[q]
  BY <1>3, Changed
<1> DEFINE k0 == KeyOf[r]
           b == begun[k0]
<1>5. k0 \in Keys /\ b \in Seq(ChatRequests)
  BY KeysAndSids DEF ChatInv, ChatTypeOK
<1>6. /\ begun' \in [Keys -> Seq(ChatRequests)]
      /\ \A k \in Keys \ {k0} : begun'[k] = begun[k]
      /\ begun'[k0] = Append(b, r)
      /\ DOMAIN begun'[k0] = 1 .. Len(b) + 1 /\ DOMAIN b = 1 .. Len(b) /\ Len(b) \in Nat
      /\ Len(begun'[k0]) = Len(b) + 1
      /\ \A i \in 1 .. Len(b) : begun'[k0][i] = b[i]
      /\ begun'[k0][Len(b) + 1] = r
  <2>1. Append(b, r) \in Seq(ChatRequests)
    BY <1>5, AppendProperties
  <2>2. begun'[k0] = Append(b, r) /\ begun' \in [Keys -> Seq(ChatRequests)]
        /\ \A k \in Keys \ {k0} : begun'[k] = begun[k]
    BY <1>1, <1>5, <2>1 DEF ChatInv, ChatTypeOK
  <2>3. QED
    BY <1>5, <2>1, <2>2, AppendProperties, LenProperties
<1>7. ChatTypeOK'
  BY <1>1, <1>4, <1>6 DEF ChatInv, ChatTypeOK, storeVars, lockVars
<1>8. QuotaInv' /\ TokenInv'
  <2>1. Past
    BY <1>1, <1>2, <1>3, <1>4 DEF Past, storeVars
  <2>2. QED
    BY <2>1, PastKeeps
<1>9. line[chat[r].lock][1] = r
  <2>1. chat[r].lock \in ChatRequests
    BY <1>1, <1>2 DEF ChatInv, LineInv
  <2>2. PICK i \in DOMAIN line[chat[r].lock] : line[chat[r].lock][i] = r
    BY <1>1, <1>2 DEF ChatInv, LineInv
  <2>3. QED
    BY <1>1, <2>1, <2>2
<1>10. LineInv'
  <2>1. \A q \in ChatRequests :
          /\ chat'[q].at \in Waiting <=> chat[q].at \in Waiting
          /\ chat'[q].lock = chat[q].lock
          /\ chat'[q].at \in Locked => chat[q].at \in Locked \/ q = r
    BY <1>1, <1>2, <1>3, <1>4
  <2>2. \A l \in ChatRequests : \A i \in DOMAIN line[l] : line[l][i] \in ChatRequests
    BY DEF ChatInv, ChatTypeOK
  <2>3. QED
    BY <1>1, <1>9, <2>1, <2>2 DEF ChatInv, LineInv, lockVars
<1>11. CacheInv'
  BY <1>1, <1>2, <1>3, <1>4 DEF ChatInv, CacheInv, lockVars
<1>12. BegunInv'
  <2> HIDE DEF k0, b
  <2>a. \A k \in Keys : \A i \in DOMAIN begun[k] :
            i \in DOMAIN begun'[k] /\ begun'[k][i] = begun[k][i]
    BY <1>6 DEF b
  <2>b. \A k \in Keys : \A i \in DOMAIN begun'[k] :
            i \in DOMAIN begun[k] \/ (k = k0 /\ i = Len(b) + 1)
    BY <1>6 DEF b
  <2>0. \A i \in 1 .. Len(b) : b[i] \in ChatRequests \ {r}
    BY <1>1, <1>5, <1>6 DEF ChatInv, BegunInv, Locked, b
  <2>1. \A k \in Keys : IsInjective(begun'[k])
    <3>1. IsInjective(b)
      BY <1>5 DEF ChatInv, BegunInv, b
    <3>2. IsInjective(begun'[k0])
      BY <1>6, <2>0, <3>1 DEF IsInjective
    <3>3. QED
      BY <1>6, <3>2 DEF ChatInv, BegunInv
  <2>2. ASSUME NEW k \in Keys, NEW i \in DOMAIN begun'[k]
        PROVE  KeyOf[begun'[k][i]] = k /\ chat'[begun'[k][i]].at \in {"over"} \cup Locked
    <3>1. CASE k = k0 /\ i = Len(b) + 1
      BY <1>2, <1>3, <1>4, <1>6, <3>1 DEF k0
    <3>2. CASE ~(k = k0 /\ i = Len(b) + 1)
      <4>1. i \in DOMAIN begun[k] /\ begun'[k][i] = begun[k][i]
        BY <2>a, <2>b, <3>2
      <4>2. begun[k][i] \in ChatRequests
        BY <4>1 DEF ChatInv, ChatTypeOK
      <4>3. KeyOf[begun[k][i]] = k /\ chat[begun[k][i]].at \in {"over"} \cup Locked
        BY <4>1 DEF ChatInv, BegunInv
      <4>4. chat'[begun[k][i]].at \in {"over"} \cup Locked
        BY <1>2, <1>3, <1>4, <4>2, <4>3
      <4>5. QED
        BY <4>1, <4>3, <4>4
    <3>3. QED
      BY <3>1, <3>2
  <2>3. ASSUME NEW q \in ChatRequests, chat'[q].at \in Locked \/ q \in stray'
        PROVE  \E i \in DOMAIN begun'[KeyOf[q]] : begun'[KeyOf[q]][i] = q
    <3>1. CASE q = r
      BY <1>6, <3>1 DEF k0
    <3>2. CASE q # r
      <4>1. PICK i \in DOMAIN begun[KeyOf[q]] : begun[KeyOf[q]][i] = q
        BY <1>1, <1>4, <2>3, <3>2 DEF ChatInv, BegunInv
      <4>2. i \in DOMAIN begun'[KeyOf[q]] /\ begun'[KeyOf[q]][i] = q
        BY <2>a, <4>1, KeysAndSids
      <4>3. QED
        BY <4>2
    <3>3. QED
      BY <3>1, <3>2
  <2>4. \A q \in stray' : chat'[q].at = "over" /\ q \in strayed'
    BY <1>1, <1>4 DEF ChatInv, BegunInv, ChatTypeOK
  <2>5. ASSUME evicted' = {}, NEW q \in ChatRequests, chat'[q].at \in Locked
        PROVE  begun'[KeyOf[q]][Len(begun'[KeyOf[q]])] = q
    <3>1. CASE q = r
      BY <1>6, <3>1 DEF k0
    <3>2. CASE q # r
      <4>1. chat[q].at \in Locked /\ evicted = {}
        BY <1>1, <1>4, <2>5, <3>2 DEF lockVars
      <4>2. KeyOf[q] # k0
        BY <1>1, <1>2, <1>9, <3>2, <4>1, OneRuns DEF k0
      <4>3. QED
        BY <1>6, <4>1, <4>2, KeysAndSids DEF ChatInv, BegunInv
    <3>3. QED
      BY <3>1, <3>2
  <2>6. QED
    BY <2>1, <2>2, <2>3, <2>4, <2>5 DEF BegunInv
<1>13. StoredInv'
  <2>1. SUFFICES ASSUME NEW k \in Keys
                 PROVE  /\ \A i \in DOMAIN turnsOf[k] :
                            /\ chat'[turnsOf[k][i]].at = "over"
                            /\ \E a \in DOMAIN begun'[k] : begun'[k][a] = turnsOf[k][i]
                        /\ evicted = {} => \A i, j \in DOMAIN turnsOf[k] : i < j =>
                            \/ turnsOf[k][i] \in strayed \/ turnsOf[k][j] \in strayed
                            \/ \E a, c \in DOMAIN begun'[k] :
                                /\ a < c
                                /\ begun'[k][a] = turnsOf[k][i] /\ begun'[k][c] = turnsOf[k][j]
    <3>1. turnsOf' = turnsOf /\ evicted' = evicted /\ strayed' = strayed
      BY <1>1 DEF storeVars, lockVars
    <3>2. QED
      BY <3>1 DEF StoredInv
  <2>2. \A a \in DOMAIN begun[k] : a \in DOMAIN begun'[k] /\ begun'[k][a] = begun[k][a]
    <3>1. CASE k = k0
      <4>1. \A a \in 1 .. Len(b) : a \in 1 .. Len(b) + 1
        BY <1>6
      <4>2. QED
        BY <1>6, <3>1, <4>1
    <3>2. CASE k # k0
      BY <1>6, <3>2
    <3>3. QED
      BY <3>1, <3>2
  <2>3. \A i \in DOMAIN turnsOf[k] :
          turnsOf[k][i] \in ChatRequests /\ chat'[turnsOf[k][i]].at = "over"
    <3>1. \A i \in DOMAIN turnsOf[k] : turnsOf[k][i] \in ChatRequests
      BY DEF ChatInv, ChatTypeOK
    <3>2. QED
      BY <1>1, <1>4, <3>1 DEF ChatInv, StoredInv
  <2>4. QED
    BY <2>2, <2>3 DEF ChatInv, StoredInv
<1>14. QED
  BY <1>7, <1>8, <1>10, <1>11, <1>12, <1>13 DEF ChatInv

-----------------------------------------------------------------------------
(* Leaving *)

\* The line without the request that leaves: the others keep their order.
LEMMA LineWithout ==
    ASSUME ChatInv, NEW r \in ChatRequests, chat[r].at \in Waiting
    PROVE  LET l == chat[r].lock
               s == line[l]
               u == RemoveFirst(s, r)
           IN  /\ l \in ChatRequests /\ u \in Seq(ChatRequests)
               /\ \E i \in DOMAIN s :
                    /\ s[i] = r
                    /\ Len(u) = Len(s) - 1
                    /\ \A j \in DOMAIN u : u[j] = IF j < i THEN s[j] ELSE s[j + 1]
<1> DEFINE l == chat[r].lock
           s == line[l]
           u == RemoveFirst(s, r)
<1>1. l \in ChatRequests /\ s \in Seq(ChatRequests) /\ IsInjective(s)
  BY DEF ChatInv, LineInv, ChatTypeOK
<1>2. PICK i \in 1 .. Len(s) : s[i] = r
  BY <1>1 DEF ChatInv, LineInv
<1> HIDE DEF s
<1>3. u = RemoveAt(s, i)
  BY <1>1, <1>2, RemovedElement
<1> HIDE DEF u
<1>4. /\ u \in Seq(ChatRequests) /\ Len(u) = Len(s) - 1
      /\ \A j \in 1 .. Len(s) - 1 : u[j] = IF j < i THEN s[j] ELSE s[j + 1]
  BY <1>1, <1>2, <1>3, WithoutOne
<1>5. DOMAIN u = 1 .. Len(s) - 1 /\ DOMAIN s = 1 .. Len(s)
  BY <1>1, <1>4
<1>6. QED
  BY <1>1, <1>2, <1>4, <1>5 DEF s, u

LEMMA LeaveKeepsLines ==
    ASSUME ChatInv, NEW r \in ChatRequests, chat[r].at \in Waiting, Leave(r)
    PROVE  /\ chat' \in [ChatRequests -> ChatState] /\ line' \in [ChatRequests -> Seq(ChatRequests)]
           /\ chat'[r].at = "over" /\ ~chat'[r].full /\ chat'[r].gone = chat[r].gone
           /\ \A q \in ChatRequests \ {r} : chat'[q] = chat[q]
           /\ UNCHANGED <<locks, evicted>>
           /\ LineInv' /\ CacheInv'
<1> DEFINE o == Over(r)
           l == chat[r].lock
           s == line[l]
           u == RemoveFirst(s, r)
<1>1. o \in ChatState /\ o.at = "over" /\ ~o.full /\ o.gone = chat[r].gone
  BY OverIsOver
<1>2. /\ chat' = [chat EXCEPT ![r] = o]
      /\ line' = [line EXCEPT ![l] = u]
      /\ UNCHANGED <<locks, evicted>>
  BY DEF Leave, Ends
<1> HIDE DEF o
<1>3. /\ chat' \in [ChatRequests -> ChatState]
      /\ chat'[r] = o
      /\ \A q \in ChatRequests \ {r} : chat'[q] = chat[q]
  BY <1>1, <1>2, Changed
<1>4. /\ l \in ChatRequests /\ u \in Seq(ChatRequests)
      /\ \E i \in DOMAIN s :
            /\ s[i] = r
            /\ Len(u) = Len(s) - 1
            /\ \A j \in DOMAIN u : u[j] = IF j < i THEN s[j] ELSE s[j + 1]
  BY LineWithout
<1>5. /\ line' \in [ChatRequests -> Seq(ChatRequests)]
      /\ line'[l] = u
      /\ \A m \in ChatRequests \ {l} : line'[m] = line[m]
  BY <1>2, <1>4 DEF ChatInv, ChatTypeOK
<1>6. PICK i \in DOMAIN s :
        /\ s[i] = r
        /\ Len(u) = Len(s) - 1
        /\ \A j \in DOMAIN u : u[j] = IF j < i THEN s[j] ELSE s[j + 1]
  BY <1>4
<1>7. s \in Seq(ChatRequests) /\ IsInjective(s) /\ Len(s) \in Nat
      /\ DOMAIN s = 1 .. Len(s) /\ DOMAIN u = 1 .. Len(s) - 1 /\ i \in 1 .. Len(s)
  BY <1>4, <1>6 DEF ChatInv, ChatTypeOK, LineInv
<1> HIDE DEF u
<1>8. \A q \in ChatRequests : chat'[q].at \in Waiting => q # r /\ chat[q].at \in Waiting
  BY <1>1, <1>3 DEF Waiting, Locked
<1>9. LineInv'
  <2>1. ASSUME NEW q \in ChatRequests, chat'[q].at \in Waiting
        PROVE  \E j \in DOMAIN line'[chat'[q].lock] : line'[chat'[q].lock][j] = q
    <3>1. q # r /\ chat[q].at \in Waiting /\ chat'[q] = chat[q]
      BY <1>3, <1>8, <2>1
    <3>2. PICK j \in DOMAIN line[chat[q].lock] : line[chat[q].lock][j] = q
      BY <3>1 DEF ChatInv, LineInv
    <3>3. CASE chat[q].lock # l
      <4>1. chat[q].lock \in ChatRequests
        BY <3>1 DEF ChatInv, LineInv
      <4>2. QED
        BY <1>5, <3>1, <3>2, <3>3, <4>1
    <3>4. CASE chat[q].lock = l
      <4>1. j \in 1 .. Len(s) /\ s[j] = q /\ j # i
        BY <1>6, <1>7, <3>1, <3>2, <3>4
      <4>2. CASE j < i
        <5>1. j \in DOMAIN u /\ u[j] = q
          BY <1>6, <1>7, <4>1, <4>2
        <5>2. QED
          BY <1>5, <3>1, <3>4, <5>1
      <4>3. CASE j > i
        <5>1. j - 1 \in DOMAIN u /\ ~(j - 1 < i) /\ (j - 1) + 1 = j
          BY <1>7, <4>1, <4>3
        <5>2. u[j - 1] = s[(j - 1) + 1]
          BY <1>6, <5>1
        <5>3. j - 1 \in DOMAIN u /\ u[j - 1] = q
          BY <4>1, <5>1, <5>2
        <5>4. QED
          BY <1>5, <3>1, <3>4, <5>3
      <4>4. QED
        BY <1>7, <4>1, <4>2, <4>3
    <3>5. QED
      BY <3>3, <3>4
  <2>2. \A q \in ChatRequests : chat'[q].at \in Waiting => chat'[q].lock \in ChatRequests
    BY <1>3, <1>8 DEF ChatInv, LineInv
  <2>3. IsInjective(u)
    <3> DEFINE f(a) == IF a < i THEN a ELSE a + 1
    <3>1. \A a \in DOMAIN u : f(a) \in DOMAIN s
      BY <1>7
    <3>2. \A a, b \in DOMAIN u : f(a) = f(b) => a = b
      BY <1>7
    <3>3. \A a \in DOMAIN u : u[a] = s[f(a)]
      BY <1>6
    <3> HIDE DEF f
    <3>4. QED
      BY <1>7, <3>1, <3>2, <3>3 DEF IsInjective
  <2>4. \A m \in ChatRequests : IsInjective(line'[m])
    BY <1>5, <2>3 DEF ChatInv, LineInv
  <2>5. ASSUME NEW m \in ChatRequests, NEW j \in DOMAIN line'[m]
        PROVE  chat'[line'[m][j]].at \in Waiting /\ chat'[line'[m][j]].lock = m
    <3>1. PICK h \in DOMAIN line[m] : line'[m][j] = line[m][h] /\ line[m][h] # r
      <4>1. CASE m = l
        <5>1. j \in DOMAIN u /\ line'[m][j] = u[j]
          BY <1>5, <2>5, <4>1
        <5>2. CASE j < i
          BY <1>6, <1>7, <4>1, <5>1, <5>2 DEF IsInjective
        <5>3. CASE ~(j < i)
          <6>1. j + 1 \in DOMAIN s /\ u[j] = s[j + 1] /\ j + 1 # i
            BY <1>6, <1>7, <5>1, <5>3
          <6>2. s[j + 1] # r
            BY <1>6, <1>7, <6>1 DEF IsInjective
          <6>3. QED
            BY <4>1, <5>1, <6>1, <6>2
        <5>4. QED
          BY <5>2, <5>3
      <4>2. CASE m # l
        <5>1. line'[m] = line[m] /\ chat[line[m][j]].lock = m
          BY <1>5, <2>5, <4>2 DEF ChatInv, LineInv
        <5>2. QED
          BY <2>5, <4>2, <5>1
      <4>3. QED
        BY <4>1, <4>2
    <3>2. line[m][h] \in ChatRequests
      BY <3>1 DEF ChatInv, ChatTypeOK
    <3>3. chat'[line[m][h]] = chat[line[m][h]]
      BY <1>3, <3>1, <3>2
    <3>4. QED
      BY <3>1, <3>3 DEF ChatInv, LineInv
  <2>6. ASSUME NEW q \in ChatRequests, chat'[q].at \in Locked
        PROVE  line'[chat'[q].lock][1] = q
    <3>1. q # r /\ chat'[q] = chat[q] /\ chat[q].at \in Locked /\ chat[q].at \in Waiting
      BY <1>3, <1>8, <2>6 DEF Waiting
    <3>2. line[chat[q].lock][1] = q /\ chat[q].lock \in ChatRequests
      BY <3>1 DEF ChatInv, LineInv
    <3>3. CASE chat[q].lock # l
      BY <1>5, <3>1, <3>2, <3>3
    <3>4. CASE chat[q].lock = l
      <4>1. i # 1
        BY <1>6, <3>1, <3>2, <3>4
      <4>2. 1 \in DOMAIN u /\ u[1] = s[1]
        BY <1>6, <1>7, <4>1
      <4>3. QED
        BY <1>5, <3>1, <3>2, <3>4, <4>2
    <3>5. QED
      BY <3>3, <3>4
  <2>7. QED
    BY <2>1, <2>2, <2>4, <2>5, <2>6 DEF LineInv
<1>10. CacheInv'
  BY <1>2, <1>3, <1>8 DEF ChatInv, CacheInv
<1>11. QED
  BY <1>1, <1>2, <1>3, <1>5, <1>9, <1>10

\* What leaving does to the rest, when the gate's variables and the history stay.
LEMMA LeaveKeepsGate ==
    ASSUME ChatInv, NEW r \in ChatRequests, chat[r].at \in Waiting, Leave(r),
           UNCHANGED <<tokenOf, counted, wallet>>
    PROVE  QuotaInv' /\ TokenInv'
<1>1. /\ chat'[r].at = "over" /\ ~chat'[r].full /\ chat'[r].gone = chat[r].gone
      /\ \A q \in ChatRequests \ {r} : chat'[q] = chat[q]
  BY LeaveKeepsLines
<1>2. chat[r].at \in Streaming /\ chat[r].at # "opening"
  BY DEF Waiting, Streaming, Locked
<1>3. Past
  BY <1>1, <1>2 DEF Past
<1>4. QED
  BY <1>3, PastKeeps

LEMMA LeaveKeepsBegun ==
    ASSUME ChatInv, NEW r \in ChatRequests, chat[r].at \in Waiting, Leave(r), UNCHANGED begun,
           stray' = stray \/ (stray' = stray \cup {r} /\ r \in strayed' /\ chat[r].at \in Locked),
           strayed' = strayed \/ strayed' = strayed \cup {r}
    PROVE  BegunInv'
<1>1. /\ chat'[r].at = "over" /\ UNCHANGED evicted
      /\ \A q \in ChatRequests \ {r} : chat'[q] = chat[q]
  BY LeaveKeepsLines
<1>2. \A k \in Keys : \A i \in DOMAIN begun[k] : begun[k][i] \in ChatRequests
  BY DEF ChatInv, ChatTypeOK
<1>3. stray \subseteq ChatRequests
  BY DEF ChatInv, ChatTypeOK
<1>4. \A k \in Keys : \A i \in DOMAIN begun[k] :
        KeyOf[begun[k][i]] = k /\ chat'[begun[k][i]].at \in {"over"} \cup Locked
  BY <1>1, <1>2 DEF ChatInv, BegunInv
<1>5. \A q \in ChatRequests : chat'[q].at \in Locked => chat[q].at \in Locked
  BY <1>1 DEF Locked
<1>6. \A q \in ChatRequests : chat'[q].at \in Locked \/ q \in stray' =>
        chat[q].at \in Locked \/ q \in stray
  BY <1>5
<1>7. \A q \in ChatRequests : chat'[q].at \in Locked \/ q \in stray' =>
        \E i \in DOMAIN begun[KeyOf[q]] : begun[KeyOf[q]][i] = q
  BY <1>6 DEF ChatInv, BegunInv
<1>8. \A q \in stray' : chat'[q].at = "over" /\ q \in strayed'
  BY <1>1, <1>3 DEF ChatInv, BegunInv
<1>9. evicted' = {} => \A q \in ChatRequests : chat'[q].at \in Locked =>
        begun[KeyOf[q]][Len(begun[KeyOf[q]])] = q
  BY <1>1, <1>5 DEF ChatInv, BegunInv
<1>10. QED
  BY <1>4, <1>7, <1>8, <1>9 DEF ChatInv, BegunInv

\* Transcripts that are not written stay in order.
LEMMA UnwrittenKeeps ==
    ASSUME ChatInv, UNCHANGED <<turnsOf, begun, evicted>>, strayed \subseteq strayed',
           \A q \in ChatRequests : chat[q].at = "over" => chat'[q].at = "over"
    PROVE  StoredInv'
<1>1. \A k \in Keys : \A i \in DOMAIN turnsOf[k] : turnsOf[k][i] \in ChatRequests
  BY DEF ChatInv, ChatTypeOK
<1>2. \A k \in Keys : \A i \in DOMAIN turnsOf[k] : chat'[turnsOf[k][i]].at = "over"
  BY <1>1 DEF ChatInv, StoredInv
<1>3. QED
  BY <1>2 DEF ChatInv, StoredInv

\* A turn that leaves without an append.
LEMMA LeaveKeeps ==
    ASSUME ChatInv, NEW r \in ChatRequests, chat[r].at \in Waiting, Leave(r),
           UNCHANGED <<storeVars, begun, wallet>>,
           \/ UNCHANGED <<stray, strayed>>
           \/ /\ chat[r].at \in Locked
              /\ stray' \in {stray, stray \cup {r}} /\ strayed' = strayed \cup {r}
    PROVE  ChatInv'
<1>0. stray' \in SUBSET ChatRequests /\ strayed' \in SUBSET ChatRequests
  BY DEF ChatInv, ChatTypeOK
<1>1. ChatTypeOK' /\ LineInv' /\ CacheInv'
  BY <1>0, LeaveKeepsLines DEF ChatInv, ChatTypeOK, storeVars
<1>2. QuotaInv' /\ TokenInv'
  BY LeaveKeepsGate DEF storeVars
<1>3. BegunInv'
  BY LeaveKeepsBegun
<1>4. StoredInv'
  <2>1. \A q \in ChatRequests : chat[q].at = "over" => chat'[q].at = "over"
    BY LeaveKeepsLines
  <2>2. UNCHANGED evicted
    BY LeaveKeepsLines
  <2>3. QED
    BY <2>1, <2>2, UnwrittenKeeps DEF storeVars
<1>5. QED
  BY <1>1, <1>2, <1>3, <1>4 DEF ChatInv

LEMMA PrepareKeeps == ASSUME ChatInv, NEW r \in ChatRequests, Prepare(r) PROVE ChatInv'
<1>1. chat[r].at \in Locked /\ chat[r].at \in Waiting /\ UNCHANGED <<storeVars, turnVars, wallet>>
  BY DEF Prepare, At, Locked, Waiting
<1>2. CASE Move(r, "running") /\ UNCHANGED lockVars
  BY <1>1, <1>2, LockedMoveKeeps DEF Locked
<1>3. CASE Leave(r)
  BY <1>1, <1>3, LeaveKeeps DEF turnVars
<1>4. QED
  BY <1>2, <1>3 DEF Prepare

LEMMA CancelProducerKeeps ==
    ASSUME ChatInv, NEW r \in ChatRequests, CancelProducer(r)
    PROVE  ChatInv'
<1>1. UNCHANGED <<storeVars, wallet>>
  BY DEF CancelProducer
<1>2. CASE chat[r].at \in {"waiting", "preparing"} /\ Leave(r) /\ UNCHANGED turnVars
  BY <1>1, <1>2, LeaveKeeps DEF turnVars, Waiting, Locked
<1>3. CASE At(r, "running") /\ Move(r, "appending") /\ UNCHANGED <<lockVars, turnVars>>
  BY <1>1, <1>3, LockedMoveKeeps DEF At, Locked
<1>4. CASE /\ At(r, "appending") /\ Leave(r) /\ stray' \in {stray, stray \cup {r}}
           /\ strayed' = strayed \cup {r} /\ UNCHANGED begun
  <2>1. chat[r].at \in Locked /\ chat[r].at \in Waiting
    BY <1>4 DEF At, Locked, Waiting
  <2>2. QED
    BY <1>1, <1>4, <2>1, LeaveKeeps
<1>5. QED
  BY <1>2, <1>3, <1>4 DEF CancelProducer

-----------------------------------------------------------------------------
(* Transcripts *)

\* What a transcript may be after a turn is stored: its end, with the turn behind it.
LEMMA StoreWrites ==
    ASSUME ChatInv, NEW r \in ChatRequests, Store(r)
    PROVE  /\ turnsOf' \in [Keys -> Seq(ChatRequests)]
           /\ \A k \in Keys : \E d \in Nat : \A i \in DOMAIN turnsOf'[k] :
                \/ i + d \in DOMAIN turnsOf[k] /\ turnsOf'[k][i] = turnsOf[k][i + d]
                \/ k = KeyOf[r] /\ i + d = Len(turnsOf[k]) + 1 /\ turnsOf'[k][i] = r
<1> DEFINE k0 == KeyOf[r]
           s == turnsOf[k0]
           all == Append(s, r)
           kept == SubSeq(all, Len(all) - HistoryTurns + 1, Len(all))
           t == IF Len(all) > HistoryTurns THEN kept ELSE all
<1>1. k0 \in Keys /\ s \in Seq(ChatRequests)
  BY KeysAndSids DEF ChatInv, ChatTypeOK
<1>2. turnsOf' = turnsOf \/ turnsOf' = [turnsOf EXCEPT ![k0] = t]
  BY DEF Store
<1> HIDE DEF k0, s
<1>3. /\ all \in Seq(ChatRequests) /\ Len(all) = Len(s) + 1 /\ Len(s) \in Nat
      /\ \A i \in 1 .. Len(s) : all[i] = s[i]
      /\ all[Len(s) + 1] = r
      /\ DOMAIN all = 1 .. Len(s) + 1 /\ DOMAIN s = 1 .. Len(s)
  BY <1>1, AppendProperties, LenProperties
<1> HIDE DEF all
<1>4. /\ t \in Seq(ChatRequests)
      /\ \E d \in Nat : \A i \in DOMAIN t : i + d \in DOMAIN all /\ t[i] = all[i + d]
  <2>1. CASE ~(Len(all) > HistoryTurns)
    <3>1. t = all
      BY <2>1
    <3>2. \A i \in DOMAIN all : i + 0 \in DOMAIN all /\ all[i] = all[i + 0]
      BY <1>3
    <3>3. QED
      BY <1>3, <3>1, <3>2
  <2>2. CASE Len(all) > HistoryTurns
    <3> DEFINE m == Len(all) - HistoryTurns + 1
    <3>1. t = SubSeq(all, m, Len(all)) /\ m \in 1 .. Len(all)
      BY <1>3, <2>2, ChatLimitsAssumption
    <3>2. \A i \in m .. Len(all) : all[i] \in ChatRequests
      BY <1>3, <3>1
    <3> HIDE DEF t, m
    <3>3. /\ t \in Seq(ChatRequests) /\ Len(t) = Len(all) - m + 1
          /\ \A i \in 1 .. Len(all) - m + 1 : t[i] = all[m + i - 1]
      BY <1>3, <3>1, <3>2, SubSeqProperties
    <3>4. m - 1 \in Nat /\ DOMAIN t = 1 .. Len(all) - m + 1
      BY <1>3, <3>1, <3>3
    <3>5. \A i \in DOMAIN t : i + (m - 1) \in DOMAIN all /\ t[i] = all[i + (m - 1)]
      BY <1>3, <3>1, <3>3, <3>4
    <3>6. QED
      BY <3>3, <3>4, <3>5
  <2>3. QED
    BY <2>1, <2>2
<1> HIDE DEF t
<1>5. PICK d \in Nat : \A i \in DOMAIN t : i + d \in DOMAIN all /\ t[i] = all[i + d]
  BY <1>4
<1>6. \A i \in DOMAIN t :
        \/ i + d \in DOMAIN s /\ t[i] = s[i + d]
        \/ i + d = Len(s) + 1 /\ t[i] = r
  <2>1. SUFFICES ASSUME NEW i \in DOMAIN t
                 PROVE  \/ i + d \in DOMAIN s /\ t[i] = s[i + d]
                        \/ i + d = Len(s) + 1 /\ t[i] = r
    OBVIOUS
  <2>2. i + d \in 1 .. Len(s) + 1 /\ t[i] = all[i + d]
    BY <1>3, <1>5
  <2>3. i + d \in 1 .. Len(s) \/ i + d = Len(s) + 1
    BY <1>3, <2>2
  <2>4. QED
    BY <1>3, <2>2, <2>3
<1>7. \A k \in Keys : \A i \in DOMAIN turnsOf[k] :
        i + 0 \in DOMAIN turnsOf[k] /\ turnsOf[k][i] = turnsOf[k][i + 0]
  <2>1. SUFFICES ASSUME NEW k \in Keys, NEW i \in DOMAIN turnsOf[k] PROVE i + 0 = i
    BY Zenon
  <2>2. turnsOf[k] \in Seq(ChatRequests)
    BY DEF ChatInv, ChatTypeOK
  <2>3. QED
    BY <2>2
<1>8. CASE turnsOf' = turnsOf
  <2>1. 0 \in Nat
    OBVIOUS
  <2>2. QED
    BY <1>7, <1>8, <2>1 DEF ChatInv, ChatTypeOK
<1>9. CASE turnsOf' = [turnsOf EXCEPT ![k0] = t]
  <2>1. /\ turnsOf' \in [Keys -> Seq(ChatRequests)]
        /\ turnsOf'[k0] = t /\ \A k \in Keys \ {k0} : turnsOf'[k] = turnsOf[k]
    BY <1>1, <1>4, <1>9 DEF ChatInv, ChatTypeOK
  <2>2. ASSUME NEW k \in Keys
        PROVE \E e \in Nat : \A i \in DOMAIN turnsOf'[k] :
                \/ i + e \in DOMAIN turnsOf[k] /\ turnsOf'[k][i] = turnsOf[k][i + e]
                \/ k = KeyOf[r] /\ i + e = Len(turnsOf[k]) + 1 /\ turnsOf'[k][i] = r
    <3>1. CASE k = k0
      <4>1. \A i \in DOMAIN turnsOf'[k] :
                \/ i + d \in DOMAIN turnsOf[k] /\ turnsOf'[k][i] = turnsOf[k][i + d]
                \/ k = KeyOf[r] /\ i + d = Len(turnsOf[k]) + 1 /\ turnsOf'[k][i] = r
        BY <1>6, <2>1, <3>1 DEF s, k0
      <4>2. QED
        BY <4>1
    <3>2. CASE k # k0
      <4>1. \A i \in DOMAIN turnsOf'[k] :
                i + 0 \in DOMAIN turnsOf[k] /\ turnsOf'[k][i] = turnsOf[k][i + 0]
        BY <1>7, <2>1, <3>2
      <4>2. QED
        BY <4>1
    <3>3. QED
      BY <3>1, <3>2
  <2>3. QED
    BY <2>1, <2>2
<1>10. QED
  BY <1>2, <1>8, <1>9

\* A transcript that is written stays in order, when its turn began after those it lists
\* or was cancelled.
LEMMA WrittenKeeps ==
    ASSUME ChatInv, NEW r \in ChatRequests, Store(r), UNCHANGED <<begun, evicted>>,
           strayed \subseteq strayed',
           \A q \in ChatRequests : chat[q].at = "over" => chat'[q].at = "over",
           chat'[r].at = "over",
           \E i \in DOMAIN begun[KeyOf[r]] : begun[KeyOf[r]][i] = r,
           \/ r \in strayed
           \/ /\ chat[r].at # "over"
              /\ evicted = {} => begun[KeyOf[r]][Len(begun[KeyOf[r]])] = r
    PROVE  StoredInv'
<1>1. \A k \in Keys : \A i \in DOMAIN turnsOf[k] : turnsOf[k][i] \in ChatRequests
  BY DEF ChatInv, ChatTypeOK
<1>2. SUFFICES ASSUME NEW k \in Keys
               PROVE  /\ \A i \in DOMAIN turnsOf'[k] :
                            /\ chat'[turnsOf'[k][i]].at = "over"
                            /\ \E a \in DOMAIN begun[k] : begun[k][a] = turnsOf'[k][i]
                      /\ evicted = {} => \A i, j \in DOMAIN turnsOf'[k] : i < j =>
                            \/ turnsOf'[k][i] \in strayed' \/ turnsOf'[k][j] \in strayed'
                            \/ \E a, b \in DOMAIN begun[k] :
                                /\ a < b
                                /\ begun[k][a] = turnsOf'[k][i] /\ begun[k][b] = turnsOf'[k][j]
  BY DEF StoredInv
<1>3. PICK d \in Nat : \A i \in DOMAIN turnsOf'[k] :
        \/ i + d \in DOMAIN turnsOf[k] /\ turnsOf'[k][i] = turnsOf[k][i + d]
        \/ k = KeyOf[r] /\ i + d = Len(turnsOf[k]) + 1 /\ turnsOf'[k][i] = r
  BY StoreWrites
<1> DEFINE t == turnsOf'[k]
           s == turnsOf[k]
           b == begun[k]
<1>4. /\ t \in Seq(ChatRequests) /\ s \in Seq(ChatRequests) /\ b \in Seq(ChatRequests)
      /\ DOMAIN t = 1 .. Len(t) /\ DOMAIN s = 1 .. Len(s) /\ DOMAIN b = 1 .. Len(b)
      /\ Len(t) \in Nat /\ Len(s) \in Nat /\ Len(b) \in Nat
  <2>1. t \in Seq(ChatRequests)
    BY StoreWrites
  <2>2. s \in Seq(ChatRequests) /\ b \in Seq(ChatRequests)
    BY DEF ChatInv, ChatTypeOK
  <2>3. QED
    BY <2>1, <2>2, LenProperties
<1>5. /\ \A i \in DOMAIN s : chat'[s[i]].at = "over" /\ chat[s[i]].at = "over"
      /\ \A i \in DOMAIN s : \E a \in DOMAIN b : b[a] = s[i]
      /\ evicted = {} => \A i, j \in DOMAIN s : i < j =>
            \/ s[i] \in strayed \/ s[j] \in strayed
            \/ \E a, c \in DOMAIN b : a < c /\ b[a] = s[i] /\ b[c] = s[j]
  BY <1>1 DEF ChatInv, StoredInv
<1> HIDE DEF t, s
<1>6. ASSUME NEW i \in DOMAIN t
      PROVE  chat'[t[i]].at = "over" /\ \E a \in DOMAIN b : b[a] = t[i]
  <2>1. CASE i + d \in DOMAIN s /\ t[i] = s[i + d]
    BY <1>5, <2>1
  <2>2. CASE k = KeyOf[r] /\ t[i] = r
    BY <2>2
  <2>3. QED
    BY <1>3, <2>1, <2>2 DEF t, s
<1> HIDE DEF b
<1>7. ASSUME evicted = {}, NEW i \in DOMAIN t, NEW j \in DOMAIN t, i < j
      PROVE  \/ t[i] \in strayed' \/ t[j] \in strayed'
             \/ \E a, c \in DOMAIN b : a < c /\ b[a] = t[i] /\ b[c] = t[j]
  <2>1. i \in Nat /\ j \in Nat /\ i + d < j + d
    BY <1>4, <1>7
  <2>2. CASE i + d \in DOMAIN s /\ t[i] = s[i + d] /\ j + d \in DOMAIN s /\ t[j] = s[j + d]
    BY <1>5, <1>7, <2>1, <2>2
  <2>3. CASE /\ i + d \in DOMAIN s /\ t[i] = s[i + d]
             /\ k = KeyOf[r] /\ t[j] = r
    <3>1. CASE r \in strayed
      BY <2>3, <3>1
    <3>2. CASE chat[r].at # "over" /\ b[Len(b)] = r
      <4>1. s[i + d] # r
        BY <1>5, <2>3, <3>2
      <4>2. PICK a \in DOMAIN b : b[a] = s[i + d]
        BY <1>5, <2>3
      <4>3. a # Len(b) /\ a < Len(b) /\ Len(b) \in DOMAIN b
        BY <1>4, <3>2, <4>1, <4>2
      <4>4. QED
        BY <2>3, <3>2, <4>2, <4>3
    <3>3. QED
      BY <1>7, <2>3, <3>1, <3>2 DEF b
  <2>4. CASE i + d = Len(s) + 1
    <3>1. j + d > Len(s) + 1
      BY <1>4, <2>1, <2>4
    <3>2. QED
      BY <1>3, <1>4, <3>1 DEF t, s
  <2>5. QED
    BY <1>3, <2>2, <2>3, <2>4 DEF t, s
<1>8. QED
  BY <1>6, <1>7 DEF t, b

LEMMA AppendKeeps == ASSUME ChatInv, NEW r \in ChatRequests, Append_(r) PROVE ChatInv'
<1>1. chat[r].at \in Locked /\ chat[r].at \in Waiting /\ chat[r].at # "over"
  BY DEF Append_, Locked, Waiting
<1>2. /\ Store(r) /\ Leave(r)
      /\ UNCHANGED <<tokenOf, counted, wallet>> /\ UNCHANGED <<stray, begun, strayed>>
  BY DEF Append_, Store, turnVars
<1>3. turnsOf' \in [Keys -> Seq(ChatRequests)]
  BY <1>2, StoreWrites
<1>4. /\ ChatTypeOK' /\ LineInv' /\ CacheInv' /\ chat'[r].at = "over"
      /\ UNCHANGED evicted
      /\ \A q \in ChatRequests \ {r} : chat'[q] = chat[q]
  <2>1. /\ chat' \in [ChatRequests -> ChatState] /\ line' \in [ChatRequests -> Seq(ChatRequests)]
        /\ chat'[r].at = "over"
        /\ \A q \in ChatRequests \ {r} : chat'[q] = chat[q]
        /\ UNCHANGED <<locks, evicted>>
        /\ LineInv' /\ CacheInv'
    BY <1>1, <1>2, LeaveKeepsLines
  <2>2. ChatTypeOK'
    BY <1>2, <1>3, <2>1 DEF ChatInv, ChatTypeOK
  <2>3. QED
    BY <2>1, <2>2
<1>5. QuotaInv' /\ TokenInv'
  BY <1>1, <1>2, LeaveKeepsGate
<1>6. BegunInv'
  BY <1>1, <1>2, LeaveKeepsBegun
<1>7. StoredInv'
  <2>1. \A q \in ChatRequests : chat[q].at = "over" => chat'[q].at = "over"
    BY <1>4
  <2>2. \E i \in DOMAIN begun[KeyOf[r]] : begun[KeyOf[r]][i] = r
    BY <1>1 DEF ChatInv, BegunInv
  <2>3. evicted = {} => begun[KeyOf[r]][Len(begun[KeyOf[r]])] = r
    BY <1>1 DEF ChatInv, BegunInv
  <2>4. QED
    BY <1>1, <1>2, <1>4, <2>1, <2>2, <2>3, WrittenKeeps
<1>8. QED
  BY <1>4, <1>5, <1>6, <1>7 DEF ChatInv

LEMMA StrayAppendKeeps == ASSUME ChatInv, NEW r \in ChatRequests, StrayAppend(r) PROVE ChatInv'
<1>1. /\ r \in stray /\ Store(r) /\ stray' = stray \ {r}
      /\ UNCHANGED <<tokenOf, counted, locks, line, evicted, begun, strayed, chat, wallet>>
  BY DEF StrayAppend, Store, lockVars
<1>2. ChatTypeOK'
  <2>1. turnsOf' \in [Keys -> Seq(ChatRequests)]
    BY <1>1, StoreWrites
  <2>2. QED
    BY <1>1, <2>1 DEF ChatInv, ChatTypeOK
<1>3. QuotaInv' /\ TokenInv'
  <2>1. Past
    BY <1>1 DEF Past
  <2>2. QED
    BY <2>1, PastKeeps
<1>4. LineInv' /\ CacheInv'
  BY <1>1 DEF ChatInv, LineInv, CacheInv
<1>5. BegunInv'
  BY <1>1 DEF ChatInv, BegunInv
<1>6. StoredInv'
  <2>1. /\ r \in strayed /\ chat[r].at = "over"
        /\ \E i \in DOMAIN begun[KeyOf[r]] : begun[KeyOf[r]][i] = r
    BY <1>1 DEF ChatInv, BegunInv
  <2>2. QED
    BY <1>1, <2>1, WrittenKeeps
<1>7. QED
  BY <1>2, <1>3, <1>4, <1>5, <1>6 DEF ChatInv

-----------------------------------------------------------------------------
(* A crash *)

LEMMA ChatCrashKeeps == ASSUME ChatInv, ChatCrash PROVE ChatInv'
<1>1. /\ locks' = << >> /\ line' = [r \in ChatRequests |-> << >>] /\ stray' = {}
      /\ UNCHANGED <<tokenOf, counted, turnsOf, begun, strayed, evicted, wallet>>
  BY DEF ChatCrash, storeVars
<1>2. ASSUME NEW q \in ChatRequests
      PROVE  /\ chat'[q] \in ChatState
             /\ \/ chat[q].at = "new" /\ chat'[q] = chat[q]
                \/ chat[q].at # "new" /\ chat'[q].at = "over" /\ ~chat'[q].full /\ chat'[q].gone
  <2>1. Over(q) \in ChatState /\ Over(q).at = "over" /\ ~Over(q).full
    BY OverIsOver
  <2>2. chat'[q] = IF chat[q].at = "new" THEN chat[q] ELSE [Over(q) EXCEPT !.gone = TRUE]
    BY DEF ChatCrash, At
  <2> DEFINE n == [Over(q) EXCEPT !.gone = TRUE]
  <2>3. n \in ChatState /\ n.at = "over" /\ ~n.full /\ n.gone
    BY <2>1 DEF ChatState
  <2> HIDE DEF n
  <2>4. chat'[q] = IF chat[q].at = "new" THEN chat[q] ELSE n
    BY <2>2 DEF n
  <2>5. QED
    BY <2>3, <2>4, StateOf
<1>3. chat' \in [ChatRequests -> ChatState]
  <2>1. chat' = [q \in ChatRequests |-> chat'[q]]
    BY DEF ChatCrash
  <2>2. QED
    BY <1>2, <2>1
<1>4. \A q \in ChatRequests : chat'[q].at \in {"new", "over"}
  BY <1>2
<1>5. \A q \in ChatRequests : chat'[q].at \notin Waiting /\ chat'[q].at \notin Locked
  BY <1>4 DEF Waiting, Locked
<1>6. ChatTypeOK'
  BY <1>1, <1>3 DEF ChatInv, ChatTypeOK
<1>7. QuotaInv'
  <2>1. SUFFICES ASSUME NEW q \in ChatRequests, chat'[q].full
                 PROVE  counted[SidOf(q)] >= Quota /\ chat'[q].at = "new"
    BY <1>1 DEF QuotaInv, Streaming, Locked
  <2>2. QED
    BY <1>2, <2>1 DEF ChatInv, QuotaInv
<1>8. TokenInv'
  <2>1. ASSUME NEW k \in Keys, tokenOf[k] # None
        PROVE  /\ KeyOf[tokenOf[k]] = k /\ chat'[tokenOf[k]].at = "over" /\ chat'[tokenOf[k]].gone
    <3>1. tokenOf[k] \in ChatRequests
      BY <2>1 DEF ChatInv, ChatTypeOK, Token
    <3>2. KeyOf[tokenOf[k]] = k /\ chat[tokenOf[k]].at # "new"
      BY <2>1 DEF ChatInv, TokenInv, Streaming, Locked
    <3>3. QED
      BY <1>2, <3>1, <3>2
  <2>2. TokensAgree'
    BY <1>1, <2>1 DEF ChatInv, TokenInv, TokensAgree, TokensHeldAreStored, OwnerCanReturn
  <2>3. QED
    BY <1>1, <1>4, <2>1, <2>2 DEF TokenInv
<1>9. LineInv' /\ CacheInv'
  <2>1. \A l \in ChatRequests : line'[l] = << >> /\ DOMAIN line'[l] = {}
    BY <1>1
  <2>2. DOMAIN locks' = {}
    BY <1>1
  <2>3. LineInv'
    BY <1>5, <2>1 DEF LineInv, IsInjective
  <2>4. CacheInv'
    BY <1>5, <2>2 DEF CacheInv
  <2>5. QED
    BY <2>3, <2>4
<1>10. BegunInv'
  <2>1. ASSUME NEW k \in Keys, NEW i \in DOMAIN begun[k]
        PROVE  KeyOf[begun[k][i]] = k /\ chat'[begun[k][i]].at = "over"
    <3>1. begun[k][i] \in ChatRequests
      BY DEF ChatInv, ChatTypeOK
    <3>2. KeyOf[begun[k][i]] = k /\ chat[begun[k][i]].at # "new"
      BY DEF ChatInv, BegunInv, Locked
    <3>3. QED
      BY <1>2, <3>1, <3>2
  <2>2. QED
    BY <1>1, <1>5, <2>1 DEF ChatInv, BegunInv
<1>11. StoredInv'
  <2>1. \A q \in ChatRequests : chat[q].at = "over" => chat'[q].at = "over"
    BY <1>2
  <2>2. QED
    BY <1>1, <2>1, UnwrittenKeeps
<1>12. QED
  BY <1>6, <1>7, <1>8, <1>9, <1>10, <1>11 DEF ChatInv

-----------------------------------------------------------------------------
(* The cache of locks *)

LockEntry == [key: Keys, lock: ChatRequests]

\* No key is in a cache twice.
KeysDiffer(s) == \A i, j \in DOMAIN s : s[i].key = s[j].key => i = j

LEMMA OthersCached ==
    ASSUME NEW s \in Seq(LockEntry), KeysDiffer(s), NEW k
    PROVE  LET u == WithoutKey(s, k)
           IN  /\ u \in Seq(LockEntry) /\ KeysDiffer(u)
               /\ \A j \in DOMAIN u : u[j].key # k
               /\ \A i \in DOMAIN s : s[i].key = k \/ \E j \in DOMAIN u : u[j] = s[i]
<1> DEFINE u == WithoutKey(s, k)
<1>0. Len(s) \in Nat /\ DOMAIN s = 1 .. Len(s)
  OBVIOUS
<1>1. CASE ~\E i \in 1 .. Len(s) : s[i].key = k
  <2>1. u = s
    BY <1>1 DEF WithoutKey, RemoveFirstMatch
  <2> HIDE DEF u
  <2>2. QED
    BY <1>0, <1>1, <2>1 DEF u
<1>2. CASE \E i \in 1 .. Len(s) : s[i].key = k
  <2>1. PICK i \in 1 .. Len(s) : s[i].key = k
    BY <1>2
  <2>2. \A j \in 1 .. Len(s) : s[j].key = k => j = i
    BY <1>0, <2>1 DEF KeysDiffer
  <2>3. u = RemoveAt(s, i)
    BY <2>1, <2>2, RemovedLock
  <2> HIDE DEF u
  <2>4. /\ u \in Seq(LockEntry) /\ Len(u) = Len(s) - 1
        /\ \A j \in 1 .. Len(s) - 1 : u[j] = IF j < i THEN s[j] ELSE s[j + 1]
    BY <2>1, <2>3, WithoutOne
  <2>5. DOMAIN u = 1 .. Len(s) - 1
    BY <1>0, <2>4
  <2> DEFINE f(a) == IF a < i THEN a ELSE a + 1
  <2>6. \A a \in DOMAIN u : f(a) \in DOMAIN s /\ f(a) # i
    BY <1>0, <2>1, <2>5
  <2>7. \A a, b \in DOMAIN u : f(a) = f(b) => a = b
    BY <1>0, <2>1, <2>5
  <2>8. \A a \in DOMAIN u : u[a] = s[f(a)]
    BY <2>4, <2>5
  <2>9. \A h \in DOMAIN s : h # i => \E a \in DOMAIN u : f(a) = h
    <3>1. SUFFICES ASSUME NEW h \in DOMAIN s, h # i PROVE \E a \in DOMAIN u : f(a) = h
      OBVIOUS
    <3>2. CASE h < i
      <4>1. h \in DOMAIN u /\ f(h) = h
        BY <1>0, <2>1, <2>5, <3>2
      <4>2. QED
        BY <4>1
    <3>3. CASE ~(h < i)
      <4>1. h - 1 \in DOMAIN u /\ f(h - 1) = h
        BY <1>0, <2>1, <2>5, <3>1, <3>3
      <4>2. QED
        BY <4>1
    <3>4. QED
      BY <3>2, <3>3
  <2> HIDE DEF f
  <2>10. KeysDiffer(u)
    BY <2>6, <2>7, <2>8 DEF KeysDiffer
  <2>11. \A j \in DOMAIN u : u[j].key # k
    BY <1>0, <2>2, <2>6, <2>8
  <2>12. \A h \in DOMAIN s : s[h].key = k \/ \E j \in DOMAIN u : u[j] = s[h]
    BY <1>0, <2>1, <2>8, <2>9
  <2>13. QED
    BY <2>4, <2>10, <2>11, <2>12 DEF u
<1>3. QED
  BY <1>1, <1>2

\* The lock of a request is the one its key has in the cache, if any.
LEMMA LockIsCached ==
    ASSUME ChatInv, NEW r \in ChatRequests
    PROVE  /\ LockFor(r) \in ChatRequests
           /\ \A i \in DOMAIN locks : locks[i].key = KeyOf[r] => LockFor(r) = locks[i].lock
<1> DEFINE cached == {e \in ToSet(locks) : e.key = KeyOf[r]}
<1>1. /\ \A i \in DOMAIN locks : locks[i] \in LockEntry /\ locks[i] \in ToSet(locks)
      /\ \A e \in ToSet(locks) : \E i \in DOMAIN locks : e = locks[i]
  <2>1. locks \in Seq(LockEntry)
    BY DEF ChatInv, ChatTypeOK, LockEntry
  <2>2. \A i \in DOMAIN locks : locks[i] \in LockEntry
    BY <2>1
  <2>3. ToSet(locks) = {locks[i] : i \in DOMAIN locks}
    BY DEF ToSet
  <2>4. QED
    BY <2>2, <2>3
<1>2. \A e, f \in cached : e = f
  BY <1>1 DEF ChatInv, CacheInv
<1>3. CASE cached = {}
  <2>1. LockFor(r) = r
    BY <1>3 DEF LockFor
  <2>2. QED
    BY <1>1, <1>3, <2>1
<1>4. CASE cached # {}
  <2>1. PICK e \in cached : TRUE
    BY <1>4
  <2>2. (CHOOSE f \in cached : TRUE) = e
    BY <1>2, <2>1
  <2>3. LockFor(r) = e.lock
    BY <1>4, <2>2 DEF LockFor
  <2>4. e \in LockEntry
    BY <1>1, <2>1
  <2>5. QED
    BY <1>1, <1>2, <2>1, <2>3, <2>4 DEF LockEntry
<1>5. QED
  BY <1>3, <1>4

\* After a touch the key's lock is in the cache, and what the cache lost is either idle or
\* known as evicted.
LEMMA Touched ==
    ASSUME ChatInv, NEW r \in ChatRequests, TouchLock(r)
    PROVE  /\ locks' \in Seq(LockEntry) /\ KeysDiffer(locks')
           /\ evicted' \in SUBSET ChatRequests /\ evicted \subseteq evicted'
           /\ \E j \in DOMAIN locks' : locks'[j] = [key |-> KeyOf[r], lock |-> LockFor(r)]
           /\ \A i \in DOMAIN locks :
                \/ locks[i].key = KeyOf[r]
                \/ \E j \in DOMAIN locks' : locks'[j] = locks[i]
                \/ line[locks[i].lock] = << >>
                \/ locks[i].lock \in evicted'
<1> DEFINE others == WithoutKey(locks, KeyOf[r])
           new == [key |-> KeyOf[r], lock |-> LockFor(r)]
           touched == Append(others, new)
           oldest == Head(touched)
<1>1. locks \in Seq(LockEntry) /\ KeysDiffer(locks)
  BY DEF ChatInv, ChatTypeOK, CacheInv, LockEntry, KeysDiffer
<1>2. /\ others \in Seq(LockEntry) /\ KeysDiffer(others)
      /\ \A j \in DOMAIN others : others[j].key # KeyOf[r]
      /\ \A i \in DOMAIN locks :
            locks[i].key = KeyOf[r] \/ \E j \in DOMAIN others : others[j] = locks[i]
  BY <1>1, OthersCached
<1>3. \/ /\ Len(touched) > LockCap
         /\ locks' = Tail(touched)
         /\ evicted' = evicted \cup (IF line[oldest.lock] = << >> THEN {} ELSE {oldest.lock})
      \/ /\ locks' = touched
         /\ UNCHANGED evicted
  BY DEF TouchLock
<1>4. new \in LockEntry /\ new.key = KeyOf[r]
  BY LockIsCached, KeysAndSids DEF LockEntry
<1> HIDE DEF others, new
<1>5. /\ touched \in Seq(LockEntry) /\ Len(touched) = Len(others) + 1 /\ Len(others) \in Nat
      /\ touched # << >>
      /\ DOMAIN touched = 1 .. Len(others) + 1 /\ DOMAIN others = 1 .. Len(others)
      /\ \A i \in 1 .. Len(others) : touched[i] = others[i]
      /\ touched[Len(others) + 1] = new
  BY <1>2, <1>4, AppendProperties, LenProperties
<1> HIDE DEF touched
<1>6. KeysDiffer(touched)
  <2>1. SUFFICES ASSUME NEW i \in DOMAIN touched, NEW j \in DOMAIN touched,
                        touched[i].key = touched[j].key
                 PROVE  i = j
    BY DEF KeysDiffer
  <2>2. CASE i \in 1 .. Len(others) /\ j \in 1 .. Len(others)
    BY <1>2, <1>5, <2>1, <2>2 DEF KeysDiffer
  <2>3. CASE i = Len(others) + 1 /\ j \in 1 .. Len(others)
    BY <1>2, <1>4, <1>5, <2>1, <2>3
  <2>4. CASE j = Len(others) + 1 /\ i \in 1 .. Len(others)
    BY <1>2, <1>4, <1>5, <2>1, <2>4
  <2>5. QED
    BY <1>5, <2>1, <2>2, <2>3, <2>4
<1>7. \A i \in DOMAIN locks :
        locks[i].key = KeyOf[r] \/ \E j \in DOMAIN touched : touched[j] = locks[i]
  <2>1. \A j \in DOMAIN others : j \in DOMAIN touched /\ touched[j] = others[j]
    BY <1>5
  <2>2. QED
    BY <1>2, <2>1
<1>8. CASE locks' = touched /\ UNCHANGED evicted
  <2>1. Len(others) + 1 \in DOMAIN touched
    BY <1>5
  <2>2. evicted' \in SUBSET ChatRequests /\ evicted \subseteq evicted'
    BY <1>8 DEF ChatInv, ChatTypeOK
  <2>3. QED
    BY <1>5, <1>6, <1>7, <1>8, <2>1, <2>2 DEF new
<1>9. CASE /\ Len(touched) > LockCap
           /\ locks' = Tail(touched)
           /\ evicted' = evicted \cup (IF line[oldest.lock] = << >> THEN {} ELSE {oldest.lock})
  <2>1. Len(others) >= 1
    BY <1>5, <1>9, ChatLimitsAssumption
  <2>2. /\ locks' \in Seq(LockEntry) /\ Len(locks') = Len(others)
        /\ \A i \in 1 .. Len(others) : locks'[i] = touched[i + 1]
    <3>1. Tail(touched) \in Seq(LockEntry) /\ Len(Tail(touched)) = Len(touched) - 1
          /\ \A i \in 1 .. Len(Tail(touched)) : Tail(touched)[i] = touched[i + 1]
      BY <1>5, HeadTailProperties
    <3>2. QED
      BY <1>5, <1>9, <3>1
  <2>3. DOMAIN locks' = 1 .. Len(others)
    BY <2>2
  <2>4. oldest = touched[1] /\ 1 \in DOMAIN touched
    BY <1>5, <2>1
  <2>5. oldest \in LockEntry /\ oldest.lock \in ChatRequests
    <3>1. touched[1] \in LockEntry
      BY <1>5, <2>4
    <3>2. QED
      BY <2>4, <3>1 DEF LockEntry
  <2>6. evicted' \in SUBSET ChatRequests /\ evicted \subseteq evicted'
    BY <1>9, <2>5 DEF ChatInv, ChatTypeOK
  <2>7. KeysDiffer(locks')
    <3>1. SUFFICES ASSUME NEW i \in 1 .. Len(others), NEW j \in 1 .. Len(others),
                          locks'[i].key = locks'[j].key
                   PROVE  i = j
      BY <2>3 DEF KeysDiffer
    <3>2. touched[i + 1].key = touched[j + 1].key
      BY <2>2, <3>1
    <3>3. i + 1 \in DOMAIN touched /\ j + 1 \in DOMAIN touched
      BY <1>5
    <3>4. i + 1 = j + 1
      BY <1>6, <3>2, <3>3 DEF KeysDiffer
    <3>5. QED
      BY <1>5, <3>4
  <2>8. Len(others) \in DOMAIN locks' /\ locks'[Len(others)] = new
    BY <1>5, <2>1, <2>2, <2>3
  <2>9. ASSUME NEW i \in DOMAIN locks, locks[i].key # KeyOf[r]
        PROVE  \/ \E j \in DOMAIN locks' : locks'[j] = locks[i]
               \/ line[locks[i].lock] = << >>
               \/ locks[i].lock \in evicted'
    <3>1. PICK j \in DOMAIN touched : touched[j] = locks[i]
      BY <1>7, <2>9
    <3>2. CASE j = 1
      BY <1>9, <2>4, <3>1, <3>2
    <3>3. CASE j # 1
      <4>1. j - 1 \in DOMAIN locks' /\ (j - 1) + 1 = j
        BY <1>5, <2>3, <3>3
      <4>2. locks'[j - 1] = touched[(j - 1) + 1]
        BY <2>2, <2>3, <4>1
      <4>3. QED
        BY <3>1, <4>1, <4>2
    <3>4. QED
      BY <3>2, <3>3
  <2>10. QED
    BY <2>2, <2>6, <2>7, <2>8, <2>9 DEF new
<1>10. QED
  BY <1>3, <1>8, <1>9

LEMMA OpenKeeps == ASSUME ChatInv, NEW r \in ChatRequests, Open(r) PROVE ChatInv'
<1> DEFINE l == LockFor(r)
           s == line[l]
           n == [chat[r] EXCEPT !.at = "waiting", !.lock = l]
<1>1. /\ chat[r].at = "opening" /\ TouchLock(r)
      /\ wallet' = IF chat[r].stored = None /\ tokenOf[KeyOf[r]] = r
                   THEN [wallet EXCEPT ![ClientOf[r]] = @ \cup {r}]
                   ELSE wallet
      /\ line' = [line EXCEPT ![l] = Append(@, r)]
      /\ chat' = [chat EXCEPT ![r] = n]
      /\ UNCHANGED <<storeVars, turnVars>>
  BY DEF Open, At
<1>2. l \in ChatRequests
  BY LockIsCached
<1> HIDE DEF l
<1>3. /\ n \in ChatState /\ n.at = "waiting" /\ n.lock = l
      /\ n.full = chat[r].full /\ n.gone = chat[r].gone
  BY <1>2, StateOf DEF ChatState, ChatPlaces, Token
<1> HIDE DEF n
<1>4. /\ chat' \in [ChatRequests -> ChatState]
      /\ chat'[r] = n
      /\ \A q \in ChatRequests \ {r} : chat'[q] = chat[q]
  BY <1>1, <1>3, Changed
<1>5. /\ locks' \in Seq(LockEntry) /\ KeysDiffer(locks')
      /\ evicted' \in SUBSET ChatRequests /\ evicted \subseteq evicted'
      /\ \E j \in DOMAIN locks' : locks'[j] = [key |-> KeyOf[r], lock |-> l]
      /\ \A i \in DOMAIN locks :
           \/ locks[i].key = KeyOf[r]
           \/ \E j \in DOMAIN locks' : locks'[j] = locks[i]
           \/ line[locks[i].lock] = << >>
           \/ locks[i].lock \in evicted'
  BY <1>1, Touched DEF l
<1>6. s \in Seq(ChatRequests) /\ Len(s) \in Nat /\ DOMAIN s = 1 .. Len(s)
  BY <1>2 DEF ChatInv, ChatTypeOK
<1>7. /\ line' \in [ChatRequests -> Seq(ChatRequests)]
      /\ \A m \in ChatRequests \ {l} : line'[m] = line[m]
      /\ DOMAIN line'[l] = 1 .. Len(s) + 1
      /\ \A i \in 1 .. Len(s) : line'[l][i] = s[i]
      /\ line'[l][Len(s) + 1] = r
  <2>1. Append(s, r) \in Seq(ChatRequests)
    BY <1>6, AppendProperties
  <2>2. line'[l] = Append(s, r) /\ line' \in [ChatRequests -> Seq(ChatRequests)]
        /\ \A m \in ChatRequests \ {l} : line'[m] = line[m]
    BY <1>1, <1>2, <2>1 DEF ChatInv, ChatTypeOK
  <2>3. QED
    BY <1>6, <2>1, <2>2, AppendProperties, LenProperties
<1>8. /\ wallet' \in [Clients -> SUBSET ChatRequests]
      /\ \A c \in Clients : \A t \in wallet'[c] : t \in wallet[c] \/ (t = r /\ tokenOf[KeyOf[r]] = r)
      /\ \A c \in Clients : wallet[c] \subseteq wallet'[c]
      /\ chat[r].stored = None /\ tokenOf[KeyOf[r]] = r => r \in wallet'[ClientOf[r]]
  <2>1. ClientOf[r] \in Clients
    BY DEF Clients
  <2>2. QED
    BY <1>1, <2>1 DEF ChatInv, ChatTypeOK
<1>9. ChatTypeOK'
  BY <1>1, <1>4, <1>5, <1>7, <1>8 DEF ChatInv, ChatTypeOK, storeVars, turnVars, LockEntry
<1>10. QuotaInv'
  <2>1. ~n.full
    BY <1>1, <1>3 DEF ChatInv, QuotaInv, Streaming
  <2>2. QED
    BY <1>1, <1>4, <2>1 DEF ChatInv, QuotaInv, storeVars
<1>11. TokenInv'
  <2>1. TokensHeldAreStored'
    BY <1>1, <1>8 DEF ChatInv, TokenInv, TokensAgree, TokensHeldAreStored, storeVars
  <2>2. OwnerCanReturn'
    <3>1. SUFFICES ASSUME NEW k \in Keys, tokenOf[k] # None
                   PROVE  \/ tokenOf[k] \in wallet'[ClientOf[tokenOf[k]]]
                          \/ chat'[tokenOf[k]].at = "opening"
                          \/ chat'[tokenOf[k]].gone
      <4>1. tokenOf' = tokenOf
        BY <1>1 DEF storeVars
      <4>2. QED
        BY <4>1, Zenon DEF OwnerCanReturn, At
    <3>2. tokenOf[k] \in ChatRequests /\ KeyOf[tokenOf[k]] = k
      BY <3>1 DEF ChatInv, TokenInv, ChatTypeOK, Token
    <3>3. CASE tokenOf[k] = r
      <4>1. chat[r].stored = None
        BY <1>1, <3>2, <3>3 DEF ChatInv, TokenInv
      <4>2. r \in wallet'[ClientOf[r]]
        BY <1>8, <3>2, <3>3, <4>1
      <4>3. QED
        BY <3>3, <4>2
    <3>4. CASE tokenOf[k] # r
      <4>1. ClientOf[tokenOf[k]] \in Clients
        BY <3>2 DEF Clients
      <4>2. \/ tokenOf[k] \in wallet[ClientOf[tokenOf[k]]]
            \/ chat[tokenOf[k]].at = "opening" \/ chat[tokenOf[k]].gone
        BY <3>1 DEF ChatInv, TokenInv, TokensAgree, OwnerCanReturn, At
      <4>3. QED
        BY <1>4, <1>8, <3>2, <3>4, <4>1, <4>2
    <3>5. QED
      BY <3>3, <3>4
  <2>3. ASSUME NEW k \in Keys, tokenOf[k] # None
        PROVE  KeyOf[tokenOf[k]] = k /\ chat'[tokenOf[k]].at \in {"over"} \cup Streaming
    <3>1. tokenOf[k] \in ChatRequests
      BY <2>3 DEF ChatInv, ChatTypeOK, Token
    <3>2. KeyOf[tokenOf[k]] = k /\ chat[tokenOf[k]].at \in {"over"} \cup Streaming
      BY <2>3 DEF ChatInv, TokenInv
    <3>3. QED
      BY <1>3, <1>4, <3>1, <3>2 DEF Streaming
  <2>4. ASSUME NEW q \in ChatRequests,
               chat'[q].at = "binding" \/ (chat'[q].at = "opening" /\ tokenOf[KeyOf[q]] = q)
        PROVE  chat'[q].stored = None
    BY <1>3, <1>4, <2>4 DEF ChatInv, TokenInv
  <2>5. QED
    BY <1>1, <2>1, <2>2, <2>3, <2>4 DEF TokenInv, TokensAgree, storeVars
<1>12. \A q \in ChatRequests :
          /\ chat'[q].at \in Locked <=> chat[q].at \in Locked
          /\ chat[q].at \in Waiting => q # r /\ chat'[q] = chat[q]
          /\ chat'[q].at \in Waiting => q = r \/ (chat[q].at \in Waiting /\ chat'[q] = chat[q])
          /\ chat[q].at = "over" => chat'[q] = chat[q]
  BY <1>1, <1>3, <1>4 DEF Waiting, Locked
<1>13. LineInv'
  <2>0. \A i \in 1 .. Len(s) : s[i] \in ChatRequests /\ s[i] # r
    BY <1>2, <1>6, <1>12 DEF ChatInv, LineInv
  <2>1. ASSUME NEW q \in ChatRequests, chat'[q].at \in Waiting
        PROVE  /\ chat'[q].lock \in ChatRequests
               /\ \E i \in DOMAIN line'[chat'[q].lock] : line'[chat'[q].lock][i] = q
    <3>1. CASE q = r
      <4>1. chat'[q].lock = l /\ Len(s) + 1 \in DOMAIN line'[l] /\ line'[l][Len(s) + 1] = q
        BY <1>3, <1>4, <1>6, <1>7, <3>1
      <4>2. QED
        BY <1>2, <4>1
    <3>2. CASE q # r
      <4>1. chat[q].at \in Waiting /\ chat'[q] = chat[q] /\ chat[q].lock \in ChatRequests
        BY <1>12, <2>1, <3>2 DEF ChatInv, LineInv
      <4>2. PICK i \in DOMAIN line[chat[q].lock] : line[chat[q].lock][i] = q
        BY <4>1 DEF ChatInv, LineInv
      <4>3. i \in DOMAIN line'[chat[q].lock] /\ line'[chat[q].lock][i] = q
        <5>1. CASE chat[q].lock = l
          <6>1. i \in 1 .. Len(s) /\ s[i] = q
            BY <1>6, <4>2, <5>1
          <6>2. i \in 1 .. Len(s) + 1
            BY <1>6, <6>1
          <6>3. line'[l][i] = q
            BY <1>7, <6>1
          <6>4. QED
            BY <1>7, <5>1, <6>2, <6>3
        <5>2. CASE chat[q].lock # l
          BY <1>7, <4>1, <4>2, <5>2
        <5>3. QED
          BY <5>1, <5>2
      <4>4. QED
        BY <4>1, <4>3
    <3>3. QED
      BY <3>1, <3>2
  <2>2. \A m \in ChatRequests : IsInjective(line'[m])
    <3>1. IsInjective(s)
      BY <1>2 DEF ChatInv, LineInv
    <3>2. IsInjective(line'[l])
      <4>1. SUFFICES ASSUME NEW a \in 1 .. Len(s) + 1, NEW b \in 1 .. Len(s) + 1,
                            line'[l][a] = line'[l][b]
                     PROVE  a = b
        BY <1>7 DEF IsInjective
      <4>2. CASE a \in 1 .. Len(s) /\ b \in 1 .. Len(s)
        BY <1>6, <1>7, <3>1, <4>1, <4>2 DEF IsInjective
      <4>3. CASE a = Len(s) + 1 /\ b \in 1 .. Len(s)
        BY <1>7, <2>0, <4>1, <4>3
      <4>4. CASE b = Len(s) + 1 /\ a \in 1 .. Len(s)
        BY <1>7, <2>0, <4>1, <4>4
      <4>5. QED
        BY <1>6, <4>1, <4>2, <4>3, <4>4
    <3>3. QED
      BY <1>7, <3>2 DEF ChatInv, LineInv
  <2>3. ASSUME NEW m \in ChatRequests, NEW i \in DOMAIN line'[m]
        PROVE  chat'[line'[m][i]].at \in Waiting /\ chat'[line'[m][i]].lock = m
    <3>1. CASE m = l /\ i = Len(s) + 1
      BY <1>3, <1>4, <1>7, <3>1 DEF Waiting
    <3>2. CASE ~(m = l /\ i = Len(s) + 1)
      <4>1. i \in DOMAIN line[m] /\ line'[m][i] = line[m][i]
        <5>1. CASE m = l
          <6>1. i \in 1 .. Len(s) + 1 /\ i # Len(s) + 1
            BY <1>7, <2>3, <3>2, <5>1
          <6>2. i \in 1 .. Len(s)
            BY <1>6, <6>1
          <6>3. line'[l][i] = s[i]
            BY <1>7, <6>2
          <6>4. QED
            BY <1>6, <5>1, <6>2, <6>3
        <5>2. CASE m # l
          BY <1>7, <2>3, <5>2
        <5>3. QED
          BY <5>1, <5>2
      <4>2. line[m][i] \in ChatRequests
        BY <4>1 DEF ChatInv, ChatTypeOK
      <4>3. chat[line[m][i]].at \in Waiting /\ chat[line[m][i]].lock = m
        BY <4>1 DEF ChatInv, LineInv
      <4>4. QED
        BY <1>12, <4>1, <4>2, <4>3
    <3>3. QED
      BY <3>1, <3>2
  <2>4. ASSUME NEW q \in ChatRequests, chat'[q].at \in Locked
        PROVE  line'[chat'[q].lock][1] = q
    <3>1. chat[q].at \in Locked /\ chat[q].at \in Waiting /\ chat'[q] = chat[q]
      BY <1>12, <2>4 DEF Waiting
    <3>2. line[chat[q].lock][1] = q /\ chat[q].lock \in ChatRequests
      BY <3>1 DEF ChatInv, LineInv
    <3>3. PICK i \in DOMAIN line[chat[q].lock] : line[chat[q].lock][i] = q
      BY <3>1 DEF ChatInv, LineInv
    <3>4. CASE chat[q].lock = l
      <4>1. 1 \in 1 .. Len(s)
        BY <1>6, <3>3, <3>4
      <4>2. QED
        BY <1>7, <3>1, <3>2, <3>4, <4>1
    <3>5. CASE chat[q].lock # l
      BY <1>7, <3>1, <3>2, <3>5
    <3>6. QED
      BY <3>4, <3>5
  <2>5. QED
    BY <2>1, <2>2, <2>3, <2>4 DEF LineInv
<1>14. CacheInv'
  <2>1. \A i, j \in DOMAIN locks' : locks'[i].key = locks'[j].key => i = j
    BY <1>5 DEF KeysDiffer
  <2>2. ASSUME NEW q \in ChatRequests, chat'[q].at \in Waiting, chat'[q].lock \notin evicted'
        PROVE  \E i \in DOMAIN locks' : locks'[i].key = KeyOf[q] /\ locks'[i].lock = chat'[q].lock
    <3>1. PICK j \in DOMAIN locks' : locks'[j] = [key |-> KeyOf[r], lock |-> l]
      BY <1>5
    <3>2. CASE q = r
      <4>1. locks'[j].key = KeyOf[q] /\ locks'[j].lock = chat'[q].lock
        BY <1>3, <1>4, <3>1, <3>2
      <4>2. QED
        BY <4>1
    <3>3. CASE q # r
      <4>1. chat[q].at \in Waiting /\ chat'[q] = chat[q] /\ chat[q].lock \notin evicted
        BY <1>5, <1>12, <2>2, <3>3
      <4>2. PICK i \in DOMAIN locks : locks[i].key = KeyOf[q] /\ locks[i].lock = chat[q].lock
        BY <4>1 DEF ChatInv, CacheInv
      <4>3. CASE KeyOf[q] = KeyOf[r]
        <5>1. l = chat[q].lock
          BY <4>2, <4>3, LockIsCached DEF l
        <5>2. locks'[j].key = KeyOf[q] /\ locks'[j].lock = chat'[q].lock
          BY <3>1, <4>1, <4>3, <5>1
        <5>3. QED
          BY <5>2
      <4>4. CASE KeyOf[q] # KeyOf[r]
        <5>1. line[chat[q].lock] # << >>
          <6>1. \E h \in DOMAIN line[chat[q].lock] : line[chat[q].lock][h] = q
            BY <4>1 DEF ChatInv, LineInv
          <6>2. QED
            BY <6>1
        <5>2. PICK h \in DOMAIN locks' : locks'[h] = locks[i]
          BY <1>5, <2>2, <4>1, <4>2, <4>4, <5>1
        <5>3. QED
          BY <4>1, <4>2, <5>2
      <4>5. QED
        BY <4>3, <4>4
    <3>4. QED
      BY <3>2, <3>3
  <2>3. QED
    BY <2>1, <2>2 DEF CacheInv
<1>15. UNCHANGED <<turnsOf, begun, stray, strayed>> /\ (evicted' = {} => evicted = {})
  BY <1>1, <1>5 DEF storeVars, turnVars
<1>16. BegunInv'
  <2>1. \A k \in Keys : \A i \in DOMAIN begun[k] : begun[k][i] \in ChatRequests
    BY DEF ChatInv, ChatTypeOK
  <2>2. stray \subseteq ChatRequests
    BY DEF ChatInv, ChatTypeOK
  <2>3. \A k \in Keys : \A i \in DOMAIN begun[k] :
          KeyOf[begun[k][i]] = k /\ chat'[begun[k][i]].at \in {"over"} \cup Locked
    BY <1>12, <2>1 DEF ChatInv, BegunInv
  <2>4. \A q \in stray : chat'[q].at = "over" /\ q \in strayed
    BY <1>12, <2>2 DEF ChatInv, BegunInv
  <2>5. \A q \in ChatRequests : chat'[q].at \in Locked \/ q \in stray =>
          \E i \in DOMAIN begun[KeyOf[q]] : begun[KeyOf[q]][i] = q
    BY <1>12 DEF ChatInv, BegunInv
  <2>6. evicted' = {} => \A q \in ChatRequests : chat'[q].at \in Locked =>
          begun[KeyOf[q]][Len(begun[KeyOf[q]])] = q
    BY <1>12, <1>15 DEF ChatInv, BegunInv
  <2>7. QED
    BY <1>15, <2>3, <2>4, <2>5, <2>6 DEF ChatInv, BegunInv
<1>17. StoredInv'
  <2>1. \A k \in Keys : \A i \in DOMAIN turnsOf[k] : turnsOf[k][i] \in ChatRequests
    BY DEF ChatInv, ChatTypeOK
  <2>2. \A k \in Keys : \A i \in DOMAIN turnsOf[k] : chat'[turnsOf[k][i]].at = "over"
    BY <1>12, <2>1 DEF ChatInv, StoredInv
  <2>3. QED
    BY <1>15, <2>2 DEF ChatInv, StoredInv
<1>18. QED
  BY <1>9, <1>10, <1>11, <1>13, <1>14, <1>16, <1>17 DEF ChatInv

-----------------------------------------------------------------------------
(* The theorems *)

LEMMA ChatStarts == ASSUME ChatInit PROVE ChatInv
<1>1. Fresh \in ChatState /\ Fresh.at = "new" /\ ~Fresh.full
  BY DEF Fresh, ChatState, ChatPlaces, Token
<1>2. /\ chat \in [ChatRequests -> ChatState]
      /\ \A r \in ChatRequests : chat[r].at = "new" /\ ~chat[r].full
  BY <1>1 DEF ChatInit
<1>3. /\ locks = << >> /\ \A r \in ChatRequests : line[r] = << >>
      /\ \A k \in Keys : tokenOf[k] = None /\ turnsOf[k] = << >> /\ begun[k] = << >>
      /\ \A c \in Clients : wallet[c] = {}
      /\ stray = {}
  BY DEF ChatInit
<1>4. ChatTypeOK
  BY <1>2 DEF ChatInit, ChatTypeOK, Token
<1>5. QuotaInv /\ TokenInv
  BY <1>2, <1>3 DEF QuotaInv, TokenInv, TokensAgree, TokensHeldAreStored, OwnerCanReturn
<1>6. \A r \in ChatRequests : chat[r].at \notin Waiting /\ chat[r].at \notin Locked
  BY <1>2 DEF Waiting, Locked
<1>7. LineInv /\ CacheInv
  BY <1>3, <1>6 DEF LineInv, CacheInv, IsInjective
<1>8. BegunInv /\ StoredInv
  BY <1>3, <1>6 DEF BegunInv, StoredInv, IsInjective
<1>9. QED
  BY <1>4, <1>5, <1>7, <1>8 DEF ChatInv

LEMMA ChatKeeps == ASSUME ChatInv, [ChatNext]_chatVars PROVE ChatInv'
<1>1. ASSUME NEW r \in ChatRequests,
             Arrive(r) \/ ChatStep(r) \/ Disconnect(r) \/ SeesLatch(r) \/ CancelProducer(r)
      PROVE  ChatInv'
  BY <1>1, ArriveKeeps, TranscribeKeeps, AuthorizeKeeps, ReadCountKeeps, CheckKeeps, AcceptKeeps,
     BindKeeps, OpenKeeps, UnopenedKeeps, EnterKeeps, PrepareKeeps, RunEndsKeeps, AppendKeeps,
     FinalizeKeeps, StrayAppendKeeps, DisconnectKeeps, SeesLatchKeeps, CancelProducerKeeps
  DEF ChatStep
<1>2. CASE ChatCrash
  BY <1>2, ChatCrashKeeps
<1>3. CASE UNCHANGED chatVars
  <2>1. UNCHANGED <<tokenOf, counted, turnsOf, locks, line, evicted, stray, begun, strayed, chat, wallet>>
    BY <1>3 DEF chatVars, storeVars, lockVars, turnVars
  <2>2. ChatTypeOK' /\ QuotaInv'
    BY <2>1 DEF ChatInv, ChatTypeOK, QuotaInv
  <2>3. TokenInv'
    BY <2>1 DEF ChatInv, TokenInv, TokensAgree, TokensHeldAreStored, OwnerCanReturn, At
  <2>4. LineInv' /\ CacheInv'
    BY <2>1 DEF ChatInv, LineInv, CacheInv
  <2>5. BegunInv' /\ StoredInv'
    BY <2>1 DEF ChatInv, BegunInv, StoredInv
  <2>6. QED
    BY <2>2, <2>3, <2>4, <2>5 DEF ChatInv
<1>4. QED
  BY <1>1, <1>2, <1>3 DEF ChatNext

LEMMA PositionIs ==
    ASSUME NEW s, IsInjective(s), NEW i \in DOMAIN s PROVE Position(s, s[i]) = i
BY DEF IsInjective, Position

LEMMA ChatIsSound == ASSUME ChatInv PROVE TurnsKeepOrder /\ GateIsSound
<1>1. OverlapOnlyByEviction
  <2>1. SUFFICES ASSUME NEW r \in ChatRequests, NEW q \in ChatRequests, r # q, KeyOf[r] = KeyOf[q],
                        chat[r].at \in Locked, chat[q].at \in Locked,
                        chat[r].lock \notin evicted, chat[q].lock \notin evicted
                 PROVE  FALSE
    BY DEF OverlapOnlyByEviction
  <2>2. chat[r].at \in Waiting /\ line[chat[r].lock][1] = r
    BY <2>1 DEF ChatInv, LineInv, Waiting
  <2>3. QED
    BY <2>1, <2>2, OneRuns
<1>2. TranscriptInOrder
  <2>1. SUFFICES ASSUME NEW k \in Keys, NEW i \in DOMAIN turnsOf[k], NEW j \in DOMAIN turnsOf[k],
                        i < j, evicted = {},
                        turnsOf[k][i] \notin strayed, turnsOf[k][j] \notin strayed
                 PROVE  Position(begun[k], turnsOf[k][i]) < Position(begun[k], turnsOf[k][j])
    BY DEF TranscriptInOrder
  <2>2. PICK a \in DOMAIN begun[k], b \in DOMAIN begun[k] :
          a < b /\ begun[k][a] = turnsOf[k][i] /\ begun[k][b] = turnsOf[k][j]
    BY <2>1 DEF ChatInv, StoredInv
  <2>3. IsInjective(begun[k])
    BY DEF ChatInv, BegunInv
  <2>4. Position(begun[k], begun[k][a]) = a /\ Position(begun[k], begun[k][b]) = b
    BY <2>3, PositionIs
  <2>5. QED
    BY <2>2, <2>4
<1>3. QuotaBinds
  BY DEF ChatInv, QuotaInv, QuotaBinds
<1>4. QED
  BY <1>1, <1>2, <1>3 DEF TurnsKeepOrder, GateIsSound, ChatInv, TokenInv

\* Everything the invariant says of lines, locks, transcripts, tokens and counts holds of
\* every chat route the configuration allows.
THEOREM ChatStaysSound == ChatSpec => []ChatInv
<1>1. ChatInit => ChatInv
  BY ChatStarts
<1>2. ChatInv /\ [ChatNext]_chatVars => ChatInv'
  BY ChatKeeps
<1>3. QED
  BY <1>1, <1>2, PTL DEF ChatSpec

\* Two turns of a session overlap only when its lock was evicted in use, and transcripts
\* list turns in the order in which they ran, for any requests and any size of the cache.
THEOREM OrderIsKept == ChatSpec => []TurnsKeepOrder
<1>1. ChatInv => TurnsKeepOrder
  BY ChatIsSound
<1>2. QED
  BY <1>1, ChatStaysSound, PTL

\* No client holds a token its session would not accept, the one who was given it can
\* return, and a used-up quota admits nobody who comes later, for any requests and quota.
THEOREM GateHolds == ChatSpec => []GateIsSound
<1>1. ChatInv => GateIsSound
  BY ChatIsSound
<1>2. QED
  BY <1>1, ChatStaysSound, PTL

-----------------------------------------------------------------------------
(* The checks of messages *)

Entry == [text : {TextOf[m] : m \in Messages}, at : 0 .. LastSecond]
Time == 0 .. LastSecond \cup {Never}

MessageRecord ==
    [at : {"new", "checking", "accepting", "turn", "refused"}, checker : Checkers,
     last : Time, knew : SUBSET Messages, accepted : 0 .. LastSecond]

\* The places of what was let through and is within the window at time t.
InWindow(let, t) == {i \in DOMAIN let : t < let[i].at + Window}

\* Everything that was let through and is fresh is remembered, each in a place of its own.
FreshIsRemembered(kept, let, t) ==
    \E f \in [InWindow(let, t) -> DOMAIN kept] :
        /\ IsInjective(f)
        /\ \A i \in InWindow(let, t) : kept[f[i]] = let[i]

RepeatsAreFew(let) ==
    \A n \in DOMAIN let :
        LET final == let[n] IN
        Cardinality({i \in 1 .. n : /\ let[i].text = final.text
                                    /\ final.at < let[i].at + Window}) <= MaxRepeated

\* What a checker keeps of a session at time t, when it let that much through and last did
\* at time `last`: also the last of it, if anything.
SessionMemory(kept, let, last, t) ==
    /\ kept \in Seq(Entry) /\ let \in Seq(Entry) /\ last \in Time
    /\ last # Never => last <= t
    /\ FreshIsRemembered(kept, let, t)
    /\ RepeatsAreFew(let)
    /\ kept # <<>> => /\ last # Never
                      /\ \E i \in DOMAIN kept : kept[i].at = last
                      /\ \A i \in DOMAIN kept : kept[i].at <= last

Remembered(memory, k) == IF k \in DOMAIN memory THEN memory[k] ELSE <<>>

\* What a checker remembers at time t.
Memory(memory, let, last, t) ==
    /\ DOMAIN memory \subseteq ChatIds /\ IsFiniteSet(DOMAIN memory)
    /\ Cardinality(DOMAIN memory) <= MaxRemembered
    /\ \A k \in DOMAIN memory : memory[k] # <<>>
    /\ \A k \in ChatIds : SessionMemory(Remembered(memory, k), let[k], last[k], t)
    /\ \A k \in ChatIds \ DOMAIN memory, o \in DOMAIN memory :
          last[k] # Never => last[k] <= last[o]

\* The turns among `turns` of session k.
TurnsOfChat(turns, k) == {a \in turns : chatIdOf[a] = k}

\* Time t is that of one of the turns, if there are any.
IsTimeOf(t, turns) == turns # {} => \E c \in turns : message[c].accepted = t

MessagesAreTyped ==
    /\ chatIdOf \in [Messages -> ChatIds]
    /\ second \in 0 .. LastSecond
    /\ currentChecker \in Checkers
    /\ lastTurnAt \in [ChatIds -> Time]
    /\ message \in [Messages -> MessageRecord]
    /\ acceptedTurns \in Seq(Messages)
    /\ DOMAIN recent = Checkers
    /\ passed \in [Checkers -> [ChatIds -> Seq(Entry)]]
    /\ lastPass \in [Checkers -> [ChatIds -> Time]]

MemoriesAreSound == \A g \in Checkers : Memory(recent[g], passed[g], lastPass[g], second)

\* A message is passed on only when the last turn it knows of is an interval ago, and not
\* before any turn it knows of.
PassedInTime(m) ==
    /\ \A a \in message[m].knew : message[a].accepted <= message[m].accepted
    /\ message[m].last # Never => message[m].last + MinInterval <= message[m].accepted

TurnsAreInOrder ==
    /\ \A a \in ToSet(acceptedTurns) : message[a].at = "turn"
    /\ \A k \in ChatIds : IsTimeOf(lastTurnAt[k], TurnsOfChat(ToSet(acceptedTurns), k))
    /\ \A m \in Messages :
          /\ message[m].knew \subseteq ToSet(acceptedTurns)
          /\ IsTimeOf(message[m].last, TurnsOfChat(message[m].knew, chatIdOf[m]))
          /\ message[m].accepted <= second
          /\ message[m].at \in {"accepting", "turn"} => PassedInTime(m)

MessagesInv == MessagesAreTyped /\ MemoriesAreSound /\ TurnsAreInOrder

-----------------------------------------------------------------------------
\* What is assumed of the constants, in one place.
LEMMA CheckConstants ==
    /\ Window \in Nat /\ MaxRemembered \in Nat /\ MaxRepeated \in Nat
    /\ MaxRemembered > 0 /\ MaxRepeated > 0
    /\ MinInterval \in Nat /\ LastSecond \in Nat /\ MaxReloads \in Nat
    /\ Never \notin Nat
BY MessageChecksAssumption

\* An entry and its time.
LEMMA EntryTimes ==
    ASSUME NEW s \in Seq(Entry)
    PROVE  /\ DOMAIN s = 1 .. Len(s) /\ Len(s) \in Nat
           /\ \A i \in DOMAIN s : s[i] \in Entry /\ s[i].at \in 0 .. LastSecond /\ s[i].at \in Nat
<1>1. DOMAIN s = 1 .. Len(s) /\ Len(s) \in Nat
  BY LenProperties
<1>2. \A i \in DOMAIN s : s[i] \in Entry
  BY <1>1, ElementOfSeq
<1>3. \A e \in Entry : e.at \in 0 .. LastSecond /\ e.at \in Nat
  BY CheckConstants DEF Entry
<1>4. QED
  BY <1>1, <1>2, <1>3

\* As time passes there is less to remember.
LEMMA SessionAges ==
    ASSUME NEW kept, NEW let, NEW last, NEW t \in 0 .. LastSecond, NEW u \in 0 .. LastSecond,
           t <= u, SessionMemory(kept, let, last, t)
    PROVE  SessionMemory(kept, let, last, u)
<1>1. PICK f \in [InWindow(let, t) -> DOMAIN kept] :
        /\ IsInjective(f)
        /\ \A i \in InWindow(let, t) : kept[f[i]] = let[i]
  BY DEF SessionMemory, FreshIsRemembered
<1>2. kept \in Seq(Entry) /\ let \in Seq(Entry) /\ last \in Time
  BY DEF SessionMemory
<1>3. InWindow(let, u) \subseteq InWindow(let, t)
  <2>1. \A i \in DOMAIN let : let[i].at \in Nat
    BY <1>2, EntryTimes
  <2>2. QED
    BY <2>1, CheckConstants DEF InWindow
<1> DEFINE h == [i \in InWindow(let, u) |-> f[i]]
<1>4. h \in [InWindow(let, u) -> DOMAIN kept] /\ \A i \in InWindow(let, u) : h[i] = f[i]
  BY <1>1, <1>3
<1> HIDE DEF h
<1>5. IsInjective(h) /\ \A i \in InWindow(let, u) : kept[h[i]] = let[i]
  BY <1>1, <1>3, <1>4 DEF IsInjective
<1>6. last # Never => last <= u
  BY <1>2, CheckConstants DEF SessionMemory, Time
<1>7. QED
  BY <1>2, <1>4, <1>5, <1>6 DEF SessionMemory, FreshIsRemembered

\* Pruning forgets what is no longer fresh.
LEMMA SessionPruned ==
    ASSUME NEW kept, NEW let, NEW last, NEW t \in 0 .. LastSecond,
           SessionMemory(kept, let, last, t)
    PROVE  SessionMemory(SelectAt(kept, {i \in DOMAIN kept : t < kept[i].at + Window}), let, last, t)
<1> DEFINE I == {i \in DOMAIN kept : t < kept[i].at + Window}
           left == SelectAt(kept, I)
<1>1. PICK f \in [InWindow(let, t) -> DOMAIN kept] :
        /\ IsInjective(f)
        /\ \A i \in InWindow(let, t) : kept[f[i]] = let[i]
  BY DEF SessionMemory, FreshIsRemembered
<1>2. kept \in Seq(Entry) /\ let \in Seq(Entry) /\ last \in Time
  BY DEF SessionMemory
<1>3. DOMAIN kept = 1 .. Len(kept) /\ \A i \in DOMAIN kept : kept[i].at \in Nat
  BY <1>2, EntryTimes
<1>4. \A i \in InWindow(let, t) : f[i] \in I
  BY <1>1 DEF InWindow
<1>5. /\ \A i \in I : i \in DOMAIN kept /\ t < kept[i].at + Window
      /\ \A i \in DOMAIN kept : t < kept[i].at + Window => i \in I
  OBVIOUS
<1> HIDE DEF I
<1>6. PICK p : SelectedBy(left, kept, I, Len(kept), p)
  BY <1>2, SelectedPlaces
<1>7. left \in Seq(Entry)
  BY <1>2, SelectedPlaces
<1>8. /\ p \in [DOMAIN left -> I \cap DOMAIN kept]
      /\ \A i \in I : \E j \in DOMAIN left : p[j] = i
      /\ \A j \in DOMAIN left : left[j] = kept[p[j]]
  BY <1>3, <1>5, <1>6 DEF SelectedBy
<1> HIDE DEF left
<1> DEFINE h == [i \in InWindow(let, t) |-> CHOOSE j \in DOMAIN left : p[j] = f[i]]
<1>9. \A i \in InWindow(let, t) : h[i] \in DOMAIN left /\ p[h[i]] = f[i]
  BY <1>4, <1>8
<1>10. h \in [InWindow(let, t) -> DOMAIN left]
  BY <1>9
<1> HIDE DEF h
<1>11. IsInjective(h)
  BY <1>1, <1>9, <1>10 DEF IsInjective
<1>12. \A i \in InWindow(let, t) : left[h[i]] = let[i]
  BY <1>1, <1>8, <1>9
<1>13. FreshIsRemembered(left, let, t)
  BY <1>10, <1>11, <1>12 DEF FreshIsRemembered
<1>14. ASSUME left # <<>>
       PROVE  /\ last # Never
              /\ \E j \in DOMAIN left : left[j].at = last
              /\ \A j \in DOMAIN left : left[j].at <= last
  <2>1. PICK j \in DOMAIN left : TRUE
    <3>1. 1 \in DOMAIN left
      BY <1>7, <1>14, EmptySeq, LenProperties
    <3>2. QED
      BY <3>1
  <2>2. p[j] \in DOMAIN kept /\ t < kept[p[j]].at + Window
    BY <1>5, <1>8, <2>1
  <2>3. kept # <<>>
    BY <2>2
  <2>4. /\ last # Never
        /\ \E i \in DOMAIN kept : kept[i].at = last
        /\ \A i \in DOMAIN kept : kept[i].at <= last
    BY <2>3 DEF SessionMemory
  <2>5. PICK i \in DOMAIN kept : kept[i].at = last
    BY <2>4
  <2>6. kept[p[j]].at <= kept[i].at
    BY <2>2, <2>4, <2>5
  <2>7. t < kept[i].at + Window
    BY <1>3, <2>2, <2>5, <2>6, CheckConstants
  <2>8. PICK n \in DOMAIN left : p[n] = i
    BY <1>5, <1>8, <2>5, <2>7
  <2>9. left[n].at = last
    BY <1>8, <2>5, <2>8
  <2>10. \A n2 \in DOMAIN left : left[n2].at <= last
    BY <1>8, <2>4
  <2>11. QED
    BY <2>4, <2>9, <2>10
<1>15. QED
  BY <1>2, <1>7, <1>13, <1>14 DEF SessionMemory, left, I

\* A session that is evicted starts again.
LEMMA SessionForgotten ==
    ASSUME NEW last \in Time, NEW t, last # Never => last <= t
    PROVE  SessionMemory(<<>>, <<>>, last, t)
<1>1. <<>> \in Seq(Entry) /\ DOMAIN <<>> = {}
  OBVIOUS
<1>2. InWindow(<<>>, t) = {}
  BY <1>1 DEF InWindow
<1>3. <<>> \in [{} -> {}] /\ IsInjective(<<>>)
  BY <1>1 DEF IsInjective
<1>4. FreshIsRemembered(<<>>, <<>>, t)
  BY <1>1, <1>2, <1>3 DEF FreshIsRemembered
<1>5. RepeatsAreFew(<<>>)
  BY <1>1 DEF RepeatsAreFew
<1>6. QED
  BY <1>1, <1>4, <1>5 DEF SessionMemory

\* A message that passes is remembered, and is not one too many.
LEMMA SessionServed ==
    ASSUME NEW kept, NEW let, NEW last, NEW t \in 0 .. LastSecond,
           SessionMemory(kept, let, last, t), NEW e \in Entry, e.at = t,
           Cardinality({i \in DOMAIN kept : kept[i].text = e.text}) < MaxRepeated
    PROVE  SessionMemory(Append(kept, e), Append(let, e), t, t)
<1> DEFINE more == Append(let, e)
           held == Append(kept, e)
           n == Len(let)
           m == Len(kept)
<1>1. kept \in Seq(Entry) /\ let \in Seq(Entry) /\ last \in Time
  BY DEF SessionMemory
<1>2. /\ n \in Nat /\ DOMAIN let = 1 .. n /\ more \in Seq(Entry) /\ DOMAIN more = 1 .. n + 1
      /\ \A i \in 1 .. n : more[i] = let[i]
      /\ more[n + 1] = e
  BY <1>1, AppendProperties, LenProperties
<1>3. /\ m \in Nat /\ DOMAIN kept = 1 .. m /\ held \in Seq(Entry) /\ DOMAIN held = 1 .. m + 1
      /\ \A i \in 1 .. m : held[i] = kept[i]
      /\ held[m + 1] = e
  BY <1>1, AppendProperties, LenProperties
<1>4. PICK f \in [InWindow(let, t) -> DOMAIN kept] :
        /\ IsInjective(f)
        /\ \A i \in InWindow(let, t) : kept[f[i]] = let[i]
  BY DEF SessionMemory, FreshIsRemembered
<1> HIDE DEF more, held, n, m
<1>5. InWindow(more, t) \subseteq InWindow(let, t) \cup {n + 1}
  BY <1>2 DEF InWindow
<1>6. FreshIsRemembered(held, more, t)
  <2> DEFINE h == [i \in InWindow(more, t) |-> IF i = n + 1 THEN m + 1 ELSE f[i]]
  <2>1. \A i \in InWindow(more, t) : i # n + 1 => /\ i \in InWindow(let, t)
                                              /\ f[i] \in 1 .. m
                                              /\ held[f[i]] = more[i]
    <3>1. TAKE i \in InWindow(more, t)
    <3>2. HAVE i # n + 1
    <3>3. i \in InWindow(let, t) /\ i \in 1 .. n
      BY <1>2, <1>5, <3>2 DEF InWindow
    <3>4. QED
      BY <1>2, <1>3, <1>4, <3>3
  <2>2. h \in [InWindow(more, t) -> DOMAIN held]
    BY <1>3, <2>1
  <2>3. \A i \in InWindow(more, t) : h[i] = IF i = n + 1 THEN m + 1 ELSE f[i]
    OBVIOUS
  <2> HIDE DEF h
  <2>4. IsInjective(h)
    BY <1>3, <1>4, <2>1, <2>2, <2>3 DEF IsInjective
  <2>5. \A i \in InWindow(more, t) : held[h[i]] = more[i]
    BY <1>2, <1>3, <2>1, <2>3
  <2>6. QED
    BY <2>2, <2>4, <2>5 DEF FreshIsRemembered
<1>7. RepeatsAreFew(more)
  <2> DEFINE Same(p, j) == {i \in 1 .. j : /\ p[i].text = p[j].text
                                           /\ p[j].at < p[i].at + Window}
  <2>1. SUFFICES ASSUME NEW j \in 1 .. n + 1 PROVE Cardinality(Same(more, j)) <= MaxRepeated
    BY <1>2 DEF RepeatsAreFew
  <2>2. CASE j \in 1 .. n
    <3>1. Same(more, j) = Same(let, j)
      BY <1>2, <2>2
    <3>2. Cardinality(Same(let, j)) <= MaxRepeated
      BY <1>2, <2>2 DEF SessionMemory, RepeatsAreFew
    <3>3. QED
      BY <3>1, <3>2
  <2>3. CASE j = n + 1
    <3> DEFINE F == {i \in InWindow(let, t) : let[i].text = e.text}
               R == {i \in DOMAIN kept : kept[i].text = e.text}
               h == [i \in F |-> f[i]]
    <3>1. h \in [F -> R] /\ \A i \in F : h[i] = f[i]
      BY <1>4
    <3>2. h \in Injection(F, R)
      <4> HIDE DEF h
      <4>1. \A a, b \in DOMAIN h : h[a] = h[b] => a = b
        BY <1>4, <3>1 DEF IsInjective
      <4>2. QED
        BY <3>1, <4>1 DEF Injection, IsInjective
    <3>3. IsFiniteSet(R)
      <4>1. R \subseteq 1 .. m
        BY <1>3
      <4>2. QED
        BY <1>3, <4>1, FS_Interval, FS_Subset
    <3>4. IsFiniteSet(F) /\ Cardinality(F) <= Cardinality(R)
      <4> HIDE DEF F, R, h
      <4>1. QED
        BY <3>2, <3>3, FS_Injection
    <3>5. Same(more, j) \subseteq F \cup {n + 1}
      BY <1>2, <2>3 DEF InWindow
    <3>6. n + 1 \notin F
      BY <1>2 DEF InWindow
    <3>7. Cardinality(R) < MaxRepeated /\ Cardinality(R) \in Nat
      BY <3>3, FS_CardinalityType
    <3> HIDE DEF F, R, h, Same
    <3>8. IsFiniteSet(F \cup {n + 1}) /\ Cardinality(F \cup {n + 1}) = Cardinality(F) + 1
      BY <3>4, <3>6, FS_AddElement
    <3>9. Cardinality(Same(more, j)) <= Cardinality(F \cup {n + 1})
      BY <3>5, <3>8, FS_Subset
    <3>10. Cardinality(F) \in Nat /\ Cardinality(Same(more, j)) \in Nat
      BY <3>4, <3>5, <3>8, FS_Subset, FS_CardinalityType
    <3>11. QED
      BY <3>4, <3>7, <3>8, <3>9, <3>10, CheckConstants
  <2>4. QED
    BY <1>2, <2>2, <2>3
<1>8. \A i \in DOMAIN held : held[i].at <= t
  <2>1. \A i \in 1 .. m : kept[i].at <= t
    <3>1. SUFFICES ASSUME NEW i \in 1 .. m PROVE kept[i].at <= t
      OBVIOUS
    <3>2. kept # <<>>
      BY <1>3
    <3>3. kept[i].at <= last /\ last <= t /\ last # Never
      BY <1>3, <3>2 DEF SessionMemory
    <3>4. kept[i].at \in Nat /\ last \in Nat
      BY <1>1, <1>3, <3>3, EntryTimes, CheckConstants DEF Time
    <3>5. QED
      BY <3>3, <3>4, CheckConstants
  <2>2. QED
    BY <1>3, <2>1
<1>9. t \in Time /\ t # Never /\ t <= t
  BY CheckConstants DEF Time
<1>10. m + 1 \in DOMAIN held /\ held[m + 1].at = t
  BY <1>3
<1>11. QED
  BY <1>2, <1>3, <1>6, <1>7, <1>8, <1>9, <1>10 DEF SessionMemory, more, held

\* What pruning session k makes of a memory.
LEMMA PrunedMemory ==
    ASSUME NEW memory, NEW let, NEW last, NEW k \in ChatIds, second \in 0 .. LastSecond,
           Memory(memory, let, last, second)
    PROVE  LET left == Pruned(memory, k) IN
           /\ SessionMemory(Remembered(left, k), let[k], last[k], second)
           /\ DOMAIN left \subseteq DOMAIN memory
           /\ \A o \in DOMAIN memory : o # k => o \in DOMAIN left /\ left[o] = memory[o]
           /\ k \in DOMAIN left => left[k] # <<>>
<1> DEFINE left == Pruned(memory, k)
           kept == IF k \in DOMAIN memory
                   THEN SelectAt(memory[k],
                                 {i \in DOMAIN memory[k] : second < memory[k][i].at + Window})
                   ELSE <<>>
<1>1. SessionMemory(kept, let[k], last[k], second)
  <2>1. SessionMemory(Remembered(memory, k), let[k], last[k], second)
    BY DEF Memory
  <2>2. CASE k \in DOMAIN memory
    BY <2>1, <2>2, SessionPruned DEF Remembered
  <2>3. CASE k \notin DOMAIN memory
    BY <2>1, <2>3 DEF Remembered
  <2>4. QED
    BY <2>2, <2>3
<1>2. k \notin DOMAIN memory => kept = <<>>
  OBVIOUS
<1>3. left = [o \in (DOMAIN memory \ {k}) \cup (IF kept = <<>> THEN {} ELSE {k}) |->
                 IF o = k THEN kept ELSE memory[o]]
  BY DEF Pruned
<1> HIDE DEF kept, left
<1>4. Remembered(left, k) = kept
  BY <1>3 DEF Remembered
<1>5. QED
  BY <1>1, <1>2, <1>3, <1>4 DEF left

\* The newest message that is remembered of a session is the last one that passed.
LEMMA NewestIsLast ==
    ASSUME NEW memory, NEW o \in DOMAIN memory, NEW let, NEW last, NEW t,
           SessionMemory(memory[o], let, last, t), memory[o] # <<>>
    PROVE  Newest(memory, o) = last
<1> DEFINE T == {memory[o][i].at : i \in DOMAIN memory[o]}
<1>1. /\ \E i \in DOMAIN memory[o] : memory[o][i].at = last
      /\ \A i \in DOMAIN memory[o] : memory[o][i].at <= last
      /\ memory[o] \in Seq(Entry)
  BY DEF SessionMemory
<1>2. \A i \in DOMAIN memory[o] : memory[o][i].at \in Nat
  BY <1>1, EntryTimes
<1>3. last \in T /\ T \subseteq Nat /\ \A x \in T : x <= last
  BY <1>1, <1>2
<1>4. Newest(memory, o) = Max(T)
  BY DEF Newest
<1> HIDE DEF T
<1>5. \A x \in T : last >= x
  BY <1>3
<1>6. \A x \in T : (\A y \in T : x >= y) => x = last
  BY <1>3
<1>7. Max(T) = last
  BY <1>3, <1>5, <1>6 DEF Max
<1>8. QED
  BY <1>4, <1>7

\* A refusal leaves a memory as sound as it was.
LEMMA MemoryRefused ==
    ASSUME NEW memory, NEW let, NEW last, NEW k \in ChatIds, second \in 0 .. LastSecond,
           Memory(memory, let, last, second), k \in DOMAIN Pruned(memory, k)
    PROVE  Memory(Pruned(memory, k), let, last, second)
<1> DEFINE left == Pruned(memory, k)
<1>1. /\ SessionMemory(Remembered(left, k), let[k], last[k], second)
      /\ DOMAIN left \subseteq DOMAIN memory
      /\ \A o \in DOMAIN memory : o # k => o \in DOMAIN left /\ left[o] = memory[o]
      /\ left[k] # <<>>
  BY PrunedMemory
<1>2. k \in DOMAIN left
  OBVIOUS
<1> HIDE DEF left
<1>3. DOMAIN left = DOMAIN memory
  BY <1>1, <1>2
<1>4. \A o \in DOMAIN left : left[o] # <<>>
  BY <1>1, <1>3 DEF Memory
<1>5. \A o \in ChatIds : SessionMemory(Remembered(left, o), let[o], last[o], second)
  <2>1. \A o \in ChatIds : o # k => Remembered(left, o) = Remembered(memory, o)
    BY <1>1, <1>3 DEF Remembered
  <2>2. QED
    BY <1>1, <2>1 DEF Memory
<1>6. QED
  BY <1>3, <1>4, <1>5 DEF Memory, left

\* A memory with message e of session k in it, and what is then counted as let through.
Serving(memory, k, e) ==
    LET left == Pruned(memory, k) IN
    [o \in DOMAIN left \cup {k} |->
        IF o # k THEN left[o] ELSE Append(IF k \in DOMAIN left THEN left[k] ELSE <<>>, e)]
Counted(let, k, e, gone) ==
    [o \in ChatIds |-> IF o \in gone THEN <<>> ELSE IF o = k THEN Append(let[o], e) ELSE let[o]]

\* A message that passes, and the evictions it leads to, leave a memory as sound as it was.
LEMMA MemoryServed ==
    ASSUME NEW memory, NEW let, NEW last, NEW k \in ChatIds, second \in 0 .. LastSecond,
           let \in [ChatIds -> Seq(Entry)], last \in [ChatIds -> Time],
           Memory(memory, let, last, second),
           NEW e \in Entry, e.at = second,
           Repeats(Pruned(memory, k), k, e.text) < MaxRepeated,
           NEW gone \in Evicted(Serving(memory, k, e), k)
    PROVE  Memory(Restrict(Serving(memory, k, e), DOMAIN Serving(memory, k, e) \ gone),
                  Counted(let, k, e, gone), [last EXCEPT ![k] = second], second)
<1> DEFINE with == Serving(memory, k, e)
           let2 == Counted(let, k, e, gone)
           last2 == [last EXCEPT ![k] = second]
<1>17. /\ with = [o \in DOMAIN Pruned(memory, k) \cup {k} |->
                      IF o # k THEN Pruned(memory, k)[o]
                      ELSE Append(IF k \in DOMAIN Pruned(memory, k) THEN Pruned(memory, k)[k]
                                  ELSE <<>>, e)]
       /\ let2 = [o \in ChatIds |-> IF o \in gone THEN <<>>
                                     ELSE IF o = k THEN Append(let[o], e) ELSE let[o]]
       /\ last2 = [last EXCEPT ![k] = second]
  BY DEF Serving, Counted
<1> HIDE DEF with, let2, last2
<1>18. gone \in Evicted(with, k)
  BY DEF with
<1> DEFINE left == Pruned(memory, k)
           kept == Remembered(left, k)
           all == DOMAIN with
           excess == Cardinality(all) - MaxRemembered
           rest == Restrict(with, all \ gone)
<1>1. /\ SessionMemory(kept, let[k], last[k], second)
      /\ DOMAIN left \subseteq DOMAIN memory
      /\ \A o \in DOMAIN memory : o # k => o \in DOMAIN left /\ left[o] = memory[o]
  BY PrunedMemory
<1>2. with = [o \in DOMAIN left \cup {k} |-> IF o # k THEN left[o] ELSE Append(kept, e)]
  BY <1>17 DEF Remembered
<1>3. Cardinality({i \in DOMAIN kept : kept[i].text = e.text}) < MaxRepeated
  <2>1. CASE k \in DOMAIN left
    BY <2>1 DEF Repeats, Remembered
  <2>2. CASE k \notin DOMAIN left
    <3>1. kept = <<>>
      BY <2>2 DEF Remembered
    <3>2. {i \in DOMAIN kept : kept[i].text = e.text} = {}
      BY <3>1
    <3>3. QED
      BY <3>2, FS_EmptySet, CheckConstants
  <2>3. QED
    BY <2>1, <2>2
<1> HIDE DEF left, kept
<1>4. SessionMemory(Append(kept, e), Append(let[k], e), second, second)
  BY <1>1, <1>3, SessionServed
<1>5. /\ all = DOMAIN memory \cup {k} /\ with[k] = Append(kept, e)
      /\ \A o \in DOMAIN memory : o # k => with[o] = memory[o]
  BY <1>1, <1>2
<1>6. Append(kept, e) # <<>>
  <2>1. kept \in Seq(Entry)
    BY <1>1 DEF SessionMemory
  <2>2. QED
    BY <2>1, AppendProperties
<1>7. \A o \in all : /\ o \in ChatIds /\ with[o] # <<>> /\ last2[o] \in 0 .. second
                     /\ SessionMemory(with[o], IF o = k THEN Append(let[k], e) ELSE let[o],
                                      last2[o], second)
  <2>1. TAKE o \in all
  <2>2. CASE o = k
    <3>1. last2[k] = second /\ second \in 0 .. second
      BY <1>17, CheckConstants
    <3>2. SessionMemory(with[k], Append(let[k], e), second, second)
      BY <1>4, <1>5
    <3>3. QED
      BY <1>5, <1>6, <2>2, <3>1, <3>2
  <2>3. CASE o # k
    <3>1. o \in DOMAIN memory /\ o \in ChatIds /\ with[o] = memory[o] /\ memory[o] # <<>>
      BY <1>5, <2>3 DEF Memory
    <3>2. SessionMemory(memory[o], let[o], last[o], second)
      BY <3>1 DEF Memory, Remembered
    <3>3. last2[o] = last[o]
      BY <1>17, <2>3, <3>1
    <3>4. last[o] \in 0 .. second
      BY <3>1, <3>2, CheckConstants DEF SessionMemory, Time
    <3>5. QED
      BY <2>3, <3>1, <3>2, <3>3, <3>4
  <2>4. QED
    BY <2>2, <2>3
<1>8. IsFiniteSet(all)
  BY <1>5, FS_AddElement DEF Memory
<1> HIDE DEF all, excess
<1>9. /\ gone \subseteq all \ {k}
      /\ Cardinality(all \ gone) <= MaxRemembered /\ IsFiniteSet(all \ gone)
      /\ \A o \in gone, p \in all \ ({k} \cup gone) : Newest(with, o) <= Newest(with, p)
  <2>1. Cardinality(all) \in Nat
    BY <1>8, FS_CardinalityType
  <2>2. CASE excess <= 0
    <3>1. gone = {}
      BY <1>18, <2>2 DEF Evicted, all, excess
    <3>2. Cardinality(all) <= MaxRemembered
      BY <2>1, <2>2, CheckConstants DEF excess
    <3>3. all \ gone = all
      BY <3>1
    <3>7. gone \subseteq all \ {k}
      BY <3>1
    <3>4. \A o \in gone, p \in all \ ({k} \cup gone) : Newest(with, o) <= Newest(with, p)
      BY <3>1
    <3>5. Cardinality(all \ gone) <= MaxRemembered /\ IsFiniteSet(all \ gone)
      BY <1>8, <3>2, <3>3
    <3>6. QED
      BY <3>4, <3>5, <3>7, Zenon
  <2>3. CASE ~ (excess <= 0)
    <3>1. /\ gone \in kSubset(excess, all \ {k})
          /\ \A o \in gone, p \in all \ ({k} \cup gone) : Newest(with, o) <= Newest(with, p)
      BY <1>18, <2>3 DEF Evicted, all, excess
    <3>2. gone \subseteq all \ {k} /\ Cardinality(gone) = excess
      BY <3>1 DEF kSubset
    <3>3. gone \subseteq all
      BY <3>2
    <3>4. all \cap gone = gone
      BY <3>3
    <3>5. IsFiniteSet(all \ gone) /\ Cardinality(all \ gone) = Cardinality(all) - Cardinality(gone)
      BY <1>8, <3>4, FS_Difference
    <3>6. Cardinality(all \ gone) = MaxRemembered
      BY <2>1, <3>2, <3>5, CheckConstants DEF excess
    <3>7. Cardinality(all \ gone) <= MaxRemembered /\ IsFiniteSet(all \ gone)
      BY <3>5, <3>6, CheckConstants
    <3>8. QED
      BY <3>1, <3>2, <3>7, Zenon
  <2>4. QED
    BY <2>2, <2>3
<1>10. \A o \in all : Newest(with, o) = last2[o]
  <2>1. DOMAIN with = all
    BY DEF all
  <2>2. QED
    BY <1>7, <2>1, NewestIsLast
<1>11. /\ DOMAIN rest = all \ gone
       /\ \A o \in all \ gone : rest[o] = with[o]
  BY DEF Restrict, all
<1> HIDE DEF rest
<1>12. DOMAIN rest \subseteq ChatIds /\ \A o \in DOMAIN rest : rest[o] # <<>>
  BY <1>7, <1>11
<1>13. \A o \in ChatIds : SessionMemory(Remembered(rest, o), let2[o], last2[o], second)
  <2>1. TAKE o \in ChatIds
  <2>2. CASE o \in all \ gone
    <3>1. Remembered(rest, o) = with[o]
      BY <1>11, <2>2 DEF Remembered
    <3>2. let2[o] = IF o = k THEN Append(let[k], e) ELSE let[o]
      BY <1>17, <2>2
    <3>3. QED
      BY <1>7, <2>2, <3>1, <3>2
  <2>3. CASE o \in gone
    <3>1. Remembered(rest, o) = <<>> /\ let2[o] = <<>>
      BY <1>11, <1>17, <2>3 DEF Remembered
    <3>2. last2[o] \in 0 .. second
      BY <1>7, <1>9, <2>3
    <3>3. last2[o] \in Time /\ last2[o] <= second
      BY <3>2, CheckConstants DEF Time
    <3>4. QED
      BY <3>1, <3>3, SessionForgotten
  <2>4. CASE o \notin all
    <3>1. Remembered(rest, o) = <<>> /\ Remembered(memory, o) = <<>>
      BY <1>5, <1>11, <2>4 DEF Remembered
    <3>2. o # k /\ o \notin gone
      BY <1>5, <1>9, <2>4
    <3>3. let2[o] = let[o] /\ last2[o] = last[o]
      BY <1>17, <3>2
    <3>4. SessionMemory(Remembered(memory, o), let[o], last[o], second)
      BY DEF Memory
    <3>5. QED
      BY <3>1, <3>3, <3>4
  <2>5. QED
    BY <2>2, <2>3, <2>4
<1>14. ASSUME NEW x \in ChatIds \ DOMAIN rest, NEW o \in DOMAIN rest, last2[x] # Never
       PROVE  last2[x] <= last2[o]
  <2>1. last2[k] = second /\ k \in all
    BY <1>5, <1>17
  <2>2. o \in all /\ o \notin gone /\ last2[o] \in 0 .. second
    BY <1>7, <1>11
  <2>3. CASE x \in gone
    <3>1. last2[x] \in 0 .. second /\ x \in all
      BY <1>7, <1>9, <2>3
    <3>2. CASE o = k
      BY <2>1, <3>1, <3>2, CheckConstants
    <3>3. CASE o # k
      <4>1. o \in all \ ({k} \cup gone)
        BY <2>2, <3>3
      <4>2. Newest(with, x) <= Newest(with, o)
        BY <1>9, <2>3, <4>1
      <4>3. Newest(with, x) = last2[x] /\ Newest(with, o) = last2[o]
        BY <1>10, <2>2, <3>1
      <4>4. QED
        BY <4>2, <4>3
    <3>4. QED
      BY <3>2, <3>3
  <2>4. CASE x \notin gone
    <3>1. x \notin all /\ x # k /\ x \notin DOMAIN memory /\ last2[x] = last[x]
      BY <1>5, <1>11, <1>17, <2>1, <2>4
    <3>2. last[x] <= second
      <4>1. SessionMemory(Remembered(memory, x), let[x], last[x], second)
        BY DEF Memory
      <4>2. QED
        BY <1>14, <3>1, <4>1 DEF SessionMemory
    <3>3. CASE o = k
      BY <2>1, <3>1, <3>2, <3>3
    <3>4. CASE o # k
      <4>1. o \in DOMAIN memory /\ last2[o] = last[o] /\ x \in ChatIds \ DOMAIN memory
        BY <1>5, <1>17, <2>2, <3>1, <3>4
      <4>2. QED
        BY <1>14, <3>1, <4>1 DEF Memory
    <3>5. QED
      BY <3>3, <3>4
  <2>5. QED
    BY <2>3, <2>4
<1>15. Memory(rest, let2, last2, second)
  BY <1>9, <1>11, <1>12, <1>13, <1>14 DEF Memory
<1>16. QED
  BY <1>15 DEF rest, all, with, let2, last2

LEMMA MemoryAges ==
    ASSUME NEW memory, NEW let, NEW last, NEW t \in 0 .. LastSecond, NEW u \in 0 .. LastSecond,
           t <= u, Memory(memory, let, last, t)
    PROVE  Memory(memory, let, last, u)
<1>1. \A k \in ChatIds : SessionMemory(Remembered(memory, k), let[k], last[k], u)
  BY SessionAges DEF Memory
<1>2. QED
  BY <1>1 DEF Memory

-----------------------------------------------------------------------------
(* The steps of a message *)

\* The members of a sequence that grows.
LEMMA MembersOfMore ==
    ASSUME NEW S, NEW s \in Seq(S), NEW e \in S
    PROVE  ToSet(Append(s, e)) = ToSet(s) \cup {e} /\ ToSet(s) \subseteq S
<1>1. /\ Len(s) \in Nat /\ DOMAIN s = 1 .. Len(s) /\ DOMAIN Append(s, e) = 1 .. Len(s) + 1
      /\ \A i \in 1 .. Len(s) : Append(s, e)[i] = s[i]
      /\ Append(s, e)[Len(s) + 1] = e
      /\ Append(s, e) \in Seq(S)
  BY AppendProperties, LenProperties
<1>2. ToSet(Append(s, e)) \subseteq ToSet(s) \cup {e}
  <2>1. \A i \in 1 .. Len(s) + 1 : i \in 1 .. Len(s) \/ i = Len(s) + 1
    BY <1>1
  <2>2. QED
    BY <1>1, <2>1 DEF ToSet
<1>3. ToSet(s) \cup {e} \subseteq ToSet(Append(s, e))
  <2>1. Len(s) + 1 \in 1 .. Len(s) + 1 /\ \A i \in 1 .. Len(s) : i \in 1 .. Len(s) + 1
    BY <1>1
  <2>2. QED
    BY <1>1, <2>1 DEF ToSet
<1>4. ToSet(s) \subseteq S
  BY <1>1, ElementOfSeq DEF ToSet
<1>5. QED
  BY <1>2, <1>3, <1>4

\* The message that moves on, as a record.
LEMMA MessageFields ==
    ASSUME MessagesInv, NEW m \in Messages
    PROVE  /\ message[m] \in MessageRecord /\ DOMAIN message = Messages
           /\ message[m].last \in Time /\ message[m].knew \subseteq Messages
           /\ message[m].accepted \in 0 .. LastSecond /\ message[m].checker \in Checkers
           /\ chatIdOf[m] \in ChatIds
           /\ second \in 0 .. LastSecond /\ second \in Nat
BY CheckConstants DEF MessagesInv, MessagesAreTyped, MessageRecord

\* A step that leaves the checkers alone, at most as time passes.
LEMMA MemoriesKept ==
    ASSUME MessagesInv, UNCHANGED <<recent, passed, lastPass>>,
           second' \in 0 .. LastSecond, second <= second'
    PROVE  MemoriesAreSound'
<1>1. \A g \in Checkers : Memory(recent[g], passed[g], lastPass[g], second')
  BY MemoryAges DEF MessagesInv, MessagesAreTyped, MemoriesAreSound
<1>2. \A g \in Checkers : Memory(recent'[g], passed'[g], lastPass'[g], second')
  BY <1>1
<1>3. QED
  BY <1>2 DEF MemoriesAreSound, Memory, SessionMemory, Remembered, FreshIsRemembered, InWindow,
              RepeatsAreFew, Entry, Time

LEMMA SecondPassesKeeps == ASSUME MessagesInv, SecondPasses PROVE MessagesInv'
<1>1. /\ second < LastSecond /\ second' = second + 1
      /\ UNCHANGED <<chatIdOf, currentChecker, recent, lastTurnAt, message,
                     acceptedTurns, passed, lastPass>>
  BY DEF SecondPasses
<1>2. second \in 0 .. LastSecond /\ second' \in 0 .. LastSecond /\ second <= second'
  BY <1>1, CheckConstants DEF MessagesInv, MessagesAreTyped
<1>3. MemoriesAreSound'
  BY <1>1, <1>2, MemoriesKept
<1>4. MessagesAreTyped'
  BY <1>1, <1>2 DEF MessagesInv, MessagesAreTyped, MessageRecord, Entry, Time
<1>5. TurnsAreInOrder'
  <2>1. \A m \in Messages : message[m].accepted <= second'
    BY <1>1, <1>2, MessageFields, CheckConstants DEF MessagesInv, TurnsAreInOrder
  <2>2. QED
    BY <1>1, <2>1 DEF MessagesInv, TurnsAreInOrder, PassedInTime, IsTimeOf, TurnsOfChat
<1>6. QED
  BY <1>3, <1>4, <1>5 DEF MessagesInv

LEMMA ReloadCheckerKeeps == ASSUME MessagesInv, ReloadChecker PROVE MessagesInv'
<1>1. /\ currentChecker' \in Checkers
      /\ UNCHANGED <<chatIdOf, second, recent, lastTurnAt, message, acceptedTurns, passed, lastPass>>
  BY CheckConstants DEF ReloadChecker, MessagesInv, MessagesAreTyped, Checkers
<1>2. MemoriesAreSound'
  <2>1. second' \in 0 .. LastSecond /\ second <= second'
    BY <1>1, CheckConstants DEF MessagesInv, MessagesAreTyped
  <2>2. QED
    BY <1>1, <2>1, MemoriesKept
<1>3. MessagesAreTyped'
  BY <1>1 DEF MessagesInv, MessagesAreTyped, MessageRecord, Entry, Time
<1>4. TurnsAreInOrder'
  BY <1>1 DEF MessagesInv, TurnsAreInOrder, PassedInTime, IsTimeOf, TurnsOfChat
<1>5. QED
  BY <1>2, <1>3, <1>4 DEF MessagesInv

LEMMA ReadTurnsKeeps == ASSUME MessagesInv, NEW m \in Messages, ReadTurns(m) PROVE MessagesInv'
<1> DEFINE k == chatIdOf[m]
           turns == ToSet(acceptedTurns)
           r0 == message[m]
           r1 == [r0 EXCEPT !.at = "checking"]
           r2 == [r1 EXCEPT !.checker = currentChecker]
           r3 == [r2 EXCEPT !.last = lastTurnAt[k]]
           r4 == [r3 EXCEPT !.knew = turns]
<1>1. /\ message[m].at = "new"
      /\ message' = [message EXCEPT ![m].at = "checking", ![m].checker = currentChecker,
                                    ![m].last = lastTurnAt[k], ![m].knew = turns]
      /\ UNCHANGED <<chatIdOf, second, currentChecker, recent, lastTurnAt, acceptedTurns,
                     passed, lastPass>>
  BY DEF ReadTurns, MessageAt
<1>2. /\ r0 \in MessageRecord /\ DOMAIN message = Messages /\ k \in ChatIds
      /\ second \in 0 .. LastSecond /\ second \in Nat
      /\ currentChecker \in Checkers /\ lastTurnAt[k] \in Time
      /\ turns \subseteq Messages
  <2>1. turns \subseteq Messages
    BY MembersOfMore DEF MessagesInv, MessagesAreTyped
  <2>2. QED
    BY <2>1, MessageFields DEF MessagesInv, MessagesAreTyped
<1>3. message' = [message EXCEPT ![m] = r4]
  BY <1>1, <1>2 DEF MessageRecord
<1>4. r1 \in MessageRecord /\ r1.accepted = message[m].accepted /\ r1.at = "checking"
  BY <1>2 DEF MessageRecord
<1> HIDE DEF r0, r1
<1>5. r2 \in MessageRecord /\ r2.accepted = message[m].accepted /\ r2.at = "checking"
  BY <1>2, <1>4 DEF MessageRecord
<1> HIDE DEF r2
<1>6. r3 \in MessageRecord /\ r3.accepted = message[m].accepted /\ r3.at = "checking"
      /\ r3.last = lastTurnAt[k]
  BY <1>2, <1>5 DEF MessageRecord
<1> HIDE DEF r3
<1>7. r4 \in MessageRecord /\ r4.accepted = message[m].accepted /\ r4.at = "checking"
      /\ r4.last = lastTurnAt[k] /\ r4.knew = turns
  BY <1>2, <1>6 DEF MessageRecord
<1> HIDE DEF r4
<1>8. /\ message'[m] = r4
      /\ \A n \in Messages : n # m => message'[n] = message[n]
      /\ \A n \in Messages : message'[n].accepted = message[n].accepted
  BY <1>2, <1>3, <1>7
<1>9. MessagesAreTyped'
  <2>1. message' \in [Messages -> MessageRecord]
    BY <1>3, <1>7 DEF MessagesInv, MessagesAreTyped
  <2>2. QED
    BY <1>1, <2>1 DEF MessagesInv, MessagesAreTyped, MessageRecord, Entry, Time
<1>10. MemoriesAreSound'
  BY <1>1, <1>2, MemoriesKept
<1>11. TurnsAreInOrder'
  <2>1. turns' = turns /\ m \notin turns
    BY <1>1 DEF MessagesInv, TurnsAreInOrder
  <2>2. \A a \in turns : message'[a].at = "turn"
    BY <1>2, <1>8, <2>1 DEF MessagesInv, TurnsAreInOrder
  <2>3. \A j \in ChatIds : IsTimeOf(lastTurnAt[j], TurnsOfChat(turns, j))'
    <3>1. \A j \in ChatIds : IsTimeOf(lastTurnAt[j], TurnsOfChat(turns, j))
      BY DEF MessagesInv, TurnsAreInOrder
    <3>2. QED
      BY <1>1, <1>2, <1>8, <2>1, <3>1 DEF IsTimeOf, TurnsOfChat
  <2>4. ASSUME NEW n \in Messages
        PROVE  /\ message'[n].knew \subseteq turns
               /\ IsTimeOf(message[n].last, TurnsOfChat(message[n].knew, chatIdOf[n]))'
               /\ message'[n].accepted <= second'
               /\ message'[n].at \in {"accepting", "turn"} => PassedInTime(n)'
    <3>1. /\ message[n].knew \subseteq turns
          /\ IsTimeOf(message[n].last, TurnsOfChat(message[n].knew, chatIdOf[n]))
          /\ message[n].accepted <= second
          /\ message[n].at \in {"accepting", "turn"} => PassedInTime(n)
      BY DEF MessagesInv, TurnsAreInOrder
    <3>2. CASE n = m
      <4>1. IsTimeOf(lastTurnAt[k], TurnsOfChat(turns, k))
        BY <1>2 DEF MessagesInv, TurnsAreInOrder
      <4>2. IsTimeOf(message[n].last, TurnsOfChat(message[n].knew, chatIdOf[n]))'
        BY <1>1, <1>2, <1>7, <1>8, <3>2, <4>1 DEF IsTimeOf, TurnsOfChat
      <4>3. message'[n].knew \subseteq turns /\ message'[n].at = "checking"
        BY <1>7, <1>8, <3>2
      <4>4. QED
        BY <1>1, <1>8, <3>1, <4>2, <4>3
    <3>3. CASE n # m
      <4>1. IsTimeOf(message[n].last, TurnsOfChat(message[n].knew, chatIdOf[n]))'
        BY <1>1, <1>2, <1>8, <3>1, <3>3 DEF IsTimeOf, TurnsOfChat
      <4>2. message'[n].at \in {"accepting", "turn"} => PassedInTime(n)'
        BY <1>2, <1>8, <3>1, <3>3 DEF PassedInTime
      <4>3. QED
        BY <1>1, <1>8, <3>1, <3>3, <4>1, <4>2
    <3>4. QED
      BY <3>2, <3>3
  <2>5. QED
    BY <2>1, <2>2, <2>3, <2>4 DEF TurnsAreInOrder
<1>12. QED
  BY <1>9, <1>10, <1>11 DEF MessagesInv

\* Message m moves to another place, accepted at time t if it did not know one: what the
\* turns and the others know of does not change.
LEMMA MessageMoves ==
    ASSUME MessagesInv, NEW m \in Messages, message[m].at \in {"checking", "accepting"},
           message' \in [Messages -> MessageRecord],
           \A n \in Messages : n # m => message'[n] = message[n],
           message'[m].last = message[m].last, message'[m].knew = message[m].knew,
           message'[m].at \in {"accepting", "turn"} => PassedInTime(m)',
           message'[m].accepted <= second,
           UNCHANGED <<chatIdOf, second, currentChecker>>,
           DOMAIN recent' = Checkers,
           passed' \in [Checkers -> [ChatIds -> Seq(Entry)]],
           lastPass' \in [Checkers -> [ChatIds -> Time]],
           MemoriesAreSound',
           \/ UNCHANGED <<lastTurnAt, acceptedTurns>>
           \/ /\ message'[m].at = "turn"
              /\ lastTurnAt' = [lastTurnAt EXCEPT ![chatIdOf[m]] = message'[m].accepted]
              /\ acceptedTurns' = Append(acceptedTurns, m)
    PROVE  MessagesInv'
<1> DEFINE turns == ToSet(acceptedTurns)
<1>1. /\ DOMAIN message = Messages /\ chatIdOf \in [Messages -> ChatIds]
      /\ second \in 0 .. LastSecond /\ second \in Nat
      /\ lastTurnAt \in [ChatIds -> Time] /\ acceptedTurns \in Seq(Messages)
  BY MessageFields DEF MessagesInv, MessagesAreTyped
<1>2. /\ turns \subseteq Messages /\ m \notin turns
      /\ turns' = turns \/ turns' = turns \cup {m}
      /\ turns' = turns \cup {m} => message'[m].at = "turn"
                                   /\ lastTurnAt' = [lastTurnAt EXCEPT ![chatIdOf[m]] = message'[m].accepted]
      /\ turns' = turns => UNCHANGED lastTurnAt
  <2>1. turns \subseteq Messages /\ ToSet(Append(acceptedTurns, m)) = turns \cup {m}
    BY <1>1, MembersOfMore
  <2>2. m \notin turns
    BY DEF MessagesInv, TurnsAreInOrder
  <2>3. CASE UNCHANGED <<lastTurnAt, acceptedTurns>>
    <3>1. turns' = turns
      BY <2>3
    <3>2. QED
      BY <2>1, <2>2, <2>3, <3>1
  <2>4. CASE /\ message'[m].at = "turn"
             /\ lastTurnAt' = [lastTurnAt EXCEPT ![chatIdOf[m]] = message'[m].accepted]
             /\ acceptedTurns' = Append(acceptedTurns, m)
    <3>1. turns' = turns \cup {m}
      BY <2>1, <2>4
    <3>2. QED
      BY <2>1, <2>2, <2>4, <3>1
  <2>5. QED
    BY <2>3, <2>4
<1>3. MessagesAreTyped'
  <2>1. message'[m].accepted \in Time
    BY DEF MessageRecord, Time
  <2>2. lastTurnAt' \in [ChatIds -> Time]
    BY <1>1, <2>1
  <2>3. acceptedTurns' \in Seq(Messages)
    <3>1. Append(acceptedTurns, m) \in Seq(Messages)
      BY <1>1, AppendProperties
    <3>2. QED
      BY <1>1, <3>1
  <2>4. QED
    BY <2>2, <2>3 DEF MessagesInv, MessagesAreTyped, MessageRecord, Entry, Time, Checkers
<1>4. TurnsAreInOrder'
  <2>1. \A a \in turns' : message'[a].at = "turn"
    <3>1. TAKE a \in turns'
    <3>2. a \in turns \/ (a = m /\ message'[m].at = "turn")
      BY <1>2
    <3>3. a \in turns => message'[a] = message[a] /\ message[a].at = "turn"
      <4>1. ASSUME a \in turns PROVE message[a].at = "turn"
        BY <4>1 DEF MessagesInv, TurnsAreInOrder
      <4>2. a \in turns => a \in Messages /\ a # m
        BY <1>2
      <4>3. QED
        BY <4>1, <4>2
    <3>4. QED
      BY <3>2, <3>3
  <2>2. \A j \in ChatIds : IsTimeOf(lastTurnAt[j], TurnsOfChat(turns, j))'
    <3>1. SUFFICES ASSUME NEW j \in ChatIds
                   PROVE  IsTimeOf(lastTurnAt[j], TurnsOfChat(turns, j))'
      OBVIOUS
    <3>2. IsTimeOf(lastTurnAt[j], TurnsOfChat(turns, j))
      BY DEF MessagesInv, TurnsAreInOrder
    <3> DEFINE own == TurnsOfChat(turns, j)
    <3>3. \A c \in own : message'[c].accepted = message[c].accepted
      BY <1>2 DEF TurnsOfChat
    <3>4. CASE turns' = turns
      <4>1. own' = own /\ lastTurnAt'[j] = lastTurnAt[j]
        BY <1>2, <3>4 DEF TurnsOfChat
      <4> HIDE DEF own
      <4>2. own' # {} => \E c \in own' : message'[c].accepted = lastTurnAt'[j]
        BY <3>2, <3>3, <4>1 DEF IsTimeOf, own
      <4>3. QED
        BY <4>2 DEF IsTimeOf, own
    <3>5. CASE turns' = turns \cup {m} /\ j = chatIdOf[m]
      <4>1. m \in own' /\ lastTurnAt'[j] = message'[m].accepted
        BY <1>1, <1>2, <3>5 DEF TurnsOfChat
      <4> HIDE DEF own
      <4>2. QED
        BY <4>1 DEF IsTimeOf, own
    <3>6. CASE turns' = turns \cup {m} /\ j # chatIdOf[m]
      <4>1. own' = own /\ lastTurnAt'[j] = lastTurnAt[j]
        BY <1>1, <1>2, <3>6 DEF TurnsOfChat
      <4> HIDE DEF own
      <4>2. own' # {} => \E c \in own' : message'[c].accepted = lastTurnAt'[j]
        BY <3>2, <3>3, <4>1 DEF IsTimeOf, own
      <4>3. QED
        BY <4>2 DEF IsTimeOf, own
    <3>7. QED
      BY <1>2, <3>4, <3>5, <3>6
  <2>3. ASSUME NEW n \in Messages
        PROVE  /\ message'[n].knew \subseteq turns'
               /\ IsTimeOf(message[n].last, TurnsOfChat(message[n].knew, chatIdOf[n]))'
               /\ message'[n].accepted <= second'
               /\ message'[n].at \in {"accepting", "turn"} => PassedInTime(n)'
    <3>1. /\ message[n].knew \subseteq turns
          /\ IsTimeOf(message[n].last, TurnsOfChat(message[n].knew, chatIdOf[n]))
          /\ message[n].accepted <= second
          /\ message[n].at \in {"accepting", "turn"} => PassedInTime(n)
      BY DEF MessagesInv, TurnsAreInOrder
    <3>2. message'[n].knew = message[n].knew /\ message'[n].last = message[n].last
      BY <1>1
    <3>3. \A c \in message[n].knew : message'[c].accepted = message[c].accepted
      BY <1>2, <3>1
    <3>4. IsTimeOf(message[n].last, TurnsOfChat(message[n].knew, chatIdOf[n]))'
      BY <1>1, <3>1, <3>2, <3>3 DEF IsTimeOf, TurnsOfChat
    <3>5. message'[n].at \in {"accepting", "turn"} => PassedInTime(n)'
      BY <1>1, <3>1, <3>2, <3>3 DEF PassedInTime
    <3>6. message'[n].accepted <= second'
      BY <1>1, <3>1
    <3>7. message'[n].knew \subseteq turns'
      BY <1>2, <3>1, <3>2
    <3>8. QED
      BY <3>4, <3>5, <3>6, <3>7
  <2>4. QED
    BY <2>1, <2>2, <2>3 DEF TurnsAreInOrder
<1>5. QED
  BY <1>3, <1>4 DEF MessagesInv

LEMMA AcceptTurnKeeps == ASSUME MessagesInv, NEW m \in Messages, AcceptTurn(m) PROVE MessagesInv'
<1>1. PICK at \in {"turn", "refused"} :
        /\ message' = [message EXCEPT ![m].at = at]
        /\ \/ at = "refused" /\ UNCHANGED <<lastTurnAt, acceptedTurns>>
           \/ /\ at = "turn"
              /\ lastTurnAt' = [lastTurnAt EXCEPT ![chatIdOf[m]] = message[m].accepted]
              /\ acceptedTurns' = Append(acceptedTurns, m)
  BY DEF AcceptTurn
<1>2. /\ message[m].at = "accepting"
      /\ UNCHANGED <<chatIdOf, second, currentChecker, recent, passed, lastPass>>
  BY DEF AcceptTurn, MessageAt
<1>3. message[m] \in MessageRecord /\ DOMAIN message = Messages /\ second \in 0 .. LastSecond
      /\ second \in Nat
  BY MessageFields
<1> DEFINE r == [message[m] EXCEPT !.at = at]
<1>4. /\ r \in MessageRecord /\ r.at = at /\ r.last = message[m].last /\ r.knew = message[m].knew
      /\ r.accepted = message[m].accepted
  BY <1>3 DEF MessageRecord
<1>5. message' = [message EXCEPT ![m] = r]
  BY <1>1
<1> HIDE DEF r
<1>6. /\ message' \in [Messages -> MessageRecord] /\ message'[m] = r
      /\ \A n \in Messages : n # m => message'[n] = message[n]
  BY <1>3, <1>4, <1>5 DEF MessagesInv, MessagesAreTyped
<1>7. PassedInTime(m)'
  <2>1. PassedInTime(m) /\ message[m].knew \subseteq ToSet(acceptedTurns)
        /\ \A a \in ToSet(acceptedTurns) : message[a].at = "turn"
    BY <1>2 DEF MessagesInv, TurnsAreInOrder
  <2>2. \A a \in message[m].knew : a # m /\ a \in Messages
    BY <1>2, <2>1, MessageFields
  <2>3. QED
    BY <1>4, <1>6, <2>1, <2>2 DEF PassedInTime
<1>8. message'[m].accepted <= second
  BY <1>4, <1>6 DEF MessagesInv, TurnsAreInOrder
<1>9. MemoriesAreSound'
  BY <1>2, <1>3, MemoriesKept
<1>10. /\ DOMAIN recent' = Checkers
       /\ passed' \in [Checkers -> [ChatIds -> Seq(Entry)]]
       /\ lastPass' \in [Checkers -> [ChatIds -> Time]]
  BY <1>2 DEF MessagesInv, MessagesAreTyped
<1>11. \/ UNCHANGED <<lastTurnAt, acceptedTurns>>
       \/ /\ message'[m].at = "turn"
          /\ lastTurnAt' = [lastTurnAt EXCEPT ![chatIdOf[m]] = message'[m].accepted]
          /\ acceptedTurns' = Append(acceptedTurns, m)
  BY <1>1, <1>4, <1>6
<1>12. message[m].at \in {"checking", "accepting"}
  BY <1>2
<1>13. message'[m].last = message[m].last /\ message'[m].knew = message[m].knew
  BY <1>4, <1>6
<1>14. UNCHANGED <<chatIdOf, second, currentChecker>>
  BY <1>2
<1>15. QED
  BY <1>6, <1>7, <1>8, <1>9, <1>10, <1>11, <1>12, <1>13, <1>14, MessageMoves

LEMMA CheckMessageKeeps ==
    ASSUME MessagesInv, NEW m \in Messages, CheckMessage(m) PROVE MessagesInv'
<1> DEFINE g == message[m].checker
           k == chatIdOf[m]
           left == Pruned(recent[g], k)
           e == Seen(m, second)
           with == [o \in DOMAIN left \cup {k} |->
                       IF o # k THEN left[o]
                       ELSE Append(IF k \in DOMAIN left THEN left[k] ELSE <<>>, e)]
<1>1. /\ message[m].at = "checking"
      /\ UNCHANGED <<chatIdOf, second, currentChecker, lastTurnAt, acceptedTurns>>
  BY DEF CheckMessage, MessageAt
<1>2. /\ message[m] \in MessageRecord /\ DOMAIN message = Messages
      /\ second \in 0 .. LastSecond /\ second \in Nat
      /\ g \in Checkers /\ k \in ChatIds /\ message[m].last \in Time
      /\ message[m].accepted \in 0 .. LastSecond /\ message[m].accepted <= second
  BY MessageFields DEF MessagesInv, TurnsAreInOrder
<1>3. /\ passed \in [Checkers -> [ChatIds -> Seq(Entry)]]
      /\ lastPass \in [Checkers -> [ChatIds -> Time]]
      /\ DOMAIN recent = Checkers
      /\ \A c \in Checkers : Memory(recent[c], passed[c], lastPass[c], second)
  BY DEF MessagesInv, MessagesAreTyped, MemoriesAreSound
<1>4. ASSUME NEW r, r \in MessageRecord, message' = [message EXCEPT ![m] = r],
             r.last = message[m].last, r.knew = message[m].knew,
             r.at = "refused" \/ PassedInTime(m)', r.accepted <= second,
             r.at # "turn", r.at \in {"refused", "accepting"},
             DOMAIN recent' = Checkers,
             passed' \in [Checkers -> [ChatIds -> Seq(Entry)]],
             lastPass' \in [Checkers -> [ChatIds -> Time]],
             \A c \in Checkers : Memory(recent'[c], passed'[c], lastPass'[c], second)
      PROVE  MessagesInv'
  <2>1. /\ message' \in [Messages -> MessageRecord] /\ message'[m] = r
        /\ \A n \in Messages : n # m => message'[n] = message[n]
    BY <1>2, <1>4 DEF MessagesInv, MessagesAreTyped
  <2>2. MemoriesAreSound'
    <3>1. second' = second
      BY <1>1
    <3>2. \A c \in Checkers : Memory(recent'[c], passed'[c], lastPass'[c], second')
      BY <1>4, <3>1
    <3>3. QED
      BY <3>2 DEF MemoriesAreSound, Memory, SessionMemory, Remembered, FreshIsRemembered, InWindow,
                  RepeatsAreFew, Entry, Time
  <2>3. message'[m].at \in {"accepting", "turn"} => PassedInTime(m)'
    BY <1>4, <2>1
  <2>4. message[m].at \in {"checking", "accepting"}
    BY <1>1
  <2>5. message'[m].last = message[m].last /\ message'[m].knew = message[m].knew
        /\ message'[m].accepted <= second
    BY <1>4, <2>1
  <2>6. UNCHANGED <<chatIdOf, second, currentChecker>> /\ UNCHANGED <<lastTurnAt, acceptedTurns>>
    BY <1>1
  <2>7. QED
    BY <1>4, <2>1, <2>2, <2>3, <2>4, <2>5, <2>6, MessageMoves
<1> DEFINE refused == [message[m] EXCEPT !.at = "refused"]
<1>5. /\ refused \in MessageRecord /\ refused.at = "refused"
      /\ refused.last = message[m].last /\ refused.knew = message[m].knew
      /\ refused.accepted = message[m].accepted
  BY <1>2 DEF MessageRecord
<1>6. CASE message' = [message EXCEPT ![m].at = "refused"] /\ UNCHANGED <<recent, passed, lastPass>>
  <2>1. message' = [message EXCEPT ![m] = refused]
    BY <1>6
  <2> HIDE DEF refused
  <2>2. /\ DOMAIN recent' = Checkers
        /\ passed' \in [Checkers -> [ChatIds -> Seq(Entry)]]
        /\ lastPass' \in [Checkers -> [ChatIds -> Time]]
        /\ \A c \in Checkers : Memory(recent'[c], passed'[c], lastPass'[c], second)
    BY <1>3, <1>6
  <2>3. refused.accepted <= second /\ refused.at # "turn"
    BY <1>2, <1>5
  <2>4. QED
    BY <1>4, <1>5, <2>1, <2>2, <2>3
<1>7. CASE /\ Repeats(left, k, TextOf[m]) >= MaxRepeated
           /\ recent' = [recent EXCEPT ![g] = left]
           /\ message' = [message EXCEPT ![m].at = "refused"]
           /\ UNCHANGED <<passed, lastPass>>
  <2>1. message' = [message EXCEPT ![m] = refused]
    BY <1>7
  <2> HIDE DEF refused
  <2>2. k \in DOMAIN left
    BY <1>7, CheckConstants DEF Repeats
  <2>3. Memory(left, passed[g], lastPass[g], second)
    BY <1>2, <1>3, <2>2, MemoryRefused
  <2> HIDE DEF left, g
  <2>4. /\ DOMAIN recent' = Checkers
        /\ passed' \in [Checkers -> [ChatIds -> Seq(Entry)]]
        /\ lastPass' \in [Checkers -> [ChatIds -> Time]]
    BY <1>3, <1>7
  <2>5. \A c \in Checkers : Memory(recent'[c], passed'[c], lastPass'[c], second)
    <3>1. TAKE c \in Checkers
    <3>2. passed'[c] = passed[c] /\ lastPass'[c] = lastPass[c]
          /\ recent'[c] = IF c = g THEN left ELSE recent[c]
      BY <1>2, <1>3, <1>7
    <3>3. QED
      BY <1>3, <2>3, <3>2
  <2>6. refused.accepted <= second /\ refused.at # "turn"
    BY <1>2, <1>5
  <2>7. QED
    BY <1>4, <1>5, <2>1, <2>4, <2>5, <2>6
<1>8. ASSUME ~TooSoon(m), ~ (Repeats(left, k, TextOf[m]) >= MaxRepeated),
             message' = [message EXCEPT ![m].at = "accepting", ![m].accepted = second],
             lastPass' = [lastPass EXCEPT ![g][k] = second],
             NEW gone \in Evicted(with, k),
             recent' = [recent EXCEPT ![g] = Restrict(with, DOMAIN with \ gone)],
             passed' = [passed EXCEPT ![g] = [o \in ChatIds |->
                           IF o \in gone THEN <<>>
                           ELSE IF o = k THEN Append(@[o], e) ELSE @[o]]]
      PROVE  MessagesInv'
  <2> DEFINE let2 == [o \in ChatIds |-> IF o \in gone THEN <<>>
                           ELSE IF o = k THEN Append(passed[g][o], e) ELSE passed[g][o]]
             last2 == [lastPass[g] EXCEPT ![k] = second]
             mem2 == Restrict(with, DOMAIN with \ gone)
             r1 == [message[m] EXCEPT !.at = "accepting"]
             r2 == [r1 EXCEPT !.accepted = second]
  <2>1. e \in Entry /\ e.at = second /\ e.text = TextOf[m]
    BY <1>2 DEF Seen, Entry
  <2>2. Repeats(left, k, e.text) < MaxRepeated
    <3>1. Repeats(left, k, TextOf[m]) \in Nat
      <4>1. CASE k \notin DOMAIN left
        BY <4>1 DEF Repeats
      <4>2. CASE k \in DOMAIN left
        <5>1. SessionMemory(Remembered(left, k), passed[g][k], lastPass[g][k], second)
          BY <1>2, <1>3, PrunedMemory
        <5>2. left[k] \in Seq(Entry)
          BY <4>2, <5>1 DEF SessionMemory, Remembered
        <5> DEFINE R == {i \in DOMAIN left[k] : left[k][i].text = TextOf[m]}
        <5>3. R \subseteq 1 .. Len(left[k]) /\ Len(left[k]) \in Nat
          BY <5>2, EntryTimes
        <5>4. IsFiniteSet(R)
          BY <5>3, FS_Interval, FS_Subset
        <5>5. Cardinality(R) \in Nat
          BY <5>4, FS_CardinalityType
        <5>6. QED
          BY <4>2, <5>5 DEF Repeats
      <4>3. QED
        BY <4>1, <4>2
    <3>2. QED
      BY <1>8, <2>1, <3>1, CheckConstants
  <2>3. Memory(mem2, let2, last2, second)
    <3>1. /\ passed[g] \in [ChatIds -> Seq(Entry)] /\ lastPass[g] \in [ChatIds -> Time]
          /\ Memory(recent[g], passed[g], lastPass[g], second)
      BY <1>2, <1>3
    <3>2. /\ Repeats(Pruned(recent[g], k), k, e.text) < MaxRepeated
          /\ second \in 0 .. LastSecond /\ k \in ChatIds /\ e \in Entry /\ e.at = second
      BY <1>2, <2>1, <2>2
    <3>3. with = Serving(recent[g], k, e) /\ let2 = Counted(passed[g], k, e, gone)
      BY DEF Serving, Counted
    <3>4. gone \in Evicted(Serving(recent[g], k, e), k)
      BY <3>3
    <3> HIDE DEF e, g, k, left, with, let2
    <3>5. Memory(Restrict(Serving(recent[g], k, e), DOMAIN Serving(recent[g], k, e) \ gone),
                 Counted(passed[g], k, e, gone), [lastPass[g] EXCEPT ![k] = second], second)
      BY <3>1, <3>2, <3>4, MemoryServed
    <3>6. QED
      BY <3>3, <3>5
  <2>4. /\ recent' = [recent EXCEPT ![g] = mem2]
        /\ passed' = [passed EXCEPT ![g] = let2]
        /\ lastPass' = [lastPass EXCEPT ![g] = last2]
    BY <1>2, <1>3, <1>8
  <2>5. let2 \in [ChatIds -> Seq(Entry)] /\ last2 \in [ChatIds -> Time]
    <3>1. passed[g] \in [ChatIds -> Seq(Entry)] /\ lastPass[g] \in [ChatIds -> Time]
      BY <1>2, <1>3
    <3>2. second \in Time
      BY <1>2 DEF Time
    <3>3. last2 \in [ChatIds -> Time]
      BY <3>1, <3>2
    <3> HIDE DEF e
    <3>4. \A o \in ChatIds : passed[g][o] \in Seq(Entry) /\ Append(passed[g][o], e) \in Seq(Entry)
      BY <2>1, <3>1, AppendProperties
    <3>5. <<>> \in Seq(Entry)
      OBVIOUS
    <3>6. \A o \in ChatIds : (IF o \in gone THEN <<>> ELSE IF o = k THEN Append(passed[g][o], e)
                                                        ELSE passed[g][o]) \in Seq(Entry)
      BY <3>4, <3>5
    <3>7. QED
      BY <3>3, <3>6
  <2>6. message' = [message EXCEPT ![m] = r2]
    BY <1>2, <1>8 DEF MessageRecord
  <2>7. r1 \in MessageRecord /\ r1.at = "accepting" /\ r1.last = message[m].last
        /\ r1.knew = message[m].knew
    BY <1>2 DEF MessageRecord
  <2> HIDE DEF r1
  <2>8. r2 \in MessageRecord /\ r2.at = "accepting" /\ r2.last = message[m].last
        /\ r2.knew = message[m].knew /\ r2.accepted = second
    BY <1>2, <2>7 DEF MessageRecord
  <2> HIDE DEF r2, let2, last2, mem2, left, with, e, g, k
  <2>9. /\ DOMAIN recent' = Checkers
        /\ passed' \in [Checkers -> [ChatIds -> Seq(Entry)]]
        /\ lastPass' \in [Checkers -> [ChatIds -> Time]]
    BY <1>2, <1>3, <2>4, <2>5
  <2>10. \A c \in Checkers : Memory(recent'[c], passed'[c], lastPass'[c], second)
    <3>1. TAKE c \in Checkers
    <3>2. CASE c = g
      <4>1. recent'[c] = mem2 /\ passed'[c] = let2 /\ lastPass'[c] = last2
        BY <1>2, <1>3, <2>4, <3>2
      <4>2. QED
        BY <2>3, <4>1
    <3>3. CASE c # g
      <4>1. recent'[c] = recent[c] /\ passed'[c] = passed[c] /\ lastPass'[c] = lastPass[c]
        BY <1>2, <1>3, <2>4, <3>3
      <4>2. QED
        BY <1>3, <4>1
    <3>4. QED
      BY <3>2, <3>3
  <2>11. PassedInTime(m)'
    <3>1. message'[m] = r2 /\ \A n \in Messages : n # m => message'[n] = message[n]
      BY <1>2, <2>6
    <3>2. \A a \in message[m].knew : a # m /\ a \in Messages /\ message[a].accepted <= second
      BY <1>1, MessageFields DEF MessagesInv, TurnsAreInOrder
    <3>3. message[m].last # Never => message[m].last + MinInterval <= second
      <4>1. message[m].last # Never => message[m].last \in Nat
        BY <1>2 DEF Time
      <4>2. QED
        BY <1>2, <1>8, <4>1, CheckConstants DEF TooSoon
    <3>4. QED
      BY <2>8, <3>1, <3>2, <3>3 DEF PassedInTime
  <2>12. r2.accepted <= second /\ r2.at # "turn"
    BY <1>2, <2>8
  <2>13. QED
    BY <1>4, <2>6, <2>8, <2>9, <2>10, <2>11, <2>12
<1>9. QED
  BY <1>6, <1>7, <1>8 DEF CheckMessage, CheckRepeated

LEMMA MessagesStep == ASSUME MessagesInv, [MessageChecksNext]_messageVars PROVE MessagesInv'
<1>1. CASE SecondPasses
  BY <1>1, SecondPassesKeeps
<1>2. CASE ReloadChecker
  BY <1>2, ReloadCheckerKeeps
<1>3. ASSUME NEW m \in Messages, ReadTurns(m) PROVE MessagesInv'
  BY <1>3, ReadTurnsKeeps
<1>4. ASSUME NEW m \in Messages, CheckMessage(m) PROVE MessagesInv'
  BY <1>4, CheckMessageKeeps
<1>5. ASSUME NEW m \in Messages, AcceptTurn(m) PROVE MessagesInv'
  BY <1>5, AcceptTurnKeeps
<1>6. CASE UNCHANGED messageVars
  <2>1. UNCHANGED <<chatIdOf, second, currentChecker, recent, lastTurnAt, message,
                    acceptedTurns, passed, lastPass>>
    BY <1>6 DEF messageVars
  <2>2. MessagesAreTyped'
    BY <2>1 DEF MessagesInv, MessagesAreTyped, MessageRecord, Entry, Time, Checkers
  <2>3. MemoriesAreSound'
    <3>1. second' \in 0 .. LastSecond /\ second <= second'
      BY <2>1, CheckConstants DEF MessagesInv, MessagesAreTyped
    <3>2. QED
      BY <2>1, <3>1, MemoriesKept
  <2>4. TurnsAreInOrder'
    BY <2>1 DEF MessagesInv, TurnsAreInOrder, PassedInTime, IsTimeOf, TurnsOfChat
  <2>5. QED
    BY <2>2, <2>3, <2>4 DEF MessagesInv
<1>7. QED
  BY <1>1, <1>2, <1>3, <1>4, <1>5, <1>6 DEF MessageChecksNext

LEMMA MessagesStart == ASSUME MessageChecksInit PROVE MessagesInv
<1> DEFINE fresh == [at |-> "new", checker |-> 0, last |-> Never, knew |-> {}, accepted |-> 0]
<1>1. /\ chatIdOf \in [Messages -> ChatIds] /\ second = 0 /\ currentChecker \in Checkers
      /\ recent = [g \in Checkers |-> <<>>]
      /\ lastTurnAt = [k \in ChatIds |-> Never]
      /\ message = [m \in Messages |-> fresh]
      /\ acceptedTurns = <<>>
      /\ passed = [g \in Checkers |-> [k \in ChatIds |-> <<>>]]
      /\ lastPass = [g \in Checkers |-> [k \in ChatIds |-> Never]]
  BY DEF MessageChecksInit
<1>2. /\ second \in 0 .. LastSecond /\ 0 \in 0 .. LastSecond /\ Never \in Time /\ 0 \in Checkers
      /\ 0 <= second
  BY <1>1, CheckConstants DEF Time, Checkers
<1>3. fresh \in MessageRecord
  BY <1>2 DEF MessageRecord
<1>4. MessagesAreTyped
  <2>1. <<>> \in Seq(Entry) /\ <<>> \in Seq(Messages)
    OBVIOUS
  <2>2. QED
    BY <1>1, <1>2, <1>3, <2>1 DEF MessagesAreTyped
<1>5. MemoriesAreSound
  <2>1. SUFFICES ASSUME NEW g \in Checkers
                 PROVE  Memory(<<>>, [k \in ChatIds |-> <<>>], [k \in ChatIds |-> Never], second)
    BY <1>1 DEF MemoriesAreSound
  <2>2. DOMAIN <<>> = {} /\ IsFiniteSet({}) /\ Cardinality({}) <= MaxRemembered
    BY FS_EmptySet, CheckConstants
  <2>3. SessionMemory(<<>>, <<>>, Never, second)
    BY <1>2, SessionForgotten
  <2>4. \A k \in ChatIds : Remembered(<<>>, k) = <<>>
    BY <2>2 DEF Remembered
  <2>5. QED
    BY <2>2, <2>3, <2>4 DEF Memory
<1>6. TurnsAreInOrder
  <2>1. ToSet(acceptedTurns) = {}
    BY <1>1 DEF ToSet
  <2>2. /\ \A a \in ToSet(acceptedTurns) : message[a].at = "turn"
        /\ \A k \in ChatIds : IsTimeOf(lastTurnAt[k], TurnsOfChat(ToSet(acceptedTurns), k))
    BY <2>1 DEF IsTimeOf, TurnsOfChat
  <2>3. \A m \in Messages : message[m].knew = {} /\ message[m].at = "new"
                            /\ message[m].accepted = 0
    BY <1>1
  <2>4. QED
    BY <1>2, <2>2, <2>3 DEF TurnsAreInOrder, IsTimeOf, TurnsOfChat
<1>7. QED
  BY <1>4, <1>5, <1>6 DEF MessagesInv

\* The checkers' memories hold what they should, and the turns' times are those of turns.
THEOREM MessagesAreInOrder == MessageChecksSpec => []MessagesInv
BY MessagesStart, MessagesStep, PTL DEF MessageChecksSpec

LEMMA RepeatsFollow == MessagesInv => RepeatsAreBounded
BY DEF MessagesInv, MemoriesAreSound, Memory, SessionMemory, RepeatsAreFew, RepeatsAreBounded

LEMMA IdlestFollow == MessagesInv => IdlestAreForgotten
<1> SUFFICES ASSUME MessagesInv, NEW g \in Checkers
             PROVE  /\ Cardinality(DOMAIN recent[g]) <= MaxRemembered
                    /\ \A k \in ChatIds \ DOMAIN recent[g], o \in DOMAIN recent[g] :
                          lastPass[g][k] # Never => lastPass[g][k] <= Newest(recent[g], o)
  BY DEF IdlestAreForgotten
<1>1. Memory(recent[g], passed[g], lastPass[g], second)
  BY DEF MessagesInv, MemoriesAreSound
<1>2. ASSUME NEW o \in DOMAIN recent[g] PROVE Newest(recent[g], o) = lastPass[g][o]
  <2>1. /\ o \in ChatIds /\ recent[g][o] # <<>>
        /\ SessionMemory(recent[g][o], passed[g][o], lastPass[g][o], second)
    BY <1>1 DEF Memory, Remembered
  <2>2. QED
    BY <2>1, NewestIsLast
<1>3. QED
  BY <1>1, <1>2 DEF Memory

LEMMA IntervalFollows == MessagesInv => IntervalIsKept
<1> SUFFICES ASSUME MessagesInv, NEW a \in ToSet(acceptedTurns), NEW b \in ToSet(acceptedTurns),
                    chatIdOf[a] = chatIdOf[b], a \in message[b].knew,
                    message[b].accepted < message[a].accepted + MinInterval
             PROVE  \E c \in message[b].knew \ {a} :
                      /\ chatIdOf[c] = chatIdOf[a] /\ a \notin message[c].knew
                      /\ message[c].accepted <= message[a].accepted
  BY DEF IntervalIsKept
<1> DEFINE T == TurnsOfChat(message[b].knew, chatIdOf[b])
<1>1. ToSet(acceptedTurns) \subseteq Messages
  <2>1. acceptedTurns \in Seq(Messages)
    BY DEF MessagesInv, MessagesAreTyped
  <2>2. QED
    BY <2>1, LenProperties, ElementOfSeq DEF ToSet
<1>2. /\ message[b].knew \subseteq ToSet(acceptedTurns)
      /\ IsTimeOf(message[b].last, T)
      /\ PassedInTime(b)
      /\ \A c \in ToSet(acceptedTurns) : PassedInTime(c)
  BY <1>1 DEF MessagesInv, TurnsAreInOrder
<1>3. a \in T
  BY DEF TurnsOfChat
<1>4. PICK c \in T : message[c].accepted = message[b].last
  BY <1>2, <1>3 DEF IsTimeOf
<1>5. c \in message[b].knew /\ chatIdOf[c] = chatIdOf[a] /\ c \in ToSet(acceptedTurns)
  BY <1>2, <1>4 DEF TurnsOfChat
<1>6. /\ message[a].accepted \in Nat /\ message[b].accepted \in Nat /\ message[c].accepted \in Nat
      /\ MinInterval \in Nat
  BY <1>1, <1>5, MessageFields, CheckConstants
<1>7. message[b].last # Never
  BY <1>4, <1>6, CheckConstants
<1>8. message[c].accepted + MinInterval <= message[b].accepted
  BY <1>2, <1>4, <1>7 DEF PassedInTime
<1>9. message[c].accepted < message[a].accepted
  BY <1>6, <1>8
<1>10. a \notin message[c].knew
  BY <1>2, <1>5, <1>6, <1>9 DEF PassedInTime
<1>11. QED
  BY <1>5, <1>6, <1>9, <1>10

\* What the checks keep has its type: of accepted turns, of the sessions a checker remembers
\* and of where each message is.
THEOREM MessagesStayTyped == MessageChecksSpec => []MessageChecksTypeOK
<1>1. ASSUME MessagesInv PROVE MessageChecksTypeOK
  <2>1. MessagesAreTyped
    BY <1>1 DEF MessagesInv
  <2>2. \A g \in Checkers : DOMAIN recent[g] \subseteq ChatIds
    BY <1>1 DEF MessagesInv, MemoriesAreSound, Memory
  <2>3. \A m \in Messages :
           message[m].at \in {"new", "checking", "accepting", "turn", "refused"}
    BY <2>1 DEF MessagesAreTyped, MessageRecord
  <2>4. ToSet(acceptedTurns) \subseteq Messages
    <3>1. \A i \in DOMAIN acceptedTurns : acceptedTurns[i] \in Messages
      BY <2>1 DEF MessagesAreTyped
    <3>2. QED
      BY <3>1 DEF ToSet
  <2>5. QED
    BY <2>1, <2>2, <2>3, <2>4 DEF MessagesAreTyped, MessageChecksTypeOK, Time
<1>2. QED
  BY <1>1, MessagesAreInOrder, PTL

\* However requests, reloads of the policy, evictions and the clock interleave: repeats of a
\* text are bounded, the idlest sessions are forgotten, and turns keep their distance but
\* where one was stored over a newer one.
THEOREM MessagesAreCheckedAlways == MessageChecksSpec => []MessagesAreChecked
<1>1. MessagesInv /\ MessageChecksTypeOK => MessagesAreChecked
  BY RepeatsFollow, IdlestFollow, IntervalFollows DEF MessagesAreChecked
<1>2. QED
  BY <1>1, MessagesAreInOrder, MessagesStayTyped, PTL

-----------------------------------------------------------------------------
(***************************************************************************)
(* THE EVIDENCE OF THE TURNS                                               *)
(*                                                                         *)
(* A turn makes one step and at most one record at a time, and a record    *)
(* is appended whole, in two pieces, or missed.  The invariant says for    *)
(* each turn what of it stands in its file where it is, and for each file  *)
(* what its pieces add up to and how many the tears of one writer cost.    *)
(* When as many records are read as were begun, what is read is what was   *)
(* written, in its order.                                                  *)
(***************************************************************************)
Pieces == [of : Records, part : {"whole", "head", "tail"}]

\* The last piece of a file waits for its tail, or was torn.
EndsInHead(s) == IsHead(s, Len(s))
UnreadIn(s) == Cardinality(Begun(s)) - Cardinality(RecordsIn(s))

LEMMA AppendedPiece ==
    ASSUME NEW s \in Seq(Pieces), NEW p \in Pieces
    PROVE  LET u == Append(s, p)
               n == Len(s) + 1
           IN  /\ u \in Seq(Pieces) /\ Len(s) \in Nat /\ Len(u) = n
               /\ DOMAIN s = 1 .. Len(s) /\ DOMAIN u = DOMAIN s \cup {n} /\ n \notin DOMAIN s
               /\ u[n] = p /\ \A i \in DOMAIN s : u[i] = s[i] /\ s[i] \in Pieces
BY AppendProperties, LenProperties

LEMMA PlacesAreFinite ==
    ASSUME NEW s \in Seq(Pieces), NEW T, T \subseteq DOMAIN s
    PROVE  IsFiniteSet(T) /\ Cardinality(T) \in Nat
<1>1. IsFiniteSet(DOMAIN s)
  BY LenProperties, FS_Interval
<1>2. QED
  BY <1>1, FS_Subset, FS_CardinalityType

\* What an appended piece adds to what is begun and to what is read.
LEMMA PieceIsAdded ==
    ASSUME NEW s \in Seq(Pieces), NEW p \in Pieces
    PROVE  LET u == Append(s, p)
               n == Len(s) + 1
           IN  /\ Begun(u) = IF p.part = "tail" THEN Begun(s) ELSE Begun(s) \cup {n}
               /\ RecordsIn(u) =
                      IF \/ p.part = "whole" /\ ~ EndsInHead(s)
                         \/ /\ p.part = "tail" /\ EndsInHead(s) /\ s[Len(s)].of = p.of
                            /\ ~ IsHead(s, Len(s) - 1)
                      THEN RecordsIn(s) \cup {n} ELSE RecordsIn(s)
<1> DEFINE u == Append(s, p)
           n == Len(s) + 1
<1>1. /\ u \in Seq(Pieces) /\ Len(s) \in Nat /\ Len(u) = n
      /\ DOMAIN s = 1 .. Len(s) /\ DOMAIN u = DOMAIN s \cup {n} /\ n \notin DOMAIN s
      /\ u[n] = p /\ \A i \in DOMAIN s : u[i] = s[i] /\ s[i] \in Pieces
  BY AppendedPiece
<1> HIDE DEF u
<1>2. Begun(u) = IF p.part = "tail" THEN Begun(s) ELSE Begun(s) \cup {n}
  BY <1>1 DEF Begun
<1>3. \A i \in Int : i < n => (IsHead(u, i) <=> IsHead(s, i))
  BY <1>1 DEF IsHead
<1>4. \A i \in DOMAIN s : EndsRecord(u, i) <=> EndsRecord(s, i)
  <2> SUFFICES ASSUME NEW i \in DOMAIN s PROVE EndsRecord(u, i) <=> EndsRecord(s, i)
    OBVIOUS
  <2>1. i \in Int /\ i - 1 \in Int /\ i - 2 \in Int /\ i - 1 < n /\ i - 2 < n
    BY <1>1
  <2>2. /\ u[i] = s[i] /\ (IsHead(u, i - 1) <=> IsHead(s, i - 1))
        /\ (IsHead(u, i - 2) <=> IsHead(s, i - 2))
    BY <1>1, <1>3, <2>1
  <2>3. IsHead(s, i - 1) => u[i - 1] = s[i - 1]
    BY <1>1 DEF IsHead
  <2>4. QED
    BY <2>2, <2>3 DEF EndsRecord
<1>5. EndsRecord(u, n) <=> \/ p.part = "whole" /\ ~ EndsInHead(s)
                           \/ /\ p.part = "tail" /\ EndsInHead(s) /\ s[Len(s)].of = p.of
                              /\ ~ IsHead(s, Len(s) - 1)
  <2>1. n - 1 = Len(s) /\ n - 2 = Len(s) - 1 /\ n - 1 \in Int /\ n - 2 \in Int
        /\ n - 1 < n /\ n - 2 < n
    BY <1>1
  <2>2. (IsHead(u, n - 1) <=> EndsInHead(s)) /\ (IsHead(u, n - 2) <=> IsHead(s, Len(s) - 1))
    BY <1>3, <2>1 DEF EndsInHead
  <2>3. EndsInHead(s) => u[n - 1] = s[Len(s)]
    BY <1>1, <2>1 DEF EndsInHead, IsHead
  <2>4. QED
    BY <1>1, <2>1, <2>2, <2>3 DEF EndsRecord
<1>6. QED
  BY <1>1, <1>2, <1>4, <1>5 DEF RecordsIn, u

LEMMA UnreadChanges ==
    ASSUME NEW s \in Seq(Pieces), NEW p \in Pieces
    PROVE  LET u == Append(s, p)
           IN  /\ UnreadIn(s) \in Int
               /\ p.part = "whole" =>
                      UnreadIn(u) = UnreadIn(s) + (IF EndsInHead(s) THEN 1 ELSE 0)
               /\ p.part = "head" => UnreadIn(u) = UnreadIn(s) + 1
               /\ p.part = "tail" =>
                      UnreadIn(u) = UnreadIn(s)
                          - (IF EndsInHead(s) /\ s[Len(s)].of = p.of /\ ~ IsHead(s, Len(s) - 1)
                             THEN 1 ELSE 0)
               /\ EndsInHead(u) <=> p.part = "head"
               /\ IsHead(u, Len(u) - 1) <=> EndsInHead(s)
<1> DEFINE u == Append(s, p)
           n == Len(s) + 1
<1>1. /\ u \in Seq(Pieces) /\ Len(s) \in Nat /\ Len(u) = n
      /\ DOMAIN s = 1 .. Len(s) /\ DOMAIN u = DOMAIN s \cup {n} /\ n \notin DOMAIN s
      /\ u[n] = p /\ \A i \in DOMAIN s : u[i] = s[i] /\ s[i] \in Pieces
  BY AppendedPiece
<1>2. Begun(s) \subseteq DOMAIN s /\ RecordsIn(s) \subseteq DOMAIN s
  BY DEF Begun, RecordsIn
<1>3. /\ IsFiniteSet(Begun(s)) /\ Cardinality(Begun(s)) \in Nat
      /\ IsFiniteSet(RecordsIn(s)) /\ Cardinality(RecordsIn(s)) \in Nat
      /\ Cardinality(Begun(s) \cup {n}) = Cardinality(Begun(s)) + 1
      /\ Cardinality(RecordsIn(s) \cup {n}) = Cardinality(RecordsIn(s)) + 1
  <2>1. /\ IsFiniteSet(Begun(s)) /\ Cardinality(Begun(s)) \in Nat
        /\ IsFiniteSet(RecordsIn(s)) /\ Cardinality(RecordsIn(s)) \in Nat
    BY <1>2, PlacesAreFinite
  <2>2. n \notin Begun(s) /\ n \notin RecordsIn(s)
    BY <1>1, <1>2
  <2>3. QED
    BY <2>1, <2>2, FS_AddElement
<1>4. /\ Begun(u) = IF p.part = "tail" THEN Begun(s) ELSE Begun(s) \cup {n}
      /\ RecordsIn(u) =
             IF \/ p.part = "whole" /\ ~ EndsInHead(s)
                \/ /\ p.part = "tail" /\ EndsInHead(s) /\ s[Len(s)].of = p.of
                   /\ ~ IsHead(s, Len(s) - 1)
             THEN RecordsIn(s) \cup {n} ELSE RecordsIn(s)
  BY PieceIsAdded
<1>5. (EndsInHead(u) <=> p.part = "head") /\ (IsHead(u, Len(u) - 1) <=> EndsInHead(s))
  <2> HIDE DEF u
  <2>1. Len(u) - 1 = Len(s) /\ Len(u) = n
    BY <1>1
  <2>2. EndsInHead(u) <=> p.part = "head"
    BY <1>1, <2>1 DEF EndsInHead, IsHead
  <2>0. Len(s) # n
    <3>1. Len(s) \in Nat
      BY <1>1
    <3>2. QED
      BY <3>1
  <2>3. Len(s) \in DOMAIN u <=> Len(s) \in DOMAIN s
    <3> HIDE DEF n
    <3>1. QED
      BY <1>1, <2>0
  <2>4. IsHead(u, Len(s)) <=> IsHead(s, Len(s))
    BY <1>1, <2>3 DEF IsHead
  <2>5. QED
    BY <2>1, <2>2, <2>4 DEF EndsInHead
<1> HIDE DEF u, n
<1>6. QED
  BY <1>3, <1>4, <1>5 DEF UnreadIn, u

\* Where the record is read whose first piece is at i.
EndOf(s, i) == IF s[i].part = "head" THEN i + 1 ELSE i

\* A file of which nothing is unread consists of records: what begins one is followed by
\* what ends it.
LEMMA AllAreRead ==
    ASSUME NEW s \in Seq(Pieces), UnreadIn(s) = 0
    PROVE  /\ \A i \in Begun(s) : EndOf(s, i) \in RecordsIn(s) /\ s[EndOf(s, i)].of = s[i].of
           /\ \A e \in RecordsIn(s) : \E i \in Begun(s) : EndOf(s, i) = e
           /\ \A i, j \in Begun(s) : i < j => EndOf(s, i) < EndOf(s, j)
<1> DEFINE b == [e \in RecordsIn(s) |-> IF s[e].part = "tail" THEN e - 1 ELSE e]
<1>1. DOMAIN s = 1 .. Len(s) /\ Len(s) \in Nat /\ \A i \in DOMAIN s : s[i] \in Pieces
  BY LenProperties, ElementOfSeq
<1>2. Begun(s) \subseteq DOMAIN s /\ RecordsIn(s) \subseteq DOMAIN s
  BY DEF Begun, RecordsIn
<1>3. /\ IsFiniteSet(Begun(s)) /\ Cardinality(Begun(s)) \in Nat
      /\ IsFiniteSet(RecordsIn(s)) /\ Cardinality(RecordsIn(s)) \in Nat
  BY <1>2, PlacesAreFinite
<1>4. \A e \in RecordsIn(s) :
         b[e] \in Begun(s) /\ EndOf(s, b[e]) = e /\ s[b[e]].of = s[e].of
  <2> SUFFICES ASSUME NEW e \in RecordsIn(s)
               PROVE  b[e] \in Begun(s) /\ EndOf(s, b[e]) = e /\ s[b[e]].of = s[e].of
    OBVIOUS
  <2>1. e \in DOMAIN s /\ EndsRecord(s, e) /\ e \in Int
    BY <1>1 DEF RecordsIn
  <2>2. CASE s[e].part = "whole"
    BY <2>1, <2>2 DEF Begun, EndOf
  <2>3. CASE s[e].part # "whole"
    <3>1. s[e].part = "tail" /\ IsHead(s, e - 1) /\ s[e - 1].of = s[e].of
      BY <2>1, <2>3 DEF EndsRecord
    <3>2. e - 1 \in Begun(s) /\ EndOf(s, e - 1) = e
      BY <2>1, <3>1 DEF IsHead, Begun, EndOf
    <3>3. QED
      BY <3>1, <3>2
  <2>4. QED
    BY <2>2, <2>3
<1>5. b \in Injection(RecordsIn(s), Begun(s))
  <2>1. b \in [RecordsIn(s) -> Begun(s)]
    BY <1>4
  <2>2. \A e, d \in RecordsIn(s) : b[e] = b[d] => e = d
    BY <1>4
  <2> HIDE DEF b
  <2>3. QED
    BY <2>1, <2>2 DEF Injection, IsInjective
<1>6. Cardinality(RecordsIn(s)) = Cardinality(Begun(s))
  BY <1>3 DEF UnreadIn
<1>7. b \in Surjection(RecordsIn(s), Begun(s))
  BY <1>3, <1>5, <1>6, FS_Injection
<1>8. \A i \in Begun(s) : \E e \in RecordsIn(s) : b[e] = i
  BY <1>7 DEF Surjection
<1> HIDE DEF b
<1>9. \A i \in Begun(s) : EndOf(s, i) \in RecordsIn(s) /\ s[EndOf(s, i)].of = s[i].of
  BY <1>4, <1>8
<1>10. \A i, j \in Begun(s) : i < j => EndOf(s, i) < EndOf(s, j)
  <2> SUFFICES ASSUME NEW i \in Begun(s), NEW j \in Begun(s), i < j
               PROVE  EndOf(s, i) < EndOf(s, j)
    OBVIOUS
  <2>1. i \in Int /\ j \in Int
    BY <1>1, <1>2
  <2>2. i + 1 = j => s[i].part # "head"
    <3> SUFFICES ASSUME i + 1 = j, s[i].part = "head" PROVE FALSE
      OBVIOUS
    <3>1. EndOf(s, i) = j /\ j \in RecordsIn(s)
      BY <1>9 DEF EndOf
    <3>2. j - 1 = i /\ IsHead(s, i)
      BY <1>2, <2>1 DEF IsHead
    <3>3. s[j].part = "tail"
      BY <3>1, <3>2 DEF RecordsIn, EndsRecord
    <3>4. QED
      BY <3>3 DEF Begun
  <2>3. QED
    BY <2>1, <2>2 DEF EndOf
<1>11. QED
  BY <1>4, <1>9, <1>10

-----------------------------------------------------------------------------
Places == {"new", "waiting", "loop", "tool", "result", "failed", "done", "over", "dead"}
EvTurns == [at : Places, worker : EvidenceWorkers, calls : Nat, tokens : Nat, answered : Nat]

\* The step of turn t from old to new and the record it makes, NoRec if it makes none.
Goes(t, old, new, r) ==
    \/ /\ old.at = "new" /\ new = [old EXCEPT !.at = "waiting", !.worker = new.worker]
       /\ r = Rec(t, "start", 0, 0)
    \/ /\ old.at = "waiting" /\ r = NoRec
       /\ new = [old EXCEPT !.at = "loop"] \/ new = [old EXCEPT !.at = "failed"]
    \/ /\ old.at = "loop" /\ new.at \in {"tool", "done"}
       /\ new = [old EXCEPT !.at = new.at, !.calls = @ + 1, !.answered = @ + 1,
                            !.tokens = @ + (old.calls + 1)]
       /\ r = Rec(t, "llm", 1, old.calls + 1)
    \/ /\ old.at = "loop" /\ r = NoRec
       /\ \/ new = [old EXCEPT !.at = "failed"]
          \/ new = [old EXCEPT !.at = "failed", !.calls = @ + 1]
          \/ new = [old EXCEPT !.at = "done"]
    \/ old.at = "tool" /\ new = [old EXCEPT !.at = "result"] /\ r = Rec(t, "call", 0, 0)
    \/ old.at = "tool" /\ new = [old EXCEPT !.at = "failed"] /\ r = NoRec
    \/ old.at = "result" /\ new = [old EXCEPT !.at = "loop"] /\ r = Rec(t, "result", 0, 0)
    \/ old.at = "result" /\ new = [old EXCEPT !.at = "done"] /\ r = NoRec
    \/ old.at = "failed" /\ new = [old EXCEPT !.at = "done"] /\ r = Rec(t, "error", 0, 0)
    \/ /\ old.at = "done" /\ new = [old EXCEPT !.at = "over"]
       /\ r = Rec(t, "end", old.calls, old.tokens)

\* What becomes of record r of turn t, which stands at new afterwards.
Stores(t, new, r, part) ==
    /\ r # NoRec
    /\ backlogFile' = [backlogFile EXCEPT ![FileOf(t)] = Append(@, Piece(r, part))]
    /\ halfWritten' = IF part = "head" THEN [halfWritten EXCEPT ![new.worker] = r]
                      ELSE halfWritten
    /\ part = "head" => r.kind = "result" /\ new.at = "loop"
    /\ UNCHANGED <<evFaults, unwritten>>
Misses(t, r) ==
    /\ r # NoRec /\ evFaults < MaxEvidenceFaults
    /\ evFaults' = evFaults + 1 /\ unwritten' = unwritten \cup {t}
    /\ UNCHANGED <<backlogFile, halfWritten>>
StoresNothing(r) ==
    /\ backlogMode = "full" => r = NoRec
    /\ UNCHANGED <<backlogFile, halfWritten, evFaults, unwritten>>

TurnSteps(t, new, r) ==
    /\ Goes(t, evTurn[t], new, r)
    /\ new \in EvTurns /\ r \in Records \cup {NoRec} /\ new.calls <= MaxCompletionsOf[t]
    /\ halfWritten[new.worker] = NoRec
    /\ evTurn' = [evTurn EXCEPT ![t] = new]
    /\ \/ StoresNothing(r) \/ Misses(t, r)
       \/ \E part \in {"whole", "head"} : Stores(t, new, r, part)
    /\ llmCalls' = IF r.kind = "llm" THEN [llmCalls EXCEPT ![new.worker] = @ + 1] ELSE llmCalls
    /\ UNCHANGED <<backlogMode, erased>>

LEMMA WritesAreStores ==
    ASSUME NEW t \in EvidenceTurns
    PROVE  \A r \in Records : \A new :
               \/ WriteSmall(t, r)
               \/ r.kind = "result" /\ new.at = "loop" /\ new.worker = evTurn[t].worker
                  /\ WriteLarge(t, r)
               => \/ StoresNothing(r) \/ Misses(t, r)
                  \/ \E part \in {"whole", "head"} : Stores(t, new, r, part)
<1> SUFFICES ASSUME NEW r \in Records, NEW new,
                    \/ WriteSmall(t, r)
                    \/ r.kind = "result" /\ new.at = "loop"
                       /\ new.worker = evTurn[t].worker /\ WriteLarge(t, r)
             PROVE  \/ StoresNothing(r) \/ Misses(t, r)
                    \/ \E part \in {"whole", "head"} : Stores(t, new, r, part)
  OBVIOUS
<1>0. r # NoRec
  BY TurnEvidenceAssumption DEF Records, NoRec
<1>1. CASE WriteWhole(t, r)
  <2>1. CASE Wanted(r.kind)
    <3>1. Stores(t, new, r, "whole")
      BY <1>0, <1>1, <2>1 DEF WriteWhole, Put, Stores
    <3>2. QED
      BY <3>1
  <2>2. CASE ~ Wanted(r.kind)
    BY <1>1, <2>2 DEF WriteWhole, StoresNothing, Wanted
  <2>3. QED
    BY <2>1, <2>2
<1>2. CASE WriteFails(t, r)
  BY <1>0, <1>2 DEF WriteFails, Misses
<1>3. CASE r.kind = "result" /\ new.at = "loop" /\ new.worker = evTurn[t].worker
           /\ WriteLarge(t, r)
  <2>1. Stores(t, new, r, "head")
    BY <1>0, <1>3 DEF WriteLarge, Put, Stores
  <2>2. QED
    BY <2>1
<1>4. QED
  BY <1>1, <1>2, <1>3 DEF WriteSmall

LEMMA RecordsFit ==
    ASSUME NEW t \in EvidenceTurns, NEW n \in Nat, NEW m \in Nat,
           NEW k \in {"start", "llm", "call", "result", "error", "end"}
    PROVE  Rec(t, k, n, m) \in Records /\ Rec(t, k, n, m).kind = k
BY DEF Rec, Records

LEMMA ActionsAreSteps ==
    ASSUME TurnEvidenceTypeOK, NEW t \in EvidenceTurns,
           \/ \E w \in EvidenceWorkers : TurnStart(t, w)
           \/ TakesLock(t) \/ IsAnswered(t) \/ IsNotAnswered(t)
           \/ RecordToolCall(t) \/ RecordToolResult(t) \/ RecordError(t)
           \/ CancelEvidence(t) \/ TurnEnd(t)
    PROVE  \E new, r : TurnSteps(t, new, r)
<1> DEFINE old == evTurn[t]
<1>1. old \in EvTurns /\ evTurn \in [EvidenceTurns -> EvTurns]
      /\ old.calls <= MaxCompletionsOf[t] /\ MaxCompletionsOf[t] \in Nat
  BY TurnEvidenceAssumption DEF TurnEvidenceTypeOK, EvTurns, Places
<1>2. NoRec.kind = "none" /\ NoRec \in Records \cup {NoRec}
  BY DEF NoRec
<1>3. ASSUME NEW w \in EvidenceWorkers, TurnStart(t, w) PROVE \E new, r : TurnSteps(t, new, r)
  <2> DEFINE new == [old EXCEPT !.at = "waiting", !.worker = w]
             r == Rec(t, "start", 0, 0)
  <2>1. new \in EvTurns /\ new.worker = w /\ new.calls = old.calls
    BY <1>1 DEF EvTurns, Places
  <2>2. r \in Records /\ r.kind = "start" /\ r # NoRec
    BY <1>2, RecordsFit, TurnEvidenceAssumption DEF Rec, NoRec
  <2>3. \/ StoresNothing(r) \/ Misses(t, r) \/ Stores(t, new, r, "whole")
    <3>1. CASE Wanted("start")
      <4> HIDE DEF r, new
      <4>1. CASE Put(FileOf(t), Piece(r, "whole")) /\ UNCHANGED <<evFaults, unwritten>>
        BY <1>3, <2>2, <4>1 DEF Put, Stores, TurnStart
      <4>2. CASE WriteFails(t, r)
        BY <2>2, <4>2 DEF WriteFails, Misses
      <4>3. QED
        BY <1>3, <3>1, <4>1, <4>2 DEF TurnStart, r
    <3>2. CASE ~ Wanted("start")
      BY <1>3, <3>2 DEF TurnStart, StoresNothing, Wanted
    <3>3. QED
      BY <3>1, <3>2
  <2>4. Goes(t, old, new, r)
    BY <1>1, <1>3, <2>1 DEF Goes, TurnStart, EvTurns
  <2>5. evTurn' = [evTurn EXCEPT ![t] = new]
    BY <1>1, <1>3 DEF TurnStart, EvTurns
  <2> HIDE DEF new, r
  <2>6. TurnSteps(t, new, r)
    BY <1>1, <1>3, <2>1, <2>2, <2>3, <2>4, <2>5 DEF TurnSteps, TurnStart
  <2>7. QED
    BY <2>6
<1>4. ASSUME TakesLock(t) PROVE \E new, r : TurnSteps(t, new, r)
  <2>1. PICK to \in {"loop", "failed"} : Moves(t, to)
    BY <1>4 DEF TakesLock
  <2> DEFINE new == [old EXCEPT !.at = to]
  <2>2. new \in EvTurns /\ new.worker = old.worker /\ new.calls = old.calls
    BY <1>1 DEF EvTurns, Places
  <2>3. Goes(t, old, new, NoRec)
    BY <1>4, <2>1 DEF Goes, TakesLock, StandsAt
  <2>4. TurnSteps(t, new, NoRec)
    BY <1>1, <1>2, <1>4, <2>1, <2>2, <2>3 DEF TurnSteps, TakesLock, StandsAt, Moves, StoresNothing
  <2>5. QED
    BY <2>4
<1>5. ASSUME IsAnswered(t) PROVE \E new, r : TurnSteps(t, new, r)
  <2>1. PICK to \in {"tool", "done"} :
            evTurn' = [CountsCall(t, evTurn[t].calls + 1) EXCEPT ![t].at = to]
    BY <1>5 DEF IsAnswered
  <2> DEFINE new == [old EXCEPT !.at = to, !.calls = @ + 1, !.answered = @ + 1,
                                !.tokens = @ + (old.calls + 1)]
             r == Rec(t, "llm", 1, old.calls + 1)
  <2>2. new \in EvTurns /\ new.worker = old.worker /\ new.at = to
        /\ new.calls <= MaxCompletionsOf[t]
    <3>0. old.calls + 1 \in Nat /\ old.answered + 1 \in Nat
          /\ old.tokens + (old.calls + 1) \in Nat /\ to \in Places
      BY <1>1 DEF EvTurns, Places
    <3>1. new \in EvTurns /\ new.worker = old.worker /\ new.at = to
          /\ new.calls = old.calls + 1
      BY <1>1, <3>0 DEF EvTurns
    <3>2. old.calls + 1 <= MaxCompletionsOf[t]
      BY <1>1, <1>5 DEF EvTurns, IsAnswered
    <3>3. QED
      BY <3>1, <3>2
  <2>3. r \in Records /\ r.kind = "llm"
    BY <1>1, RecordsFit DEF EvTurns
  <2>4. Goes(t, old, new, r)
    BY <1>5, <2>2 DEF Goes, IsAnswered, StandsAt
  <2>5. evTurn' = [evTurn EXCEPT ![t] = new]
    BY <1>1, <2>1 DEF CountsCall, EvTurns
  <2>6. \/ StoresNothing(r) \/ Misses(t, r)
        \/ \E part \in {"whole", "head"} : Stores(t, new, r, part)
    <3>1. WriteSmall(t, r) /\ r \in Records
      BY <1>5, <2>3 DEF IsAnswered
    <3> HIDE DEF new, r
    <3>2. QED
      BY <3>1, WritesAreStores
  <2> HIDE DEF new, r
  <2>7. TurnSteps(t, new, r)
    BY <1>5, <2>2, <2>3, <2>4, <2>5, <2>6 DEF TurnSteps, IsAnswered, StandsAt, Observes
  <2>8. QED
    BY <2>7
<1>6. ASSUME IsNotAnswered(t) PROVE \E new, r : TurnSteps(t, new, r)
  <2> DEFINE new == [old EXCEPT !.at = "failed",
                                !.calls = IF @ < MaxCompletionsOf[t] THEN @ + 1 ELSE @]
  <2>1. new \in EvTurns /\ new.worker = old.worker /\ new.calls <= MaxCompletionsOf[t]
    <3>1. CASE old.calls < MaxCompletionsOf[t]
      <4>0. old.calls + 1 \in Nat /\ "failed" \in Places
        BY <1>1 DEF EvTurns, Places
      <4>1. new \in EvTurns /\ new.worker = old.worker /\ new.calls = old.calls + 1
        BY <1>1, <3>1, <4>0 DEF EvTurns
      <4>2. old.calls + 1 <= MaxCompletionsOf[t]
        BY <1>1, <3>1 DEF EvTurns
      <4>3. QED
        BY <4>1, <4>2
    <3>2. CASE ~ (old.calls < MaxCompletionsOf[t])
      <4>1. new \in EvTurns /\ new.worker = old.worker /\ new.calls = old.calls
        BY <1>1, <3>2 DEF EvTurns, Places
      <4>2. QED
        BY <1>1, <4>1
    <3>3. QED
      BY <3>1, <3>2
  <2>2. evTurn' = [evTurn EXCEPT ![t] = new]
    BY <1>1, <1>6 DEF IsNotAnswered, EvTurns
  <2>3. Goes(t, old, new, NoRec)
    <3>1. \/ new = [old EXCEPT !.at = "failed"]
          \/ new = [old EXCEPT !.at = "failed", !.calls = @ + 1]
      BY <1>1 DEF EvTurns
    <3>2. QED
      BY <1>6, <3>1 DEF Goes, IsNotAnswered, StandsAt
  <2> HIDE DEF new
  <2>4. TurnSteps(t, new, NoRec)
    BY <1>2, <1>6, <2>1, <2>2, <2>3 DEF TurnSteps, IsNotAnswered, StandsAt, StoresNothing
  <2>5. QED
    BY <2>4
<1>7. ASSUME RecordToolCall(t) PROVE \E new, r : TurnSteps(t, new, r)
  <2>1. CASE Moves(t, "result") /\ WriteSmall(t, Rec(t, "call", 0, 0))
    <3> DEFINE new == [old EXCEPT !.at = "result"]
               r == Rec(t, "call", 0, 0)
    <3>1. new \in EvTurns /\ new.worker = old.worker /\ new.calls = old.calls
      BY <1>1 DEF EvTurns, Places
    <3>2. r \in Records /\ r.kind = "call"
      BY RecordsFit
    <3>3. Goes(t, old, new, r)
      BY <1>7 DEF Goes, RecordToolCall, StandsAt
    <3>4. \/ StoresNothing(r) \/ Misses(t, r)
          \/ \E part \in {"whole", "head"} : Stores(t, new, r, part)
      <4>1. WriteSmall(t, r) /\ r \in Records
        BY <2>1, <3>2
      <4> HIDE DEF new, r
      <4>2. QED
        BY <4>1, WritesAreStores
    <3>5. evTurn' = [evTurn EXCEPT ![t] = new]
      BY <2>1 DEF Moves
    <3> HIDE DEF new, r
    <3>6. TurnSteps(t, new, r)
      BY <1>1, <1>7, <3>1, <3>2, <3>3, <3>4, <3>5 DEF TurnSteps, RecordToolCall, StandsAt
    <3>7. QED
      BY <3>6
  <2>2. CASE Moves(t, "failed") /\ UNCHANGED <<backlogFile, halfWritten, evFaults, unwritten>>
    <3> DEFINE new == [old EXCEPT !.at = "failed"]
    <3>1. new \in EvTurns /\ new.worker = old.worker /\ new.calls = old.calls
      BY <1>1 DEF EvTurns, Places
    <3>2. Goes(t, old, new, NoRec)
      BY <1>7 DEF Goes, RecordToolCall, StandsAt
    <3>3. evTurn' = [evTurn EXCEPT ![t] = new]
      BY <2>2 DEF Moves
    <3> HIDE DEF new
    <3>4. TurnSteps(t, new, NoRec)
      BY <1>1, <1>2, <1>7, <2>2, <3>1, <3>2, <3>3
      DEF TurnSteps, RecordToolCall, StandsAt, StoresNothing
    <3>5. QED
      BY <3>4
  <2>3. QED
    BY <1>7, <2>1, <2>2 DEF RecordToolCall
<1>8. ASSUME RecordToolResult(t) PROVE \E new, r : TurnSteps(t, new, r)
  <2> DEFINE new == [old EXCEPT !.at = "loop"]
             r == Rec(t, "result", 0, 0)
  <2>1. new \in EvTurns /\ new.worker = old.worker /\ new.calls = old.calls /\ new.at = "loop"
    BY <1>1 DEF EvTurns, Places
  <2>2. r \in Records /\ r.kind = "result"
    BY RecordsFit
  <2>3. Goes(t, old, new, r)
    BY <1>8 DEF Goes, RecordToolResult, StandsAt
  <2>4. \/ StoresNothing(r) \/ Misses(t, r)
        \/ \E part \in {"whole", "head"} : Stores(t, new, r, part)
    <3>1. \/ WriteSmall(t, r)
          \/ r.kind = "result" /\ new.at = "loop" /\ new.worker = evTurn[t].worker
             /\ WriteLarge(t, r)
      BY <1>8, <2>1, <2>2 DEF RecordToolResult
    <3> HIDE DEF new, r
    <3>2. QED
      BY <2>2, <3>1, WritesAreStores
  <2>5. evTurn' = [evTurn EXCEPT ![t] = new]
    BY <1>8 DEF Moves, RecordToolResult
  <2> HIDE DEF new, r
  <2>6. TurnSteps(t, new, r)
    BY <1>1, <1>8, <2>1, <2>2, <2>3, <2>4, <2>5 DEF TurnSteps, RecordToolResult, StandsAt
  <2>7. QED
    BY <2>6
<1>9. ASSUME RecordError(t) PROVE \E new, r : TurnSteps(t, new, r)
  <2> DEFINE new == [old EXCEPT !.at = "done"]
             r == Rec(t, "error", 0, 0)
  <2>1. new \in EvTurns /\ new.worker = old.worker /\ new.calls = old.calls
    BY <1>1 DEF EvTurns, Places
  <2>2. r \in Records /\ r.kind = "error"
    BY RecordsFit
  <2>3. Goes(t, old, new, r)
    BY <1>9 DEF Goes, RecordError, StandsAt
  <2>4. \/ StoresNothing(r) \/ Misses(t, r)
        \/ \E part \in {"whole", "head"} : Stores(t, new, r, part)
    <3>1. WriteSmall(t, r) /\ r \in Records
      BY <1>9, <2>2 DEF RecordError
    <3> HIDE DEF new, r
    <3>2. QED
      BY <3>1, WritesAreStores
  <2>5. evTurn' = [evTurn EXCEPT ![t] = new]
    BY <1>9 DEF Moves, RecordError
  <2> HIDE DEF new, r
  <2>6. TurnSteps(t, new, r)
    BY <1>1, <1>9, <2>1, <2>2, <2>3, <2>4, <2>5 DEF TurnSteps, RecordError, StandsAt
  <2>7. QED
    BY <2>6
<1>10. ASSUME CancelEvidence(t) PROVE \E new, r : TurnSteps(t, new, r)
  <2> DEFINE new == [old EXCEPT !.at = "done"]
  <2>1. new \in EvTurns /\ new.worker = old.worker /\ new.calls = old.calls
    BY <1>1 DEF EvTurns, Places
  <2>2. Goes(t, old, new, NoRec)
    BY <1>10 DEF Goes, CancelEvidence
  <2>3. evTurn' = [evTurn EXCEPT ![t] = new]
    BY <1>10 DEF Moves, CancelEvidence
  <2> HIDE DEF new
  <2>4. TurnSteps(t, new, NoRec)
    BY <1>1, <1>2, <1>10, <2>1, <2>2, <2>3
    DEF TurnSteps, CancelEvidence, StandsAt, StoresNothing
  <2>5. QED
    BY <2>4
<1>11. ASSUME TurnEnd(t) PROVE \E new, r : TurnSteps(t, new, r)
  <2> DEFINE new == [old EXCEPT !.at = "over"]
             r == Rec(t, "end", old.calls, old.tokens)
  <2>1. new \in EvTurns /\ new.worker = old.worker /\ new.calls = old.calls
    BY <1>1 DEF EvTurns, Places
  <2>2. r \in Records /\ r.kind = "end"
    BY <1>1, RecordsFit DEF EvTurns
  <2>3. Goes(t, old, new, r)
    BY <1>11 DEF Goes, TurnEnd, StandsAt
  <2>4. \/ StoresNothing(r) \/ Misses(t, r)
        \/ \E part \in {"whole", "head"} : Stores(t, new, r, part)
    <3>1. WriteSmall(t, r) /\ r \in Records
      BY <1>11, <2>2 DEF TurnEnd
    <3> HIDE DEF new, r
    <3>2. QED
      BY <3>1, WritesAreStores
  <2>5. evTurn' = [evTurn EXCEPT ![t] = new]
    BY <1>11 DEF Moves, TurnEnd
  <2> HIDE DEF new, r
  <2>6. TurnSteps(t, new, r)
    BY <1>1, <1>11, <2>1, <2>2, <2>3, <2>4, <2>5 DEF TurnSteps, TurnEnd, StandsAt
  <2>7. QED
    BY <2>6
<1>12. QED
  BY <1>3, <1>4, <1>5, <1>6, <1>7, <1>8, <1>9, <1>10, <1>11

-----------------------------------------------------------------------------
\* Only a result is written in two pieces, and its turn waits for the second.
PartsFit ==
    \A f \in BacklogFiles : \A i \in DOMAIN backlogFile[f] :
        backlogFile[f][i].part # "whole" => backlogFile[f][i].of.kind = "result"

HalvesAreAwaited ==
    \A w \in EvidenceWorkers :
        halfWritten[w] # NoRec =>
            /\ halfWritten[w].kind = "result"
            /\ evTurn[halfWritten[w].turn].worker = w
            /\ evTurn[halfWritten[w].turn].at = "loop"

BeingWritten(f) ==
    \E w \in EvidenceWorkers : halfWritten[w] # NoRec /\ FileOf(halfWritten[w].turn) = f

OneWriter(f) ==
    \A t, u \in EvidenceTurns :
        /\ FileOf(t) = f /\ evTurn[t].at # "new"
        /\ FileOf(u) = f /\ evTurn[u].at # "new"
        => evTurn[t].worker = evTurn[u].worker

\* How far what is unread of a file of one writer has come: a torn head at its end will
\* cost the next record, a head that is being written will be read unless one is torn
\* before it.
TearsAreCounted(f) ==
    OneWriter(f) =>
        LET s == backlogFile[f]
        IN  IF BeingWritten(f)
            THEN /\ EndsInHead(s)
                 /\ \A w \in EvidenceWorkers :
                        halfWritten[w] # NoRec /\ FileOf(halfWritten[w].turn) = f
                        => s[Len(s)].of = halfWritten[w]
                 /\ UnreadIn(s) <= 2 * evFaults + (IF IsHead(s, Len(s) - 1) THEN 0 ELSE 1)
            ELSE UnreadIn(s) + (IF EndsInHead(s) THEN 1 ELSE 0) <= 2 * evFaults

\* What a turn has counted where it stands.
CountsFit(e) ==
    /\ e.at = "new" => e.calls = 0 /\ e.tokens = 0 /\ e.answered = 0
    /\ e.answered <= e.calls /\ e.calls <= e.answered + 1
    /\ e.at \in {"waiting", "loop", "tool", "result"} => e.calls = e.answered

TurnsFit ==
    /\ \A t \in EvidenceTurns : CountsFit(evTurn[t])
    /\ \A t \in erased : evTurn[t].at \in {"over", "dead"}

\* The places in file s where a record of turn t begins.
Own(s, t) == {i \in Begun(s) : s[i].of.turn = t}
OwnOf(s, t, kind) == {i \in Own(s, t) : s[i].of.kind = kind}

\* What stands in file s of turn t, that is at e.
TurnIsRecorded(s, t, e) ==
    /\ e.at = "new" => Own(s, t) = {}
    /\ e.at # "new" =>
           \E first \in Own(s, t) :
               OwnOf(s, t, "start") = {first} /\ \A i \in Own(s, t) : first <= i
    /\ e.at = "over" =>
           \E last \in Own(s, t) :
               /\ OwnOf(s, t, "end") = {last} /\ \A i \in Own(s, t) : i <= last
               /\ s[last].of.calls = e.calls /\ s[last].of.tokens = e.tokens
    /\ e.at # "over" => OwnOf(s, t, "end") = {}
    /\ e.at \notin {"done", "over"} => OwnOf(s, t, "error") = {}
    /\ e.at \in {"done", "over"} /\ e.calls # e.answered => OwnOf(s, t, "error") # {}
    /\ \A i, j \in OwnOf(s, t, "error") : i = j
    /\ e.at = "result" =>
           \E j \in OwnOf(s, t, "call") : \A k \in Own(s, t) : k <= j
    /\ \A i \in OwnOf(s, t, "result") :
           \E j \in OwnOf(s, t, "call") : j < i /\ \A k \in Own(s, t) : k <= j \/ i <= k

TurnsAreRecorded ==
    backlogMode = "full" =>
        \A t \in EvidenceTurns \ (unwritten \cup erased) :
            TurnIsRecorded(backlogFile[FileOf(t)], t, evTurn[t])

\* The completions in file s of the turns in T.
Answers(s, T) == {i \in DOMAIN s : s[i].of.kind = "llm" /\ s[i].of.turn \in T}

AnswersAreCounted ==
    backlogMode = "full" =>
        \A f \in BacklogFiles : \A T \in SUBSET {t \in EvidenceTurns : FileOf(t) = f} :
            T \cap (unwritten \cup erased) = {} =>
                /\ Cardinality(Answers(backlogFile[f], T)) =
                       SumOver([t \in EvidenceTurns |-> evTurn[t].answered], T)
                /\ SumOver(TokensAt(backlogFile[f]), Answers(backlogFile[f], T)) =
                       SumOver([t \in EvidenceTurns |-> evTurn[t].tokens], T)

EvidenceInv ==
    /\ TurnEvidenceTypeOK /\ PartsFit /\ HalvesAreAwaited /\ TurnsFit
    /\ \A f \in BacklogFiles : TearsAreCounted(f)
    /\ SeriesCountEveryAnswer /\ TurnsAreRecorded /\ AnswersAreCounted

-----------------------------------------------------------------------------
LEMMA FilesAreFiles == \A t \in EvidenceTurns : FileOf(t) \in BacklogFiles
BY TurnEvidenceAssumption DEF FileOf, Range

\* Where a step leaves its turn, and that it leaves the others.
LEMMA StepFacts ==
    ASSUME TurnEvidenceTypeOK, NEW t \in EvidenceTurns
    PROVE  \A new, r : TurnSteps(t, new, r) =>
               /\ evTurn[t] \in EvTurns /\ new \in EvTurns
               /\ evTurn[t].at \notin {"over", "dead"} /\ new.at \notin {"new", "dead"}
               /\ evTurn[t].at # "new" => new.worker = evTurn[t].worker
               /\ evTurn'[t] = new /\ \A u \in EvidenceTurns \ {t} : evTurn'[u] = evTurn[u]
               /\ r = NoRec \/ (r \in Records /\ r.turn = t)
               /\ r.kind = "llm" => /\ new.answered = evTurn[t].answered + 1
                                    /\ new.tokens = evTurn[t].tokens + r.tokens
                                    /\ new.worker = evTurn[t].worker
               /\ r.kind # "llm" => /\ new.answered = evTurn[t].answered
                                    /\ new.tokens = evTurn[t].tokens
<1> SUFFICES ASSUME NEW new, NEW r, TurnSteps(t, new, r)
             PROVE  /\ evTurn[t] \in EvTurns /\ new \in EvTurns
                    /\ evTurn[t].at \notin {"over", "dead"} /\ new.at \notin {"new", "dead"}
                    /\ evTurn[t].at # "new" => new.worker = evTurn[t].worker
                    /\ evTurn'[t] = new
                    /\ \A u \in EvidenceTurns \ {t} : evTurn'[u] = evTurn[u]
                    /\ r = NoRec \/ (r \in Records /\ r.turn = t)
                    /\ r.kind = "llm" => /\ new.answered = evTurn[t].answered + 1
                                         /\ new.tokens = evTurn[t].tokens + r.tokens
                                         /\ new.worker = evTurn[t].worker
                    /\ r.kind # "llm" => /\ new.answered = evTurn[t].answered
                                         /\ new.tokens = evTurn[t].tokens
  OBVIOUS
<1>1. evTurn \in [EvidenceTurns -> EvTurns]
  BY DEF TurnEvidenceTypeOK, EvTurns, Places
<1>2. evTurn[t] \in EvTurns /\ new \in EvTurns /\ evTurn'[t] = new
      /\ \A u \in EvidenceTurns \ {t} : evTurn'[u] = evTurn[u]
  BY <1>1 DEF TurnSteps
<1>3. Goes(t, evTurn[t], new, r) /\ r \in Records \cup {NoRec}
  BY DEF TurnSteps
<1> DEFINE old == evTurn[t]
<1> HIDE DEF old
<1>4. old \in EvTurns /\ Goes(t, old, new, r)
  BY <1>2, <1>3 DEF old
<1>5. old.at \notin {"over", "dead"} /\ new.at \notin {"new", "dead"}
  BY <1>4 DEF Goes, EvTurns
<1>6. old.at # "new" => new.worker = old.worker
  BY <1>4 DEF Goes, EvTurns
<1>7. r = NoRec \/ r.turn = t
  BY <1>4 DEF Goes, Rec
<1> DEFINE Answered == /\ old.at = "loop" /\ new.at \in {"tool", "done"}
                       /\ new = [old EXCEPT !.at = new.at, !.calls = @ + 1, !.answered = @ + 1,
                                            !.tokens = @ + (old.calls + 1)]
                       /\ r = Rec(t, "llm", 1, old.calls + 1)
<1>8. CASE Answered
  <2>1. r.kind = "llm" /\ r.tokens = old.calls + 1
    BY <1>8 DEF Rec
  <2>2. new.answered = old.answered + 1 /\ new.tokens = old.tokens + (old.calls + 1)
        /\ new.worker = old.worker
    BY <1>4, <1>8 DEF EvTurns
  <2>3. QED
    BY <1>2, <1>3, <1>5, <1>6, <1>7, <2>1, <2>2 DEF old
<1>9. CASE ~ Answered
  <2>1. r.kind # "llm"
    BY <1>4, <1>9 DEF Goes, Rec, NoRec
  <2>2. new.answered = old.answered /\ new.tokens = old.tokens
    BY <1>4, <1>9 DEF Goes, EvTurns
  <2>3. QED
    BY <1>2, <1>3, <1>5, <1>6, <1>7, <2>1, <2>2 DEF old
<1>10. QED
  BY <1>8, <1>9

LEMMA NextIsAStep ==
    ASSUME TurnEvidenceTypeOK, TurnEvidenceNext
    PROVE  \/ \E t \in EvidenceTurns : \E new, r : TurnSteps(t, new, r)
           \/ \E w \in EvidenceWorkers : WriteTail(w) \/ LoseTail(w) \/ WorkerDies(w)
           \/ \E f \in BacklogFiles : SweepBacklog(f)
<1>1. ASSUME NEW t \in EvidenceTurns,
             \/ \E w \in EvidenceWorkers : TurnStart(t, w)
             \/ TakesLock(t) \/ IsAnswered(t) \/ IsNotAnswered(t)
             \/ RecordToolCall(t) \/ RecordToolResult(t) \/ RecordError(t)
             \/ CancelEvidence(t) \/ TurnEnd(t)
      PROVE  \E new, r : TurnSteps(t, new, r)
  BY <1>1, ActionsAreSteps
<1>2. QED
  BY <1>1 DEF TurnEvidenceNext

-----------------------------------------------------------------------------
\* The types.
FileTyped(g) ==
    /\ g \in [BacklogFiles -> Seq(Pieces)]
    /\ \A f \in BacklogFiles : \A i \in DOMAIN g[f] : FileOf(g[f][i].of.turn) = f

LEMMA TypesAgain ==
    TurnEvidenceTypeOK <=>
        /\ backlogMode \in BacklogModes /\ FileTyped(backlogFile)
        /\ halfWritten \in [EvidenceWorkers -> Records \cup {NoRec}]
        /\ evTurn \in [EvidenceTurns -> EvTurns]
        /\ \A t \in EvidenceTurns : evTurn[t].calls <= MaxCompletionsOf[t]
        /\ llmCalls \in [EvidenceWorkers -> Nat]
        /\ evFaults \in 0..MaxEvidenceFaults
        /\ unwritten \cup erased \subseteq EvidenceTurns
BY DEF TurnEvidenceTypeOK, FileTyped, Pieces, EvTurns, Places

LEMMA TypesLater ==
    TurnEvidenceTypeOK' <=>
        /\ backlogMode' \in BacklogModes /\ FileTyped(backlogFile')
        /\ halfWritten' \in [EvidenceWorkers -> Records \cup {NoRec}]
        /\ evTurn' \in [EvidenceTurns -> EvTurns]
        /\ \A t \in EvidenceTurns : evTurn'[t].calls <= MaxCompletionsOf[t]
        /\ llmCalls' \in [EvidenceWorkers -> Nat]
        /\ evFaults' \in 0..MaxEvidenceFaults
        /\ unwritten' \cup erased' \subseteq EvidenceTurns
BY DEF TurnEvidenceTypeOK, FileTyped, Pieces, EvTurns, Places

LEMMA FileGrows ==
    ASSUME NEW g, FileTyped(g), NEW r \in Records, NEW part \in {"whole", "head", "tail"}
    PROVE  /\ FileTyped([g EXCEPT ![FileOf(r.turn)] = Append(@, Piece(r, part))])
           /\ Piece(r, part) \in Pieces /\ Piece(r, part).of = r /\ Piece(r, part).part = part
           /\ FileOf(r.turn) \in BacklogFiles /\ g[FileOf(r.turn)] \in Seq(Pieces)
           /\ r.turn \in EvidenceTurns
<1> DEFINE p == Piece(r, part)
           f == FileOf(r.turn)
           h == [g EXCEPT ![f] = Append(@, p)]
<1>1. r.turn \in EvidenceTurns /\ f \in BacklogFiles
  BY FilesAreFiles DEF Records
<1>2. p \in Pieces /\ p.of = r /\ p.part = part
  BY DEF Piece, Pieces
<1> HIDE DEF p, f
<1>3. g \in [BacklogFiles -> Seq(Pieces)] /\ g[f] \in Seq(Pieces)
  BY <1>1 DEF FileTyped
<1>4. /\ Append(g[f], p) \in Seq(Pieces)
      /\ DOMAIN Append(g[f], p) = DOMAIN g[f] \cup {Len(g[f]) + 1}
      /\ Append(g[f], p)[Len(g[f]) + 1] = p
      /\ \A i \in DOMAIN g[f] : Append(g[f], p)[i] = g[f][i]
  BY <1>2, <1>3, AppendedPiece
<1>5. h \in [BacklogFiles -> Seq(Pieces)] /\ h[f] = Append(g[f], p)
      /\ \A e \in BacklogFiles \ {f} : h[e] = g[e]
  BY <1>1, <1>3, <1>4
<1>6. ASSUME NEW e \in BacklogFiles, NEW i \in DOMAIN h[e]
      PROVE  FileOf(h[e][i].of.turn) = e
  <2>1. CASE e # f
    BY <1>5, <1>6, <2>1 DEF FileTyped
  <2>2. CASE e = f /\ i \in DOMAIN g[f]
    BY <1>1, <1>4, <1>5, <2>2 DEF FileTyped
  <2>3. CASE e = f /\ i = Len(g[f]) + 1
    BY <1>2, <1>4, <1>5, <2>3 DEF f
  <2>4. QED
    BY <1>4, <1>5, <2>1, <2>2, <2>3
<1>7. FileTyped(h)
  BY <1>5, <1>6 DEF FileTyped
<1>8. QED
  BY <1>1, <1>2, <1>3, <1>7 DEF p, f

LEMMA StepKeepsTypes ==
    ASSUME TurnEvidenceTypeOK, NEW t \in EvidenceTurns, NEW new, NEW r, TurnSteps(t, new, r)
    PROVE  TurnEvidenceTypeOK'
<1>1. /\ backlogMode \in BacklogModes /\ FileTyped(backlogFile)
      /\ halfWritten \in [EvidenceWorkers -> Records \cup {NoRec}]
      /\ evTurn \in [EvidenceTurns -> EvTurns]
      /\ \A u \in EvidenceTurns : evTurn[u].calls <= MaxCompletionsOf[u]
      /\ llmCalls \in [EvidenceWorkers -> Nat]
      /\ evFaults \in 0..MaxEvidenceFaults
      /\ unwritten \cup erased \subseteq EvidenceTurns
  BY TypesAgain
<1>2. /\ new \in EvTurns /\ new.worker \in EvidenceWorkers
      /\ new.calls <= MaxCompletionsOf[t]
      /\ evTurn' = [evTurn EXCEPT ![t] = new]
      /\ r = NoRec \/ (r \in Records /\ r.turn = t)
  <2>1. new \in EvTurns /\ (r = NoRec \/ (r \in Records /\ r.turn = t))
    BY StepFacts
  <2>2. QED
    BY <2>1 DEF TurnSteps, EvTurns
<1>3. /\ evTurn' \in [EvidenceTurns -> EvTurns]
      /\ \A u \in EvidenceTurns : evTurn'[u].calls <= MaxCompletionsOf[u]
  BY <1>1, <1>2
<1>4. llmCalls' \in [EvidenceWorkers -> Nat]
  BY <1>1, <1>2 DEF TurnSteps
<1>5. backlogMode' \in BacklogModes /\ erased' = erased
  BY <1>1 DEF TurnSteps
<1>6. /\ FileTyped(backlogFile') /\ halfWritten' \in [EvidenceWorkers -> Records \cup {NoRec}]
      /\ evFaults' \in 0..MaxEvidenceFaults /\ unwritten' \subseteq EvidenceTurns
  <2>1. CASE StoresNothing(r)
    BY <1>1, <2>1 DEF StoresNothing
  <2>2. CASE Misses(t, r)
    BY <1>1, <2>2, TurnEvidenceAssumption DEF Misses
  <2>3. ASSUME NEW part \in {"whole", "head"}, Stores(t, new, r, part)
        PROVE  /\ FileTyped(backlogFile')
               /\ halfWritten' \in [EvidenceWorkers -> Records \cup {NoRec}]
               /\ evFaults' \in 0..MaxEvidenceFaults /\ unwritten' \subseteq EvidenceTurns
    <3>1. r \in Records /\ r.turn = t
      BY <1>2, <2>3 DEF Stores
    <3>2. FileTyped(backlogFile')
      BY <1>1, <2>3, <3>1, FileGrows DEF Stores
    <3>3. QED
      BY <1>1, <1>2, <2>3, <3>1, <3>2 DEF Stores
  <2>4. QED
    BY <2>1, <2>2, <2>3 DEF TurnSteps
<1>7. QED
  BY <1>1, <1>3, <1>4, <1>5, <1>6, TypesLater

LEMMA OtherStepsKeepTypes ==
    ASSUME TurnEvidenceTypeOK,
           \/ \E w \in EvidenceWorkers : WriteTail(w) \/ LoseTail(w) \/ WorkerDies(w)
           \/ \E f \in BacklogFiles : SweepBacklog(f)
           \/ UNCHANGED evidenceVars
    PROVE  TurnEvidenceTypeOK'
<1>1. /\ backlogMode \in BacklogModes /\ FileTyped(backlogFile)
      /\ halfWritten \in [EvidenceWorkers -> Records \cup {NoRec}]
      /\ evTurn \in [EvidenceTurns -> EvTurns]
      /\ \A u \in EvidenceTurns : evTurn[u].calls <= MaxCompletionsOf[u]
      /\ llmCalls \in [EvidenceWorkers -> Nat]
      /\ evFaults \in 0..MaxEvidenceFaults
      /\ unwritten \cup erased \subseteq EvidenceTurns
  BY TypesAgain
<1>2. ASSUME NEW w \in EvidenceWorkers, WriteTail(w) PROVE TurnEvidenceTypeOK'
  <2>1. halfWritten[w] \in Records
    BY <1>1, <1>2 DEF WriteTail
  <2>2. FileTyped(backlogFile')
    BY <1>1, <1>2, <2>1, FileGrows DEF WriteTail, Put
  <2>3. halfWritten' \in [EvidenceWorkers -> Records \cup {NoRec}]
    BY <1>1, <1>2 DEF WriteTail
  <2>4. UNCHANGED <<backlogMode, evTurn, llmCalls, evFaults, unwritten, erased>>
    BY <1>2 DEF WriteTail
  <2>5. QED
    BY <1>1, <2>2, <2>3, <2>4, TypesLater
<1>3. ASSUME NEW w \in EvidenceWorkers, LoseTail(w) PROVE TurnEvidenceTypeOK'
  <2>1. halfWritten[w] \in Records /\ halfWritten[w].turn \in EvidenceTurns
    BY <1>1, <1>3 DEF LoseTail, Records
  <2>2. /\ halfWritten' \in [EvidenceWorkers -> Records \cup {NoRec}]
        /\ evFaults' \in 0..MaxEvidenceFaults /\ unwritten' \subseteq EvidenceTurns
    BY <1>1, <1>3, <2>1, TurnEvidenceAssumption DEF LoseTail
  <2>3. UNCHANGED <<backlogMode, backlogFile, evTurn, llmCalls, erased>>
    BY <1>3 DEF LoseTail
  <2>4. QED
    BY <1>1, <2>2, <2>3, TypesLater
<1>4. ASSUME NEW w \in EvidenceWorkers, WorkerDies(w) PROVE TurnEvidenceTypeOK'
  <2>1. \A u \in EvidenceTurns :
            /\ evTurn'[u] = [evTurn[u] EXCEPT !.at = "dead"] \/ evTurn'[u] = evTurn[u]
            /\ [evTurn[u] EXCEPT !.at = "dead"] \in EvTurns
            /\ [evTurn[u] EXCEPT !.at = "dead"].calls = evTurn[u].calls
    BY <1>1, <1>4 DEF WorkerDies, EvTurns, Places
  <2>3. /\ evTurn' \in [EvidenceTurns -> EvTurns]
        /\ \A u \in EvidenceTurns : evTurn'[u].calls <= MaxCompletionsOf[u]
    <3>1. \A u \in EvidenceTurns : evTurn'[u] \in EvTurns /\ evTurn'[u].calls = evTurn[u].calls
      BY <1>1, <2>1
    <3>2. QED
      BY <1>1, <1>4, <3>1 DEF WorkerDies
  <2>4. /\ halfWritten' \in [EvidenceWorkers -> Records \cup {NoRec}]
        /\ evFaults' \in 0..MaxEvidenceFaults /\ erased' \subseteq EvidenceTurns
        /\ llmCalls' \in [EvidenceWorkers -> Nat]
        /\ UNCHANGED <<backlogMode, backlogFile, unwritten>>
    BY <1>1, <1>4, TurnEvidenceAssumption DEF WorkerDies
  <2>5. QED
    BY <1>1, <2>3, <2>4, TypesLater
<1>5. ASSUME NEW f \in BacklogFiles, SweepBacklog(f) PROVE TurnEvidenceTypeOK'
  <2>1. FileTyped(backlogFile')
    <3>1. << >> \in Seq(Pieces) /\ DOMAIN << >> = {}
      BY EmptySeq, LenProperties
    <3>2. QED
      BY <1>1, <1>5, <3>1 DEF FileTyped, SweepBacklog
  <2>2. /\ llmCalls' \in [EvidenceWorkers -> Nat] /\ erased' \subseteq EvidenceTurns
        /\ UNCHANGED <<backlogMode, halfWritten, evTurn, evFaults, unwritten>>
    BY <1>1, <1>5 DEF SweepBacklog
  <2>3. QED
    BY <1>1, <2>1, <2>2, TypesLater
<1>6. ASSUME UNCHANGED evidenceVars PROVE TurnEvidenceTypeOK'
  BY <1>1, <1>6, TypesLater DEF evidenceVars
<1>7. QED
  BY <1>2, <1>3, <1>4, <1>5, <1>6

-----------------------------------------------------------------------------
\* What a file holds after a piece was put there.
Grows(g, h, r, part) ==
    LET f == FileOf(r.turn)
        p == Piece(r, part)
    IN  /\ f \in BacklogFiles /\ g[f] \in Seq(Pieces) /\ p \in Pieces
        /\ p.of = r /\ p.part = part
        /\ h[f] = Append(g[f], p) /\ \A e \in BacklogFiles \ {f} : h[e] = g[e]

LEMMA PutGrows ==
    ASSUME TurnEvidenceTypeOK, NEW r \in Records, NEW part \in {"whole", "head", "tail"},
           backlogFile' = [backlogFile EXCEPT ![FileOf(r.turn)] = Append(@, Piece(r, part))]
    PROVE  Grows(backlogFile, backlogFile', r, part)
<1>1. FileTyped(backlogFile)
  BY TypesAgain
<1>2. /\ Piece(r, part) \in Pieces /\ Piece(r, part).of = r /\ Piece(r, part).part = part
      /\ FileOf(r.turn) \in BacklogFiles /\ backlogFile[FileOf(r.turn)] \in Seq(Pieces)
  <2>1. r.turn \in EvidenceTurns
    BY DEF Records
  <2>2. QED
    BY <1>1, <2>1, FilesAreFiles DEF FileTyped, Piece, Pieces
<1>3. DOMAIN backlogFile = BacklogFiles
  BY <1>1 DEF FileTyped
<1>4. QED
  BY <1>2, <1>3 DEF Grows

LEMMA PartsStillFit ==
    ASSUME PartsFit, NEW r \in Records, NEW part \in {"whole", "head", "tail"},
           Grows(backlogFile, backlogFile', r, part), part # "whole" => r.kind = "result"
    PROVE  PartsFit'
<1> SUFFICES ASSUME NEW f \in BacklogFiles, NEW i \in DOMAIN backlogFile'[f],
                    backlogFile'[f][i].part # "whole"
             PROVE  backlogFile'[f][i].of.kind = "result"
  BY DEF PartsFit
<1> DEFINE p == Piece(r, part)
           s == backlogFile[FileOf(r.turn)]
<1>1. /\ s \in Seq(Pieces) /\ p \in Pieces /\ p.of = r /\ p.part = part
      /\ backlogFile'[FileOf(r.turn)] = Append(s, p)
      /\ \A e \in BacklogFiles \ {FileOf(r.turn)} : backlogFile'[e] = backlogFile[e]
  BY DEF Grows
<1> HIDE DEF p
<1>2. CASE f # FileOf(r.turn)
  BY <1>1, <1>2 DEF PartsFit
<1>3. CASE f = FileOf(r.turn)
  <2>1. /\ DOMAIN Append(s, p) = DOMAIN s \cup {Len(s) + 1} /\ Append(s, p)[Len(s) + 1] = p
        /\ \A j \in DOMAIN s : Append(s, p)[j] = s[j]
    BY <1>1, AppendedPiece
  <2>2. CASE i = Len(s) + 1
    BY <1>1, <1>3, <2>1, <2>2
  <2>3. CASE i \in DOMAIN s
    BY <1>1, <1>3, <2>1, <2>3 DEF PartsFit
  <2>4. QED
    BY <1>1, <1>3, <2>1, <2>2, <2>3
<1>4. QED
  BY <1>2, <1>3

LEMMA StepKeepsShape ==
    ASSUME TurnEvidenceTypeOK, PartsFit, HalvesAreAwaited, TurnsFit,
           NEW t \in EvidenceTurns, NEW new, NEW r, TurnSteps(t, new, r)
    PROVE  PartsFit' /\ HalvesAreAwaited' /\ TurnsFit'
<1>1. /\ evTurn[t] \in EvTurns /\ new \in EvTurns /\ new.worker \in EvidenceWorkers
      /\ evTurn[t].at \notin {"over", "dead"} /\ new.at \notin {"new", "dead"}
      /\ evTurn[t].at # "new" => new.worker = evTurn[t].worker
      /\ evTurn'[t] = new /\ \A u \in EvidenceTurns \ {t} : evTurn'[u] = evTurn[u]
      /\ r = NoRec \/ (r \in Records /\ r.turn = t)
  BY StepFacts DEF EvTurns
<1>2. halfWritten[new.worker] = NoRec /\ erased' = erased
  BY DEF TurnSteps
<1>3. halfWritten \in [EvidenceWorkers -> Records \cup {NoRec}]
  BY TypesAgain
<1>4. PartsFit'
  <2>1. CASE StoresNothing(r) \/ Misses(t, r)
    BY <2>1 DEF StoresNothing, Misses, PartsFit
  <2>2. ASSUME NEW part \in {"whole", "head"}, Stores(t, new, r, part) PROVE PartsFit'
    <3>1. r \in Records /\ r.turn = t
      BY <1>1, <2>2 DEF Stores
    <3>2. Grows(backlogFile, backlogFile', r, part)
      BY <2>2, <3>1, PutGrows DEF Stores
    <3>3. QED
      BY <2>2, <3>1, <3>2, PartsStillFit DEF Stores
  <2>3. QED
    BY <2>1, <2>2 DEF TurnSteps
<1>5. HalvesAreAwaited'
  <2> SUFFICES ASSUME NEW w \in EvidenceWorkers, halfWritten'[w] # NoRec
               PROVE  /\ halfWritten'[w].kind = "result"
                      /\ evTurn'[halfWritten'[w].turn].worker = w
                      /\ evTurn'[halfWritten'[w].turn].at = "loop"
    BY DEF HalvesAreAwaited
  <2>1. CASE halfWritten'[w] = halfWritten[w]
    <3>1. /\ halfWritten[w] \in Records /\ halfWritten[w].turn \in EvidenceTurns
          /\ halfWritten[w].kind = "result"
          /\ evTurn[halfWritten[w].turn].worker = w /\ evTurn[halfWritten[w].turn].at = "loop"
      BY <1>3, <2>1 DEF HalvesAreAwaited, Records
    <3>2. halfWritten[w].turn # t
      BY <1>1, <1>2, <2>1, <3>1
    <3>3. QED
      BY <1>1, <2>1, <3>1, <3>2
  <2>2. CASE halfWritten'[w] # halfWritten[w]
    <3>1. PICK part \in {"whole", "head"} : Stores(t, new, r, part)
      BY <2>2 DEF TurnSteps, StoresNothing, Misses
    <3>2. part = "head" /\ halfWritten' = [halfWritten EXCEPT ![new.worker] = r]
          /\ r.kind = "result" /\ new.at = "loop" /\ r \in Records /\ r.turn = t
      BY <1>1, <2>2, <3>1 DEF Stores
    <3>3. w = new.worker /\ halfWritten'[w] = r
      BY <1>1, <1>3, <2>2, <3>2
    <3>4. QED
      BY <1>1, <3>2, <3>3
  <2>3. QED
    BY <2>1, <2>2
<1>6. TurnsFit'
  <2>1. CountsFit(new)
    <3>1. CountsFit(evTurn[t]) /\ Goes(t, evTurn[t], new, r)
      BY DEF TurnsFit, TurnSteps
    <3> DEFINE old == evTurn[t]
    <3>2. CountsFit(old) /\ Goes(t, old, new, r) /\ old \in EvTurns
      BY <1>1, <3>1
    <3> HIDE DEF old
    <3>3. old.calls \in Nat /\ old.answered \in Nat
      BY <3>2 DEF EvTurns
    <3>4. \/ /\ new.at # "new" /\ new.calls = old.calls /\ new.answered = old.answered
             /\ \/ new.at \in {"failed", "done", "over"}
                \/ old.at \in {"new", "waiting", "loop", "tool", "result"}
          \/ /\ new.at \in {"tool", "done"} /\ old.at = "loop"
             /\ new.calls = old.calls + 1 /\ new.answered = old.answered + 1
          \/ /\ new.at = "failed" /\ old.at = "loop"
             /\ new.calls = old.calls + 1 /\ new.answered = old.answered
      BY <3>2 DEF Goes, EvTurns
    <3>5. QED
      BY <3>2, <3>3, <3>4 DEF CountsFit
  <2>2. \A u \in EvidenceTurns : CountsFit(evTurn'[u])
    BY <1>1, <2>1 DEF TurnsFit
  <2>3. \A u \in erased : evTurn'[u].at \in {"over", "dead"}
    <3>1. erased \subseteq EvidenceTurns
      BY TypesAgain
    <3>2. QED
      BY <1>1, <3>1 DEF TurnsFit
  <2>4. QED
    BY <1>2, <2>2, <2>3 DEF TurnsFit
<1>7. QED
  BY <1>4, <1>5, <1>6

-----------------------------------------------------------------------------
\* Process w has begun a record of file f.
Writes(w, f) == halfWritten[w] # NoRec /\ FileOf(halfWritten[w].turn) = f

\* Who has begun a record of a file of one writer is that writer.
LEMMA OneWrites ==
    ASSUME TurnEvidenceTypeOK, HalvesAreAwaited,
           NEW f \in BacklogFiles, OneWriter(f),
           NEW w \in EvidenceWorkers, Writes(w, f), NEW v \in EvidenceWorkers, Writes(v, f)
    PROVE  v = w
<1>1. halfWritten[w] \in Records /\ halfWritten[v] \in Records
  BY TypesAgain DEF Writes
<1>2. halfWritten[w].turn \in EvidenceTurns /\ halfWritten[v].turn \in EvidenceTurns
  BY <1>1 DEF Records
<1>3. QED
  BY <1>2 DEF OneWriter, HalvesAreAwaited, Writes

\* The count of tears with the sequences, processes and numbers it depends on.
TearsAdd(s, being, half, faults) ==
    IF being
    THEN /\ EndsInHead(s) /\ s[Len(s)].of = half
         /\ UnreadIn(s) <= 2 * faults + (IF IsHead(s, Len(s) - 1) THEN 0 ELSE 1)
    ELSE UnreadIn(s) + (IF EndsInHead(s) THEN 1 ELSE 0) <= 2 * faults

LEMMA CountedSteps ==
    ASSUME NEW s \in Seq(Pieces), NEW p \in Pieces, NEW n \in Nat, NEW h
    PROVE  /\ p.part = "whole" /\ TearsAdd(s, FALSE, h, n) =>
                  \A k : TearsAdd(Append(s, p), FALSE, k, n)
           /\ p.part = "head" /\ TearsAdd(s, FALSE, h, n) =>
                  TearsAdd(Append(s, p), TRUE, p.of, n)
           /\ p.part = "tail" /\ TearsAdd(s, TRUE, p.of, n) =>
                  \A k : TearsAdd(Append(s, p), FALSE, k, n)
<1> DEFINE u == Append(s, p)
<1>1. /\ UnreadIn(s) \in Int
      /\ p.part = "whole" =>
             UnreadIn(u) = UnreadIn(s) + (IF EndsInHead(s) THEN 1 ELSE 0)
      /\ p.part = "head" => UnreadIn(u) = UnreadIn(s) + 1
      /\ p.part = "tail" =>
             UnreadIn(u) = UnreadIn(s)
                 - (IF EndsInHead(s) /\ s[Len(s)].of = p.of /\ ~ IsHead(s, Len(s) - 1)
                    THEN 1 ELSE 0)
      /\ EndsInHead(u) <=> p.part = "head"
      /\ IsHead(u, Len(u) - 1) <=> EndsInHead(s)
  BY UnreadChanges
<1>2. Len(u) = Len(s) + 1 /\ u[Len(s) + 1] = p
  BY AppendedPiece
<1> HIDE DEF u
<1>3. u[Len(u)] = p
  BY <1>2
<1>4. p.part = "whole" /\ TearsAdd(s, FALSE, h, n) => \A k : TearsAdd(u, FALSE, k, n)
  BY <1>1 DEF TearsAdd
<1>5. p.part = "head" /\ TearsAdd(s, FALSE, h, n) => TearsAdd(u, TRUE, p.of, n)
  BY <1>1, <1>3 DEF TearsAdd
<1>6. p.part = "tail" /\ TearsAdd(s, TRUE, p.of, n) => \A k : TearsAdd(u, FALSE, k, n)
  BY <1>1 DEF TearsAdd
<1>7. QED
  BY <1>4, <1>5, <1>6 DEF u

LEMMA CountedFaults ==
    ASSUME NEW s \in Seq(Pieces), NEW n \in Nat, NEW h
    PROVE  /\ TearsAdd(s, TRUE, h, n) => \A k : TearsAdd(s, FALSE, k, n + 1)
           /\ \A b \in BOOLEAN : TearsAdd(s, b, h, n) => TearsAdd(s, b, h, n + 1)
<1>1. UnreadIn(s) \in Int
  <2>1. Begun(s) \subseteq DOMAIN s /\ RecordsIn(s) \subseteq DOMAIN s
    BY DEF Begun, RecordsIn
  <2>2. QED
    BY <2>1, PlacesAreFinite DEF UnreadIn
<1>2. QED
  BY <1>1 DEF TearsAdd

LEMMA TearsOfOne ==
    ASSUME TurnEvidenceTypeOK, HalvesAreAwaited, NEW f \in BacklogFiles, OneWriter(f)
    PROVE  /\ \A w \in EvidenceWorkers :
                  Writes(w, f) =>
                      (TearsAreCounted(f) <=>
                           TearsAdd(backlogFile[f], TRUE, halfWritten[w], evFaults))
           /\ (\A w \in EvidenceWorkers : ~ Writes(w, f)) =>
                  (TearsAreCounted(f) <=> \A k : TearsAdd(backlogFile[f], FALSE, k, evFaults))
<1>1. BeingWritten(f) <=> \E w \in EvidenceWorkers : Writes(w, f)
  BY DEF BeingWritten, Writes
<1>2. ASSUME NEW w \in EvidenceWorkers, Writes(w, f)
      PROVE  TearsAreCounted(f) <=> TearsAdd(backlogFile[f], TRUE, halfWritten[w], evFaults)
  <2>1. \A v \in EvidenceWorkers : Writes(v, f) => v = w
    BY <1>2, OneWrites
  <2>2. (\A v \in EvidenceWorkers :
            Writes(v, f) => backlogFile[f][Len(backlogFile[f])].of = halfWritten[v])
        <=> backlogFile[f][Len(backlogFile[f])].of = halfWritten[w]
    BY <1>2, <2>1
  <2>3. BeingWritten(f)
    BY <1>1, <1>2
  <2>4. QED
    BY <2>2, <2>3 DEF TearsAreCounted, TearsAdd, Writes
<1>3. ASSUME \A w \in EvidenceWorkers : ~ Writes(w, f)
      PROVE  TearsAreCounted(f) <=> \A k : TearsAdd(backlogFile[f], FALSE, k, evFaults)
  BY <1>1, <1>3 DEF TearsAreCounted, TearsAdd
<1>4. QED
  BY <1>1, <1>2, <1>3

TearsMean ==
    \A f \in BacklogFiles : OneWriter(f) =>
        /\ \A w \in EvidenceWorkers :
               Writes(w, f) =>
                   (TearsAreCounted(f) <=>
                        TearsAdd(backlogFile[f], TRUE, halfWritten[w], evFaults))
        /\ (\A w \in EvidenceWorkers : ~ Writes(w, f)) =>
               (TearsAreCounted(f) <=> \A k : TearsAdd(backlogFile[f], FALSE, k, evFaults))

LEMMA TearsAgain == TurnEvidenceTypeOK /\ HalvesAreAwaited => TearsMean
BY TearsOfOne DEF TearsMean

LEMMA StepKeepsTears ==
    ASSUME TurnEvidenceTypeOK, HalvesAreAwaited, \A f \in BacklogFiles : TearsAreCounted(f),
           TurnEvidenceTypeOK', HalvesAreAwaited',
           NEW t \in EvidenceTurns, NEW new, NEW r, TurnSteps(t, new, r),
           NEW f \in BacklogFiles
    PROVE  TearsAreCounted(f)'
<1>1. /\ evTurn[t] \in EvTurns /\ new \in EvTurns /\ new.worker \in EvidenceWorkers
      /\ evTurn[t].at \notin {"over", "dead"} /\ new.at \notin {"new", "dead"}
      /\ evTurn[t].at # "new" => new.worker = evTurn[t].worker
      /\ evTurn'[t] = new /\ \A u \in EvidenceTurns \ {t} : evTurn'[u] = evTurn[u]
      /\ r = NoRec \/ (r \in Records /\ r.turn = t)
  BY StepFacts DEF EvTurns
<1>2. halfWritten[new.worker] = NoRec
  BY DEF TurnSteps
<1>3. /\ halfWritten \in [EvidenceWorkers -> Records \cup {NoRec}] /\ evFaults \in Nat
      /\ FileTyped(backlogFile)
  BY TypesAgain
<1>4. TearsMean
  BY TearsAgain
<1>5. TearsMean'
  <2>1. (TurnEvidenceTypeOK /\ HalvesAreAwaited => TearsMean)'
    BY TearsAgain, PTL
  <2>2. QED
    BY <2>1
<1> SUFFICES ASSUME OneWriter(f)' PROVE TearsAreCounted(f)'
  BY DEF TearsAreCounted
<1>6. \A u, v \in EvidenceTurns :
          /\ FileOf(u) = f /\ evTurn'[u].at # "new"
          /\ FileOf(v) = f /\ evTurn'[v].at # "new"
          => evTurn'[u].worker = evTurn'[v].worker
  BY DEF OneWriter, FileOf
<1>7. OneWriter(f)
  BY <1>1, <1>6 DEF OneWriter
<1>8. TearsAreCounted(f) /\ backlogFile[f] \in Seq(Pieces)
  BY <1>3 DEF FileTyped
<1>9. CASE \E part \in {"whole", "head"} : Stores(t, new, r, part) /\ FileOf(t) = f
  <2>1. PICK part \in {"whole", "head"} : Stores(t, new, r, part) /\ FileOf(t) = f
    BY <1>9
  <2>2. r \in Records /\ r.turn = t /\ r # NoRec
    BY <1>1, <2>1 DEF Stores
  <2> DEFINE s == backlogFile[f]
             p == Piece(r, part)
  <2>3. /\ s \in Seq(Pieces) /\ p \in Pieces /\ p.of = r /\ p.part = part
        /\ backlogFile'[f] = Append(s, p)
    <3>1. Grows(backlogFile, backlogFile', r, part)
      BY <2>1, <2>2, PutGrows DEF Stores
    <3>2. QED
      BY <2>1, <2>2, <3>1 DEF Grows
  <2>4. \A w \in EvidenceWorkers : ~ Writes(w, f)
    <3> SUFFICES ASSUME NEW w \in EvidenceWorkers, Writes(w, f) PROVE FALSE
      OBVIOUS
    <3> DEFINE u == halfWritten[w].turn
    <3>1. u \in EvidenceTurns /\ FileOf(u) = f /\ evTurn[u].worker = w /\ evTurn[u].at = "loop"
      BY <1>3 DEF Writes, HalvesAreAwaited, Records
    <3>2. w # new.worker
      BY <1>2 DEF Writes
    <3> HIDE DEF u
    <3>3. u # t
      BY <1>1, <3>1, <3>2
    <3>4. QED
      BY <1>1, <1>6, <2>1, <3>1, <3>2, <3>3
  <2>5. \A k : TearsAdd(s, FALSE, k, evFaults)
    BY <1>4, <1>7, <1>8, <2>4 DEF TearsMean
  <2> HIDE DEF s, p
  <2>6. CASE part = "whole"
    <3>1. halfWritten' = halfWritten /\ evFaults' = evFaults
      BY <2>1, <2>6 DEF Stores
    <3>2. \A w \in EvidenceWorkers : ~ Writes(w, f)'
      BY <2>4, <3>1 DEF Writes, FileOf
    <3>3. \A k : TearsAdd(Append(s, p), FALSE, k, evFaults)
      BY <1>3, <2>3, <2>5, <2>6, CountedSteps
    <3>4. \A k : TearsAdd(backlogFile'[f], FALSE, k, evFaults')
      BY <2>3, <3>1, <3>3
    <3>5. QED
      BY <1>5, <3>2, <3>4 DEF TearsMean
  <2>7. CASE part = "head"
    <3>1. halfWritten' = [halfWritten EXCEPT ![new.worker] = r] /\ evFaults' = evFaults
      BY <2>1, <2>7 DEF Stores
    <3>2. halfWritten'[new.worker] = r
      BY <1>1, <1>3, <3>1
    <3>3. Writes(new.worker, f)'
      BY <2>1, <2>2, <3>2 DEF Writes, FileOf
    <3>4. TearsAdd(Append(s, p), TRUE, r, evFaults)
      BY <1>3, <2>3, <2>5, <2>7, CountedSteps
    <3>5. TearsAdd(backlogFile'[f], TRUE, halfWritten'[new.worker], evFaults')
      BY <2>3, <3>1, <3>2, <3>4
    <3>6. QED
      BY <1>1, <1>5, <3>3, <3>5 DEF TearsMean
  <2>8. QED
    BY <2>6, <2>7
<1>10. CASE ~ \E part \in {"whole", "head"} : Stores(t, new, r, part) /\ FileOf(t) = f
  <2>1. /\ backlogFile'[f] = backlogFile[f] /\ evFaults' \in {evFaults, evFaults + 1}
        /\ \A w \in EvidenceWorkers :
               /\ Writes(w, f)' <=> Writes(w, f)
               /\ Writes(w, f) => halfWritten'[w] = halfWritten[w]
    <3>1. CASE StoresNothing(r) \/ Misses(t, r)
      BY <3>1 DEF StoresNothing, Misses, Writes, FileOf
    <3>2. ASSUME NEW part \in {"whole", "head"}, Stores(t, new, r, part) 
          PROVE  /\ backlogFile'[f] = backlogFile[f] /\ evFaults' \in {evFaults, evFaults + 1}
                 /\ \A w \in EvidenceWorkers :
                        /\ Writes(w, f)' <=> Writes(w, f)
                        /\ Writes(w, f) => halfWritten'[w] = halfWritten[w]
      <4>1. FileOf(t) # f /\ r \in Records /\ r.turn = t
        BY <1>1, <1>10, <3>2 DEF Stores
      <4>2. backlogFile'[f] = backlogFile[f]
        BY <3>2, <4>1, PutGrows DEF Stores, Grows
      <4>3. \A w \in EvidenceWorkers :
                halfWritten'[w] # halfWritten[w] => w = new.worker /\ halfWritten'[w] = r
        BY <1>1, <1>3, <3>2 DEF Stores
      <4>4. QED
        BY <1>2, <3>2, <4>1, <4>2, <4>3 DEF Stores, Writes, FileOf
    <3>3. QED
      BY <3>1, <3>2 DEF TurnSteps
  <2>2. CASE \E w \in EvidenceWorkers : Writes(w, f)
    <3>1. PICK w \in EvidenceWorkers : Writes(w, f)
      BY <2>2
    <3>2. TearsAdd(backlogFile[f], TRUE, halfWritten[w], evFaults)
      BY <1>4, <1>7, <1>8, <3>1 DEF TearsMean
    <3>3. TearsAdd(backlogFile[f], TRUE, halfWritten[w], evFaults + 1)
      BY <1>3, <1>8, <3>2, CountedFaults
    <3>4. TearsAdd(backlogFile'[f], TRUE, halfWritten'[w], evFaults') /\ Writes(w, f)'
      BY <2>1, <3>1, <3>2, <3>3
    <3>5. QED
      BY <1>5, <3>4 DEF TearsMean
  <2>3. CASE \A w \in EvidenceWorkers : ~ Writes(w, f)
    <3>1. \A k : TearsAdd(backlogFile[f], FALSE, k, evFaults)
      BY <1>4, <1>7, <1>8, <2>3 DEF TearsMean
    <3>2. \A k : TearsAdd(backlogFile[f], FALSE, k, evFaults + 1)
      BY <1>3, <1>8, <3>1, CountedFaults
    <3>3. \A k : TearsAdd(backlogFile'[f], FALSE, k, evFaults')
      BY <2>1, <3>1, <3>2
    <3>4. \A w \in EvidenceWorkers : ~ Writes(w, f)'
      BY <2>1, <2>3
    <3>5. QED
      BY <1>5, <3>3, <3>4 DEF TearsMean
  <2>4. QED
    BY <2>2, <2>3
<1>11. QED
  BY <1>9, <1>10

-----------------------------------------------------------------------------
\* What a process that dies leaves of the turns.
LEMMA DeathFacts ==
    ASSUME TurnEvidenceTypeOK, NEW w \in EvidenceWorkers, WorkerDies(w)
    PROVE  /\ \A u \in EvidenceTurns :
                  \/ /\ OnTurn(u) /\ evTurn[u].worker = w
                     /\ evTurn'[u] = [evTurn[u] EXCEPT !.at = "dead"]
                  \/ ~ (OnTurn(u) /\ evTurn[u].worker = w) /\ evTurn'[u] = evTurn[u]
           /\ \A u \in EvidenceTurns :
                  /\ evTurn'[u].worker = evTurn[u].worker
                  /\ evTurn'[u].calls = evTurn[u].calls /\ evTurn'[u].tokens = evTurn[u].tokens
                  /\ evTurn'[u].answered = evTurn[u].answered
                  /\ evTurn'[u].at = "new" <=> evTurn[u].at = "new"
           /\ halfWritten'[w] = NoRec
           /\ \A v \in EvidenceWorkers \ {w} : halfWritten'[v] = halfWritten[v]
           /\ evFaults' = evFaults + 1 /\ UNCHANGED <<backlogMode, backlogFile, unwritten>>
<1>1. evTurn \in [EvidenceTurns -> EvTurns]
      /\ halfWritten \in [EvidenceWorkers -> Records \cup {NoRec}]
  BY TypesAgain
<1>2. \A u \in EvidenceTurns :
          \/ /\ OnTurn(u) /\ evTurn[u].worker = w
             /\ evTurn'[u] = [evTurn[u] EXCEPT !.at = "dead"]
          \/ ~ (OnTurn(u) /\ evTurn[u].worker = w) /\ evTurn'[u] = evTurn[u]
  BY DEF WorkerDies
<1>3. \A u \in EvidenceTurns :
          /\ evTurn'[u].worker = evTurn[u].worker
          /\ evTurn'[u].calls = evTurn[u].calls /\ evTurn'[u].tokens = evTurn[u].tokens
          /\ evTurn'[u].answered = evTurn[u].answered
          /\ evTurn'[u].at = "new" <=> evTurn[u].at = "new"
  BY <1>1, <1>2 DEF EvTurns, OnTurn
<1>4. QED
  BY <1>1, <1>2, <1>3 DEF WorkerDies

LEMMA OtherStepsKeepShape ==
    ASSUME TurnEvidenceTypeOK, PartsFit, HalvesAreAwaited, TurnsFit,
           \/ \E w \in EvidenceWorkers : WriteTail(w) \/ LoseTail(w) \/ WorkerDies(w)
           \/ \E f \in BacklogFiles : SweepBacklog(f)
           \/ UNCHANGED evidenceVars
    PROVE  PartsFit' /\ HalvesAreAwaited' /\ TurnsFit'
<1>1. /\ evTurn \in [EvidenceTurns -> EvTurns] /\ erased \subseteq EvidenceTurns
      /\ halfWritten \in [EvidenceWorkers -> Records \cup {NoRec}]
  BY TypesAgain
<1>2. ASSUME NEW w \in EvidenceWorkers, WriteTail(w)
      PROVE  PartsFit' /\ HalvesAreAwaited' /\ TurnsFit'
  <2>1. halfWritten[w] \in Records /\ halfWritten[w].kind = "result"
    BY <1>1, <1>2 DEF WriteTail, HalvesAreAwaited
  <2>2. Grows(backlogFile, backlogFile', halfWritten[w], "tail")
    BY <1>2, <2>1, PutGrows DEF WriteTail, Put
  <2>3. PartsFit'
    BY <2>1, <2>2, PartsStillFit
  <2>4. HalvesAreAwaited'
    BY <1>1, <1>2 DEF WriteTail, HalvesAreAwaited
  <2>5. TurnsFit'
    BY <1>2 DEF WriteTail, TurnsFit
  <2>6. QED
    BY <2>3, <2>4, <2>5
<1>3. ASSUME NEW w \in EvidenceWorkers, LoseTail(w)
      PROVE  PartsFit' /\ HalvesAreAwaited' /\ TurnsFit'
  <2>1. PartsFit' /\ TurnsFit'
    BY <1>3 DEF LoseTail, PartsFit, TurnsFit
  <2>2. HalvesAreAwaited'
    BY <1>1, <1>3 DEF LoseTail, HalvesAreAwaited
  <2>3. QED
    BY <2>1, <2>2
<1>4. ASSUME NEW w \in EvidenceWorkers, WorkerDies(w)
      PROVE  PartsFit' /\ HalvesAreAwaited' /\ TurnsFit'
  <2>1. /\ \A u \in EvidenceTurns :
               \/ /\ OnTurn(u) /\ evTurn[u].worker = w
                  /\ evTurn'[u] = [evTurn[u] EXCEPT !.at = "dead"]
               \/ ~ (OnTurn(u) /\ evTurn[u].worker = w) /\ evTurn'[u] = evTurn[u]
        /\ \A u \in EvidenceTurns :
               /\ evTurn'[u].worker = evTurn[u].worker
               /\ evTurn'[u].calls = evTurn[u].calls
               /\ evTurn'[u].answered = evTurn[u].answered
        /\ halfWritten'[w] = NoRec
        /\ \A v \in EvidenceWorkers \ {w} : halfWritten'[v] = halfWritten[v]
        /\ UNCHANGED <<backlogMode, backlogFile, unwritten>>
    BY <1>4, DeathFacts
  <2>2. PartsFit'
    BY <2>1 DEF PartsFit
  <2>3. HalvesAreAwaited'
    <3> SUFFICES ASSUME NEW v \in EvidenceWorkers, halfWritten'[v] # NoRec
                 PROVE  /\ halfWritten'[v].kind = "result"
                        /\ evTurn'[halfWritten'[v].turn].worker = v
                        /\ evTurn'[halfWritten'[v].turn].at = "loop"
      BY DEF HalvesAreAwaited
    <3>1. v # w /\ halfWritten'[v] = halfWritten[v]
      BY <2>1
    <3>2. /\ halfWritten[v] \in Records /\ halfWritten[v].turn \in EvidenceTurns
          /\ halfWritten[v].kind = "result"
          /\ evTurn[halfWritten[v].turn].worker = v /\ evTurn[halfWritten[v].turn].at = "loop"
      BY <1>1, <3>1 DEF HalvesAreAwaited, Records
    <3>3. QED
      BY <2>1, <3>1, <3>2
  <2>4. \A u \in EvidenceTurns : CountsFit(evTurn'[u])
    <3> SUFFICES ASSUME NEW u \in EvidenceTurns PROVE CountsFit(evTurn'[u])
      OBVIOUS
    <3>1. CountsFit(evTurn[u]) /\ evTurn[u] \in EvTurns
      BY <1>1 DEF TurnsFit
    <3>2. evTurn'[u] = evTurn[u]
          \/ /\ evTurn'[u].at = "dead" /\ evTurn'[u].calls = evTurn[u].calls
             /\ evTurn'[u].answered = evTurn[u].answered
      BY <2>1, <3>1 DEF EvTurns
    <3>3. QED
      BY <3>1, <3>2 DEF CountsFit
  <2>5. \A u \in erased' : evTurn'[u].at \in {"over", "dead"}
    <3> SUFFICES ASSUME NEW u \in erased' PROVE evTurn'[u].at \in {"over", "dead"}
      OBVIOUS
    <3>1. u \in EvidenceTurns
          /\ (u \in erased \/ (evTurn[u].worker = w /\ evTurn[u].at # "new"))
      BY <1>1, <1>4 DEF WorkerDies
    <3>2. evTurn[u].at \in {"over", "dead"} \/ (OnTurn(u) /\ evTurn[u].worker = w)
      BY <3>1 DEF TurnsFit, OnTurn
    <3>3. evTurn[u].at \in {"over", "dead"} => ~ OnTurn(u)
      BY DEF OnTurn
    <3>4. QED
      BY <1>1, <2>1, <3>1, <3>2, <3>3 DEF EvTurns
  <2>6. QED
    BY <2>2, <2>3, <2>4, <2>5 DEF TurnsFit
<1>5. ASSUME NEW f \in BacklogFiles, SweepBacklog(f)
      PROVE  PartsFit' /\ HalvesAreAwaited' /\ TurnsFit'
  <2>1. HalvesAreAwaited'
    BY <1>5 DEF SweepBacklog, HalvesAreAwaited
  <2>2. PartsFit'
    <3>1. backlogFile \in [BacklogFiles -> Seq(Pieces)] /\ DOMAIN << >> = {}
      BY TypesAgain DEF FileTyped
    <3>2. QED
      BY <1>5, <3>1 DEF SweepBacklog, PartsFit
  <2>3. TurnsFit'
    <3>1. \A u \in EvidenceTurns : evTurn[u].at \in {"new", "over", "dead"}
      BY <1>1, <1>5 DEF SweepBacklog, OnTurn
    <3>2. QED
      BY <1>1, <1>5, <3>1 DEF SweepBacklog, TurnsFit
  <2>4. QED
    BY <2>1, <2>2, <2>3
<1>6. ASSUME UNCHANGED evidenceVars PROVE PartsFit' /\ HalvesAreAwaited' /\ TurnsFit'
  BY <1>6 DEF evidenceVars, PartsFit, HalvesAreAwaited, TurnsFit
<1>7. QED
  BY <1>2, <1>3, <1>4, <1>5, <1>6

\* A step that takes its half record from process w, and a fault for it.
Forgets(w) ==
    /\ halfWritten'[w] = NoRec
    /\ \A v \in EvidenceWorkers \ {w} : halfWritten'[v] = halfWritten[v]
    /\ backlogFile' = backlogFile /\ evFaults' = evFaults + 1
    /\ \A u \in EvidenceTurns : /\ evTurn'[u].worker = evTurn[u].worker
                                /\ evTurn'[u].at = "new" <=> evTurn[u].at = "new"

LEMMA HalfIsLost ==
    ASSUME TurnEvidenceTypeOK, HalvesAreAwaited, \A f \in BacklogFiles : TearsAreCounted(f),
           TurnEvidenceTypeOK', HalvesAreAwaited',
           NEW w \in EvidenceWorkers, Forgets(w), NEW f \in BacklogFiles
    PROVE  TearsAreCounted(f)'
<1>0. /\ halfWritten'[w] = NoRec
      /\ \A v \in EvidenceWorkers \ {w} : halfWritten'[v] = halfWritten[v]
      /\ backlogFile' = backlogFile /\ evFaults' = evFaults + 1
      /\ \A u \in EvidenceTurns : /\ evTurn'[u].worker = evTurn[u].worker
                                  /\ evTurn'[u].at = "new" <=> evTurn[u].at = "new"
  BY DEF Forgets
<1>1. /\ evFaults \in Nat /\ FileTyped(backlogFile)
  BY TypesAgain
<1>2. TearsMean
  BY TearsAgain
<1>3. TearsMean'
  <2>1. (TurnEvidenceTypeOK /\ HalvesAreAwaited => TearsMean)'
    BY TearsAgain, PTL
  <2>2. QED
    BY <2>1
<1> SUFFICES ASSUME OneWriter(f)' PROVE TearsAreCounted(f)'
  BY DEF TearsAreCounted
<1>4. OneWriter(f)
  <2>1. \A u, v \in EvidenceTurns :
            /\ FileOf(u) = f /\ evTurn'[u].at # "new"
            /\ FileOf(v) = f /\ evTurn'[v].at # "new"
            => evTurn'[u].worker = evTurn'[v].worker
    BY DEF OneWriter, FileOf
  <2> SUFFICES ASSUME NEW u \in EvidenceTurns, NEW v \in EvidenceTurns,
                      FileOf(u) = f, evTurn[u].at # "new", FileOf(v) = f, evTurn[v].at # "new"
               PROVE  evTurn[u].worker = evTurn[v].worker
    BY DEF OneWriter
  <2>2. /\ evTurn'[u].at # "new" /\ evTurn'[u].worker = evTurn[u].worker
        /\ evTurn'[v].at # "new" /\ evTurn'[v].worker = evTurn[v].worker
    BY <1>0
  <2>3. QED
    BY <2>1, <2>2
<1>5. TearsAreCounted(f) /\ backlogFile[f] \in Seq(Pieces)
  BY <1>1 DEF FileTyped
<1>6. ~ Writes(w, f)' /\ \A v \in EvidenceWorkers \ {w} : Writes(v, f)' <=> Writes(v, f)
  BY <1>0 DEF Writes, FileOf
<1>7. CASE Writes(w, f)
  <2>1. \A v \in EvidenceWorkers : ~ Writes(v, f)'
    BY <1>4, <1>6, <1>7, OneWrites
  <2>2. TearsAdd(backlogFile[f], TRUE, halfWritten[w], evFaults)
    BY <1>2, <1>4, <1>5, <1>7 DEF TearsMean
  <2>3. \A k : TearsAdd(backlogFile[f], FALSE, k, evFaults + 1)
    BY <1>1, <1>5, <2>2, CountedFaults
  <2>4. \A k : TearsAdd(backlogFile'[f], FALSE, k, evFaults')
    BY <1>0, <2>3
  <2>5. QED
    BY <1>3, <2>1, <2>4 DEF TearsMean
<1>8. CASE \E v \in EvidenceWorkers \ {w} : Writes(v, f)
  <2>1. PICK v \in EvidenceWorkers \ {w} : Writes(v, f)
    BY <1>8
  <2>2. TearsAdd(backlogFile[f], TRUE, halfWritten[v], evFaults)
    BY <1>2, <1>4, <1>5, <2>1 DEF TearsMean
  <2>3. TearsAdd(backlogFile[f], TRUE, halfWritten[v], evFaults + 1)
    BY <1>1, <1>5, <2>2, CountedFaults
  <2>4. TearsAdd(backlogFile'[f], TRUE, halfWritten'[v], evFaults') /\ Writes(v, f)'
    BY <1>0, <1>6, <2>1, <2>3
  <2>5. QED
    BY <1>3, <2>4 DEF TearsMean
<1>9. CASE \A v \in EvidenceWorkers : ~ Writes(v, f)
  <2>1. \A k : TearsAdd(backlogFile[f], FALSE, k, evFaults)
    BY <1>2, <1>4, <1>5, <1>9 DEF TearsMean
  <2>2. \A k : TearsAdd(backlogFile[f], FALSE, k, evFaults + 1)
    BY <1>1, <1>5, <2>1, CountedFaults
  <2>3. \A k : TearsAdd(backlogFile'[f], FALSE, k, evFaults')
    BY <1>0, <2>2
  <2>4. \A v \in EvidenceWorkers : ~ Writes(v, f)'
    BY <1>6, <1>9
  <2>5. QED
    BY <1>3, <2>3, <2>4 DEF TearsMean
<1>10. QED
  BY <1>7, <1>8, <1>9

LEMMA TailKeepsTears ==
    ASSUME TurnEvidenceTypeOK, HalvesAreAwaited, \A f \in BacklogFiles : TearsAreCounted(f),
           TurnEvidenceTypeOK', HalvesAreAwaited',
           NEW w \in EvidenceWorkers, WriteTail(w), NEW f \in BacklogFiles
    PROVE  TearsAreCounted(f)'
<1> DEFINE r == halfWritten[w]
<1>1. /\ halfWritten \in [EvidenceWorkers -> Records \cup {NoRec}] /\ evFaults \in Nat
      /\ FileTyped(backlogFile)
  BY TypesAgain
<1>2. TearsMean
  BY TearsAgain
<1>3. TearsMean'
  <2>1. (TurnEvidenceTypeOK /\ HalvesAreAwaited => TearsMean)'
    BY TearsAgain, PTL
  <2>2. QED
    BY <2>1
<1>4. /\ r \in Records /\ r # NoRec /\ evTurn' = evTurn /\ evFaults' = evFaults
      /\ halfWritten' = [halfWritten EXCEPT ![w] = NoRec]
      /\ backlogFile' = [backlogFile EXCEPT ![FileOf(r.turn)] = Append(@, Piece(r, "tail"))]
  BY <1>1 DEF WriteTail, Put
<1>5. /\ halfWritten'[w] = NoRec
      /\ \A v \in EvidenceWorkers \ {w} : halfWritten'[v] = halfWritten[v]
  BY <1>1, <1>4
<1>6. Grows(backlogFile, backlogFile', r, "tail")
  BY <1>4, PutGrows
<1> SUFFICES ASSUME OneWriter(f)' PROVE TearsAreCounted(f)'
  BY DEF TearsAreCounted
<1>7. OneWriter(f)
  BY <1>4 DEF OneWriter, FileOf
<1>8. TearsAreCounted(f) /\ backlogFile[f] \in Seq(Pieces)
  BY <1>1 DEF FileTyped
<1>9. ~ Writes(w, f)' /\ \A v \in EvidenceWorkers \ {w} : Writes(v, f)' <=> Writes(v, f)
  BY <1>5 DEF Writes, FileOf
<1>10. CASE f = FileOf(r.turn)
  <2>1. Writes(w, f)
    BY <1>4, <1>10 DEF Writes
  <2>2. \A v \in EvidenceWorkers : ~ Writes(v, f)'
    BY <1>7, <1>9, <2>1, OneWrites
  <2>3. TearsAdd(backlogFile[f], TRUE, r, evFaults)
    BY <1>2, <1>7, <1>8, <2>1 DEF TearsMean
  <2> DEFINE p == Piece(r, "tail")
  <2>4. p \in Pieces /\ p.of = r /\ p.part = "tail" /\ backlogFile'[f] = Append(backlogFile[f], p)
    BY <1>6, <1>10 DEF Grows
  <2> HIDE DEF p, r
  <2>5. \A k : TearsAdd(Append(backlogFile[f], p), FALSE, k, evFaults)
    BY <1>1, <1>8, <2>3, <2>4, CountedSteps
  <2>6. \A k : TearsAdd(backlogFile'[f], FALSE, k, evFaults')
    BY <1>4, <2>4, <2>5
  <2>7. QED
    BY <1>3, <2>2, <2>6 DEF TearsMean
<1>11. CASE f # FileOf(r.turn)
  <2>1. backlogFile'[f] = backlogFile[f] /\ ~ Writes(w, f)
    BY <1>6, <1>11 DEF Grows, Writes
  <2>2. \A v \in EvidenceWorkers : Writes(v, f)' <=> Writes(v, f)
    BY <1>9, <2>1
  <2>3. CASE \E v \in EvidenceWorkers : Writes(v, f)
    <3>1. PICK v \in EvidenceWorkers : Writes(v, f)
      BY <2>3
    <3>2. halfWritten'[v] = halfWritten[v]
      BY <1>5, <2>1, <3>1
    <3>3. QED
      BY <1>2, <1>3, <1>4, <1>7, <1>8, <2>1, <2>2, <3>1, <3>2 DEF TearsMean
  <2>4. CASE \A v \in EvidenceWorkers : ~ Writes(v, f)
    BY <1>2, <1>3, <1>4, <1>7, <1>8, <2>1, <2>2, <2>4 DEF TearsMean
  <2>5. QED
    BY <2>3, <2>4
<1>12. QED
  BY <1>10, <1>11

LEMMA NothingIsUnread ==
    /\ RecordsIn(<< >>) = {} /\ Begun(<< >>) = {} /\ UnreadIn(<< >>) = 0
    /\ ~ EndsInHead(<< >>) /\ DOMAIN << >> = {}
<1>1. RecordsIn(<< >>) = {} /\ Begun(<< >>) = {} /\ ~ EndsInHead(<< >>) /\ DOMAIN << >> = {}
  BY DEF RecordsIn, Begun, EndsInHead, IsHead
<1>2. UnreadIn(<< >>) = Cardinality({}) - Cardinality({})
  BY <1>1 DEF UnreadIn
<1>3. UnreadIn(<< >>) = 0
  BY <1>2, FS_EmptySet
<1>4. QED
  BY <1>1, <1>3

LEMMA OtherStepsKeepTears ==
    ASSUME TurnEvidenceTypeOK, HalvesAreAwaited, \A f \in BacklogFiles : TearsAreCounted(f),
           TurnEvidenceTypeOK', HalvesAreAwaited',
           \/ \E w \in EvidenceWorkers : WriteTail(w) \/ LoseTail(w) \/ WorkerDies(w)
           \/ \E f \in BacklogFiles : SweepBacklog(f)
           \/ UNCHANGED evidenceVars,
           NEW f \in BacklogFiles
    PROVE  TearsAreCounted(f)'
<1>1. ASSUME NEW w \in EvidenceWorkers, WriteTail(w) PROVE TearsAreCounted(f)'
  BY <1>1, TailKeepsTears
<1>2. ASSUME NEW w \in EvidenceWorkers, LoseTail(w) PROVE TearsAreCounted(f)'
  <2>1. halfWritten \in [EvidenceWorkers -> Records \cup {NoRec}]
    BY TypesAgain
  <2>2. Forgets(w)
    BY <1>2, <2>1 DEF LoseTail, Forgets
  <2>3. QED
    BY <2>2, HalfIsLost
<1>3. ASSUME NEW w \in EvidenceWorkers, WorkerDies(w) PROVE TearsAreCounted(f)'
  <2>1. Forgets(w)
    BY <1>3, DeathFacts DEF Forgets
  <2>2. QED
    BY <2>1, HalfIsLost
<1>4. ASSUME NEW g \in BacklogFiles, SweepBacklog(g) PROVE TearsAreCounted(f)'
  <2>1. FileTyped(backlogFile) /\ evFaults \in Nat
        /\ halfWritten \in [EvidenceWorkers -> Records \cup {NoRec}]
    BY TypesAgain
  <2>2. \A w \in EvidenceWorkers : halfWritten[w] = NoRec
    BY <1>4, <2>1 DEF SweepBacklog, HalvesAreAwaited, OnTurn, Records
  <2>3. ~ BeingWritten(f) /\ ~ BeingWritten(f)'
    BY <1>4, <2>2 DEF BeingWritten, SweepBacklog
  <2>4. (OneWriter(f)' <=> OneWriter(f)) /\ evFaults' = evFaults
    BY <1>4 DEF SweepBacklog, OneWriter, FileOf
  <2>5. CASE f = g
    <3>1. backlogFile'[f] = << >>
      BY <1>4, <2>1, <2>5 DEF SweepBacklog, FileTyped
    <3>2. UnreadIn(backlogFile'[f]) + (IF EndsInHead(backlogFile'[f]) THEN 1 ELSE 0)
              <= 2 * evFaults'
      BY <2>1, <2>4, <3>1, NothingIsUnread
    <3>3. QED
      BY <2>3, <3>2 DEF TearsAreCounted
  <2>6. CASE f # g
    <3>1. backlogFile'[f] = backlogFile[f]
      BY <1>4, <2>1, <2>6 DEF SweepBacklog, FileTyped
    <3>2. QED
      BY <2>3, <2>4, <3>1 DEF TearsAreCounted
  <2>7. QED
    BY <2>5, <2>6
<1>5. ASSUME UNCHANGED evidenceVars PROVE TearsAreCounted(f)'
  <2>1. TearsAreCounted(f) /\ UNCHANGED <<backlogFile, halfWritten, evTurn, evFaults>>
    BY <1>5 DEF evidenceVars
  <2>2. (BeingWritten(f)' <=> BeingWritten(f)) /\ (OneWriter(f)' <=> OneWriter(f))
    BY <2>1 DEF BeingWritten, OneWriter, FileOf
  <2>3. QED
    BY <2>1, <2>2 DEF TearsAreCounted, FileOf
<1>6. QED
  BY <1>1, <1>2, <1>3, <1>4, <1>5

-----------------------------------------------------------------------------
\* The turns whose answers the series of process w has.
CountedBy(w) == {t \in EvidenceTurns \ erased : evTurn[t].worker = w}
AnsweredOf == [t \in EvidenceTurns |-> evTurn[t].answered]
TokensOf   == [t \in EvidenceTurns |-> evTurn[t].tokens]

LEMMA SeriesAgain ==
    SeriesCountEveryAnswer <=>
        \A w \in EvidenceWorkers : llmCalls[w] = SumOver(AnsweredOf, CountedBy(w))
BY DEF SeriesCountEveryAnswer, AnsweredOf, CountedBy

LEMMA SeriesLater ==
    SeriesCountEveryAnswer' <=>
        \A w \in EvidenceWorkers : llmCalls'[w] = SumOver(AnsweredOf', CountedBy(w)')
BY DEF SeriesCountEveryAnswer, AnsweredOf, CountedBy

LEMMA SumAside ==
    ASSUME NEW f, NEW S, IsFiniteSet(S), \A x \in S : f[x] \in Int, NEW a
    PROVE  SumOver(f, S) = SumOver(f, S \ {a}) + (IF a \in S THEN f[a] ELSE 0)
<1>1. CASE a \in S
  <2>1. SumOver(f, S) = f[a] + SumOver(f, S \ {a})
    BY <1>1, SumTakes
  <2>2. SumOver(f, S \ {a}) \in Int /\ f[a] \in Int
    BY <1>1, FS_RemoveElement, SumIsInt
  <2>3. QED
    BY <1>1, <2>1, <2>2
<1>2. CASE a \notin S
  <2>1. S \ {a} = S
    BY <1>2
  <2>2. SumOver(f, S \ {a}) = SumOver(f, S)
    BY <2>1, Zenon
  <2>3. SumOver(f, S) \in Int
    BY SumIsInt
  <2>4. QED
    BY <1>2, <2>2, <2>3
<1>3. QED
  BY <1>1, <1>2

LEMMA TurnsAreFinite ==
    ASSUME NEW T, T \subseteq EvidenceTurns PROVE IsFiniteSet(T)
BY TurnEvidenceAssumption, FS_Subset

LEMMA StepKeepsSeries ==
    ASSUME TurnEvidenceTypeOK, TurnsFit, SeriesCountEveryAnswer,
           NEW t \in EvidenceTurns, NEW new, NEW r, TurnSteps(t, new, r)
    PROVE  SeriesCountEveryAnswer'
<1>1. /\ evTurn[t] \in EvTurns /\ new \in EvTurns /\ new.worker \in EvidenceWorkers
      /\ evTurn[t].at \notin {"over", "dead"}
      /\ evTurn[t].at # "new" => new.worker = evTurn[t].worker
      /\ evTurn'[t] = new /\ \A u \in EvidenceTurns \ {t} : evTurn'[u] = evTurn[u]
      /\ r.kind = "llm" => /\ new.answered = evTurn[t].answered + 1
                           /\ new.worker = evTurn[t].worker
      /\ r.kind # "llm" => new.answered = evTurn[t].answered
  BY StepFacts DEF EvTurns
<1>2. t \notin erased /\ erased' = erased
  BY <1>1 DEF TurnsFit, TurnSteps
<1>3. /\ evTurn \in [EvidenceTurns -> EvTurns] /\ llmCalls \in [EvidenceWorkers -> Nat]
  BY TypesAgain
<1>4. evTurn[t].at = "new" => evTurn[t].answered = 0
  BY DEF TurnsFit, CountsFit
<1> SUFFICES ASSUME NEW w \in EvidenceWorkers
             PROVE  llmCalls'[w] = SumOver(AnsweredOf', CountedBy(w)')
  BY SeriesLater
<1> DEFINE f == AnsweredOf
           g == AnsweredOf'
           S == CountedBy(w)
           U == CountedBy(w)'
<1>5. /\ \A u \in EvidenceTurns : f[u] \in Int /\ g[u] \in Int
      /\ \A u \in EvidenceTurns \ {t} : g[u] = f[u]
      /\ f[t] = evTurn[t].answered /\ g[t] = new.answered
  BY <1>1, <1>3 DEF AnsweredOf, EvTurns
<1>6. /\ S \subseteq EvidenceTurns /\ U \subseteq EvidenceTurns /\ U \ {t} = S \ {t}
      /\ t \in S <=> evTurn[t].worker = w
      /\ t \in U <=> new.worker = w
  BY <1>1, <1>2 DEF CountedBy
<1>7. llmCalls[w] = SumOver(f, S)
  BY SeriesAgain
<1> HIDE DEF f, g, S, U
<1>8. IsFiniteSet(S) /\ IsFiniteSet(U) /\ IsFiniteSet(S \ {t})
  BY <1>6, TurnsAreFinite
<1>9. /\ SumOver(f, S) = SumOver(f, S \ {t}) + (IF t \in S THEN f[t] ELSE 0)
      /\ SumOver(g, U) = SumOver(g, S \ {t}) + (IF t \in U THEN g[t] ELSE 0)
  <2>1. (\A u \in S : f[u] \in Int) /\ (\A u \in U : g[u] \in Int)
    BY <1>5, <1>6
  <2>2. QED
    BY <1>6, <1>8, <2>1, SumAside
<1>10. SumOver(f, S \ {t}) = SumOver(g, S \ {t}) /\ SumOver(g, S \ {t}) \in Int
  <2>1. \A u \in S \ {t} : f[u] = g[u] /\ g[u] \in Int
    BY <1>5, <1>6
  <2>2. QED
    BY <1>8, <2>1, SumAgrees, SumIsInt
<1>11. CASE r.kind = "llm"
  <2>1. llmCalls' = [llmCalls EXCEPT ![new.worker] = @ + 1]
    BY <1>11 DEF TurnSteps
  <2>2. QED
    BY <1>1, <1>3, <1>5, <1>6, <1>7, <1>9, <1>10, <1>11, <2>1 DEF g, U
<1>12. CASE r.kind # "llm"
  <2>1. llmCalls' = llmCalls
    BY <1>12 DEF TurnSteps
  <2>2. (IF t \in S THEN f[t] ELSE 0) = (IF t \in U THEN g[t] ELSE 0)
    BY <1>1, <1>4, <1>5, <1>6, <1>12
  <2>3. QED
    BY <1>7, <1>9, <1>10, <2>1, <2>2 DEF g, U
<1>13. QED
  BY <1>11, <1>12

LEMMA OtherStepsKeepSeries ==
    ASSUME TurnEvidenceTypeOK, TurnsFit, SeriesCountEveryAnswer,
           \/ \E w \in EvidenceWorkers : WriteTail(w) \/ LoseTail(w) \/ WorkerDies(w)
           \/ \E f \in BacklogFiles : SweepBacklog(f)
           \/ UNCHANGED evidenceVars
    PROVE  SeriesCountEveryAnswer'
<1>1. /\ evTurn \in [EvidenceTurns -> EvTurns] /\ llmCalls \in [EvidenceWorkers -> Nat]
  BY TypesAgain
<1>2. \A t \in EvidenceTurns : evTurn[t].at = "new" => evTurn[t].answered = 0
  BY DEF TurnsFit, CountsFit
<1>3. ASSUME UNCHANGED <<evTurn, llmCalls, erased>> PROVE SeriesCountEveryAnswer'
  BY <1>3 DEF SeriesCountEveryAnswer
<1>4. ASSUME NEW w \in EvidenceWorkers, WorkerDies(w) PROVE SeriesCountEveryAnswer'
  <2>1. \A u \in EvidenceTurns : /\ evTurn'[u].worker = evTurn[u].worker
                                 /\ evTurn'[u].answered = evTurn[u].answered
    BY <1>4, DeathFacts
  <2>2. AnsweredOf' = AnsweredOf
    BY <2>1 DEF AnsweredOf
  <2>3. /\ llmCalls'[w] = 0 /\ \A v \in EvidenceWorkers \ {w} : llmCalls'[v] = llmCalls[v]
        /\ erased' = erased \cup {t \in EvidenceTurns : evTurn[t].worker = w /\ evTurn[t].at # "new"}
    BY <1>1, <1>4 DEF WorkerDies
  <2>4. \A v \in EvidenceWorkers \ {w} : CountedBy(v)' = CountedBy(v)
    BY <2>1, <2>3 DEF CountedBy
  <2>5. SumOver(AnsweredOf, CountedBy(w)') = 0
    <3> DEFINE S == CountedBy(w)'
    <3>1. S \subseteq EvidenceTurns /\ \A t \in S : AnsweredOf[t] = 0
      BY <1>2, <2>1, <2>3 DEF CountedBy, AnsweredOf
    <3> HIDE DEF S
    <3>2. SumOver(AnsweredOf, S) = 0
      BY <3>1, TurnsAreFinite, SumOfZeros
    <3>3. QED
      BY <3>2 DEF S
  <2>6. \A v \in EvidenceWorkers : llmCalls[v] = SumOver(AnsweredOf, CountedBy(v))
    BY SeriesAgain
  <2>7. \A v \in EvidenceWorkers : llmCalls'[v] = SumOver(AnsweredOf', CountedBy(v)')
    BY <2>2, <2>3, <2>4, <2>5, <2>6
  <2>8. QED
    BY <2>7, SeriesLater
<1>5. ASSUME NEW f \in BacklogFiles, SweepBacklog(f) PROVE SeriesCountEveryAnswer'
  <2> SUFFICES ASSUME NEW w \in EvidenceWorkers
               PROVE  llmCalls'[w] = SumOver(AnsweredOf', CountedBy(w)')
    BY SeriesLater
  <2> DEFINE S == CountedBy(w)'
             g == AnsweredOf'
  <2>1. S \subseteq EvidenceTurns /\ \A t \in S : g[t] = 0
    BY <1>2, <1>5 DEF SweepBacklog, CountedBy, AnsweredOf
  <2>2. llmCalls'[w] = 0
    BY <1>5 DEF SweepBacklog
  <2> HIDE DEF S, g
  <2>3. SumOver(g, S) = 0
    BY <2>1, TurnsAreFinite, SumOfZeros
  <2>4. QED
    BY <2>2, <2>3 DEF S, g
<1>6. ASSUME NEW w \in EvidenceWorkers, WriteTail(w) \/ LoseTail(w)
      PROVE  UNCHANGED <<evTurn, llmCalls, erased>>
  BY <1>6 DEF WriteTail, LoseTail
<1>7. QED
  BY <1>3, <1>4, <1>5, <1>6 DEF evidenceVars

-----------------------------------------------------------------------------
\* Where the records of a turn begin in a file a piece was appended to.
OwnGrown(s, u, p, n, x) ==
    /\ n \in Int /\ n \notin Own(s, x) /\ u[n] = p
    /\ \A i \in Own(s, x) : i \in Int /\ i < n /\ u[i] = s[i]
    /\ Own(u, x) = IF p.part # "tail" /\ p.of.turn = x THEN Own(s, x) \cup {n} ELSE Own(s, x)
    /\ \A kind : OwnOf(u, x, kind) =
           IF p.part # "tail" /\ p.of.turn = x /\ p.of.kind = kind
           THEN OwnOf(s, x, kind) \cup {n} ELSE OwnOf(s, x, kind)

LEMMA OwnGrows ==
    ASSUME NEW s \in Seq(Pieces), NEW p \in Pieces, NEW x
    PROVE  OwnGrown(s, Append(s, p), p, Len(s) + 1, x)
<1> DEFINE u == Append(s, p)
           n == Len(s) + 1
<1>1. /\ Len(s) \in Nat /\ DOMAIN s = 1 .. Len(s) /\ n \notin DOMAIN s
      /\ u[n] = p /\ \A i \in DOMAIN s : u[i] = s[i]
  BY AppendedPiece
<1>2. Begun(u) = IF p.part = "tail" THEN Begun(s) ELSE Begun(s) \cup {n}
  BY PieceIsAdded
<1>3. Begun(s) \subseteq DOMAIN s /\ Own(s, x) \subseteq DOMAIN s
  BY DEF Begun, Own
<1>4. \A i \in DOMAIN s : i \in Int /\ i < n
  BY <1>1
<1>5. n \in Int
  BY <1>1
<1> HIDE DEF u, n
<1>6. Own(u, x) = IF p.part # "tail" /\ p.of.turn = x THEN Own(s, x) \cup {n} ELSE Own(s, x)
  BY <1>1, <1>2, <1>3 DEF Own
<1>7. \A i \in Own(s, x) : u[i] = s[i]
  BY <1>1, <1>3
<1>8. ASSUME NEW kind
      PROVE  OwnOf(u, x, kind) = IF p.part # "tail" /\ p.of.turn = x /\ p.of.kind = kind
                                 THEN OwnOf(s, x, kind) \cup {n} ELSE OwnOf(s, x, kind)
  BY <1>1, <1>6, <1>7 DEF OwnOf
<1>9. QED
  <2>1. OwnGrown(s, u, p, n, x)
    BY <1>1, <1>3, <1>4, <1>5, <1>6, <1>7, <1>8 DEF OwnGrown
  <2>2. QED
    BY <2>1 DEF u, n

\* The record of another turn, or the rest of a record, changes nothing for a turn.
LEMMA OthersStay ==
    ASSUME NEW s \in Seq(Pieces), NEW p \in Pieces, NEW x, NEW e,
           p.part = "tail" \/ p.of.turn # x, TurnIsRecorded(s, x, e)
    PROVE  TurnIsRecorded(Append(s, p), x, e)
<1> DEFINE u == Append(s, p)
<1>0. OwnGrown(s, u, p, Len(s) + 1, x)
  BY OwnGrows
<1> HIDE DEF u
<1>1. /\ \A i \in Own(s, x) : u[i] = s[i]
      /\ Own(u, x) = Own(s, x) /\ \A kind : OwnOf(u, x, kind) = OwnOf(s, x, kind)
  BY <1>0 DEF OwnGrown
<1>2. QED
  BY <1>1 DEF TurnIsRecorded, u

\* A step that makes no record leaves the turn where its records say it is.
LEMMA NoRecordFits ==
    ASSUME NEW s, NEW t \in EvidenceTurns, NEW old \in EvTurns, NEW new, CountsFit(old),
           Goes(t, old, new, NoRec), TurnIsRecorded(s, t, old)
    PROVE  TurnIsRecorded(s, t, new)
<1>1. \/ /\ old.at = "waiting" /\ new.at \in {"loop", "failed"}
      \/ /\ old.at = "loop" /\ new.at = "failed"
      \/ /\ old.at \in {"loop", "result"} /\ new.at = "done"
         /\ new.calls = old.calls /\ new.answered = old.answered
      \/ /\ old.at = "tool" /\ new.at = "failed"
  <2>1. NoRec.kind = "none" /\ \A k, a, b : Rec(t, k, a, b).kind = k
    BY DEF NoRec, Rec
  <2>2. \A k \in {"start", "llm", "call", "result", "error", "end"} :
            \A a, b : Rec(t, k, a, b) # NoRec
    BY <2>1
  <2>3. QED
    BY <2>2 DEF Goes, EvTurns
<1>2. old.at \in {"waiting", "loop", "tool", "result"} => old.calls = old.answered
  BY DEF CountsFit
<1>3. QED
  BY <1>1, <1>2 DEF TurnIsRecorded

\* A step that makes a record and has it written leaves the turn where its records say.
LEMMA RecordFits ==
    ASSUME NEW s \in Seq(Pieces), NEW p \in Pieces, p.part # "tail",
           NEW t \in EvidenceTurns, NEW old \in EvTurns, NEW new \in EvTurns, CountsFit(old),
           p.of # NoRec, p.of.turn = t,
           Goes(t, old, new, p.of), TurnIsRecorded(s, t, old)
    PROVE  TurnIsRecorded(Append(s, p), t, new)
<1> DEFINE u == Append(s, p)
           n == Len(s) + 1
           r == p.of
<1>0. OwnGrown(s, u, p, n, t)
  BY OwnGrows
<1> HIDE DEF u, n, r
<1>1. /\ n \in Int /\ n \notin Own(s, t) /\ u[n] = p
      /\ \A i \in Own(s, t) : i \in Int /\ i < n /\ u[i] = s[i]
  BY <1>0 DEF OwnGrown
<1>2. /\ Own(u, t) = Own(s, t) \cup {n} /\ u[n].of = r
      /\ \A kind : OwnOf(u, t, kind) = IF r.kind = kind THEN OwnOf(s, t, kind) \cup {n}
                                       ELSE OwnOf(s, t, kind)
  BY <1>0 DEF r, OwnGrown
<1>3. \A kind : OwnOf(s, t, kind) \subseteq Own(s, t)
  BY DEF OwnOf
<1>4. \/ old.at = "new" /\ new.at = "waiting" /\ r.kind = "start"
      \/ old.at = "loop" /\ new.at \in {"tool", "done"} /\ r.kind = "llm"
         /\ new.calls = old.calls + 1 /\ new.answered = old.answered + 1
      \/ old.at = "tool" /\ new.at = "result" /\ r.kind = "call"
      \/ old.at = "result" /\ new.at = "loop" /\ r.kind = "result"
      \/ old.at = "failed" /\ new.at = "done" /\ r.kind = "error"
      \/ /\ old.at = "done" /\ new.at = "over" /\ r.kind = "end"
         /\ r.calls = new.calls /\ r.tokens = new.tokens
         /\ new.calls = old.calls /\ new.answered = old.answered
  <2>1. \A k, a, b : /\ Rec(t, k, a, b).kind = k /\ Rec(t, k, a, b).calls = a
                     /\ Rec(t, k, a, b).tokens = b
    BY DEF Rec
  <2>2. Goes(t, old, new, r) /\ r # NoRec
    BY DEF r
  <2>3. \/ /\ old.at = "new" /\ new = [old EXCEPT !.at = "waiting", !.worker = new.worker]
           /\ r = Rec(t, "start", 0, 0)
        \/ /\ old.at = "loop" /\ new.at \in {"tool", "done"}
           /\ new = [old EXCEPT !.at = new.at, !.calls = @ + 1, !.answered = @ + 1,
                                !.tokens = @ + (old.calls + 1)]
           /\ r = Rec(t, "llm", 1, old.calls + 1)
        \/ /\ old.at = "tool" /\ new = [old EXCEPT !.at = "result"]
           /\ r = Rec(t, "call", 0, 0)
        \/ /\ old.at = "result" /\ new = [old EXCEPT !.at = "loop"]
           /\ r = Rec(t, "result", 0, 0)
        \/ /\ old.at = "failed" /\ new = [old EXCEPT !.at = "done"]
           /\ r = Rec(t, "error", 0, 0)
        \/ /\ old.at = "done" /\ new = [old EXCEPT !.at = "over"]
           /\ r = Rec(t, "end", old.calls, old.tokens)
    BY <2>2 DEF Goes
  <2>4. CASE old.at = "loop"
    <3>1. /\ new.at \in {"tool", "done"} /\ r = Rec(t, "llm", 1, old.calls + 1)
          /\ new = [old EXCEPT !.at = new.at, !.calls = @ + 1, !.answered = @ + 1,
                               !.tokens = @ + (old.calls + 1)]
      BY <2>3, <2>4
    <3>2. new.calls = old.calls + 1 /\ new.answered = old.answered + 1
      BY <3>1 DEF EvTurns
    <3>3. r.kind = "llm"
      BY <3>1 DEF Rec
    <3>4. QED
      BY <2>4, <3>1, <3>2, <3>3
  <2>5. CASE old.at = "done"
    <3>1. new = [old EXCEPT !.at = "over"] /\ r = Rec(t, "end", old.calls, old.tokens)
      BY <2>3, <2>5
    <3>2. QED
      BY <2>1, <2>5, <3>1 DEF EvTurns
  <2>6. CASE old.at \notin {"loop", "done"}
    <3>1. \/ /\ old.at = "new" /\ new = [old EXCEPT !.at = "waiting", !.worker = new.worker]
             /\ r.kind = "start"
          \/ /\ old.at = "tool" /\ new = [old EXCEPT !.at = "result"] /\ r.kind = "call"
          \/ /\ old.at = "result" /\ new = [old EXCEPT !.at = "loop"] /\ r.kind = "result"
          \/ /\ old.at = "failed" /\ new = [old EXCEPT !.at = "done"] /\ r.kind = "error"
      BY <2>3, <2>6 DEF Rec
    <3>2. QED
      BY <3>1 DEF EvTurns
  <2>7. QED
    BY <2>4, <2>5, <2>6
<1>5. /\ new.at = "new" => Own(u, t) = {}
      /\ new.at # "new" =>
             \E first \in Own(u, t) :
                 OwnOf(u, t, "start") = {first} /\ \A i \in Own(u, t) : first <= i
  <2>0. new.at # "new"
    BY <1>4
  <2>1. CASE old.at = "new"
    <3>1. Own(s, t) = {} /\ r.kind = "start"
      BY <1>4, <2>1 DEF TurnIsRecorded
    <3>2. Own(u, t) = {n} /\ OwnOf(u, t, "start") = {n}
      BY <1>2, <1>3, <3>1
    <3>3. QED
      BY <1>1, <2>0, <3>2
  <2>2. CASE old.at # "new"
    <3>1. PICK first \in Own(s, t) :
              OwnOf(s, t, "start") = {first} /\ \A i \in Own(s, t) : first <= i
      BY <2>2 DEF TurnIsRecorded
    <3>2. OwnOf(u, t, "start") = {first} /\ first \in Own(u, t)
      BY <1>2, <1>4, <2>2, <3>1
    <3>3. \A i \in Own(u, t) : first <= i
      BY <1>1, <1>2, <3>1
    <3>4. QED
      BY <2>0, <3>2, <3>3
  <2>3. QED
    BY <2>1, <2>2
<1>6. /\ new.at = "over" =>
             \E last \in Own(u, t) :
                 /\ OwnOf(u, t, "end") = {last} /\ \A i \in Own(u, t) : i <= last
                 /\ u[last].of.calls = new.calls /\ u[last].of.tokens = new.tokens
      /\ new.at # "over" => OwnOf(u, t, "end") = {}
  <2>1. OwnOf(s, t, "end") = {}
    BY <1>4 DEF TurnIsRecorded
  <2>2. CASE new.at = "over"
    <3>1. r.kind = "end" /\ r.calls = new.calls /\ r.tokens = new.tokens
      BY <1>4, <2>2
    <3>2. OwnOf(u, t, "end") = {n} /\ n \in Own(u, t)
      BY <1>2, <2>1, <3>1
    <3>3. \A i \in Own(u, t) : i <= n
      BY <1>1, <1>2
    <3>4. QED
      BY <1>2, <2>2, <3>1, <3>2, <3>3
  <2>3. CASE new.at # "over"
    BY <1>2, <1>4, <2>1, <2>3
  <2>4. QED
    BY <2>2, <2>3
<1>7. /\ new.at \notin {"done", "over"} => OwnOf(u, t, "error") = {}
      /\ new.at \in {"done", "over"} /\ new.calls # new.answered => OwnOf(u, t, "error") # {}
      /\ \A i, j \in OwnOf(u, t, "error") : i = j
  <2>1. /\ old.at \notin {"done", "over"} => OwnOf(s, t, "error") = {}
        /\ old.at \in {"done", "over"} /\ old.calls # old.answered => OwnOf(s, t, "error") # {}
        /\ \A i, j \in OwnOf(s, t, "error") : i = j
    BY DEF TurnIsRecorded
  <2>2. CASE r.kind = "error"
    <3>1. old.at = "failed" /\ new.at = "done"
      BY <1>4, <2>2
    <3>2. OwnOf(u, t, "error") = {n}
      BY <1>2, <2>1, <2>2, <3>1
    <3>3. QED
      BY <3>1, <3>2
  <2>3. CASE r.kind # "error"
    <3>1. OwnOf(u, t, "error") = OwnOf(s, t, "error")
      BY <1>2, <2>3
    <3>2. new.at \notin {"done", "over"} => old.at \notin {"done", "over"}
      BY <1>4, <2>3
    <3>3. new.at \in {"done", "over"} /\ new.calls # new.answered =>
              old.at \in {"done", "over"} /\ old.calls # old.answered
      <4>1. old.at = "loop" => old.calls = old.answered
        BY DEF CountsFit
      <4>0. old.calls \in Nat /\ old.answered \in Nat
        BY DEF EvTurns
      <4>2. QED
        BY <1>4, <2>3, <4>0, <4>1
    <3>4. QED
      BY <2>1, <3>1, <3>2, <3>3
  <2>4. QED
    BY <2>2, <2>3
<1>8. new.at = "result" => \E j \in OwnOf(u, t, "call") : \A k \in Own(u, t) : k <= j
  <2> SUFFICES ASSUME new.at = "result"
               PROVE  \E j \in OwnOf(u, t, "call") : \A k \in Own(u, t) : k <= j
    OBVIOUS
  <2>1. n \in OwnOf(u, t, "call")
    BY <1>2, <1>4
  <2>2. \A k \in Own(u, t) : k <= n
    BY <1>1, <1>2
  <2>3. QED
    BY <2>1, <2>2
<1>9. \A i \in OwnOf(u, t, "result") :
          \E j \in OwnOf(u, t, "call") : j < i /\ \A k \in Own(u, t) : k <= j \/ i <= k
  <2> SUFFICES ASSUME NEW i \in OwnOf(u, t, "result")
               PROVE  \E j \in OwnOf(u, t, "call") :
                          j < i /\ \A k \in Own(u, t) : k <= j \/ i <= k
    OBVIOUS
  <2>1. CASE i \in OwnOf(s, t, "result")
    <3>1. PICK j \in OwnOf(s, t, "call") :
              j < i /\ \A k \in Own(s, t) : k <= j \/ i <= k
      BY <2>1 DEF TurnIsRecorded
    <3>2. j \in OwnOf(u, t, "call") /\ i \in Own(s, t)
      BY <1>2, <1>3, <2>1, <3>1
    <3>3. \A k \in Own(u, t) : k <= j \/ i <= k
      BY <1>1, <1>2, <3>1, <3>2
    <3>4. QED
      BY <3>1, <3>2, <3>3
  <2>2. CASE i \notin OwnOf(s, t, "result")
    <3>1. i = n /\ r.kind = "result"
      BY <1>2, <2>2
    <3>2. old.at = "result"
      BY <1>4, <3>1
    <3>3. PICK j \in OwnOf(s, t, "call") : \A k \in Own(s, t) : k <= j
      BY <3>2 DEF TurnIsRecorded
    <3>4. j \in OwnOf(u, t, "call") /\ j < n
      BY <1>1, <1>2, <1>3, <3>1, <3>3
    <3>5. \A k \in Own(u, t) : k <= j \/ n <= k
      BY <1>1, <1>2, <3>3
    <3>6. QED
      BY <3>1, <3>4, <3>5
  <2>3. QED
    BY <2>1, <2>2
<1>10. QED
  BY <1>5, <1>6, <1>7, <1>8, <1>9 DEF TurnIsRecorded, u

LEMMA StepKeepsRecorded ==
    ASSUME TurnEvidenceTypeOK, TurnsFit, TurnsAreRecorded,
           NEW t \in EvidenceTurns, NEW new, NEW r, TurnSteps(t, new, r)
    PROVE  TurnsAreRecorded'
<1>1. /\ evTurn[t] \in EvTurns /\ new \in EvTurns
      /\ evTurn'[t] = new /\ \A u \in EvidenceTurns \ {t} : evTurn'[u] = evTurn[u]
      /\ r = NoRec \/ (r \in Records /\ r.turn = t)
  BY StepFacts
<1>2. Goes(t, evTurn[t], new, r) /\ erased' = erased /\ backlogMode' = backlogMode
  BY DEF TurnSteps
<1>3. CountsFit(evTurn[t])
  BY DEF TurnsFit
<1> SUFFICES ASSUME backlogMode = "full",
                    NEW u \in EvidenceTurns, u \notin unwritten', u \notin erased
             PROVE  TurnIsRecorded(backlogFile'[FileOf(u)], u, evTurn'[u])
  BY <1>2 DEF TurnsAreRecorded, FileOf
<1>4. ASSUME StoresNothing(r) \/ Misses(t, r)
      PROVE  TurnIsRecorded(backlogFile'[FileOf(u)], u, evTurn'[u])
  <2>1. /\ backlogFile' = backlogFile /\ u \notin unwritten
        /\ Misses(t, r) => u # t
    BY <1>4 DEF StoresNothing, Misses
  <2>2. TurnIsRecorded(backlogFile[FileOf(u)], u, evTurn[u])
    BY <2>1 DEF TurnsAreRecorded
  <2>3. CASE u # t
    BY <1>1, <2>1, <2>2, <2>3
  <2>4. CASE u = t
    <3>1. r = NoRec
      BY <1>4, <2>1, <2>4 DEF StoresNothing
    <3>2. TurnIsRecorded(backlogFile[FileOf(t)], t, new)
      BY <1>1, <1>2, <1>3, <2>2, <2>4, <3>1, NoRecordFits
    <3>3. QED
      BY <1>1, <2>1, <2>4, <3>2
  <2>5. QED
    BY <2>3, <2>4
<1>5. ASSUME NEW part \in {"whole", "head"}, Stores(t, new, r, part)
      PROVE  TurnIsRecorded(backlogFile'[FileOf(u)], u, evTurn'[u])
  <2>1. r \in Records /\ r.turn = t /\ r # NoRec /\ u \notin unwritten
    BY <1>1, <1>5 DEF Stores
  <2>2. Grows(backlogFile, backlogFile', r, part)
    BY <1>5, <2>1, PutGrows DEF Stores
  <2> DEFINE p == Piece(r, part)
             s == backlogFile[FileOf(t)]
  <2>3. /\ s \in Seq(Pieces) /\ p \in Pieces /\ p.of = r /\ p.part = part
        /\ backlogFile'[FileOf(t)] = Append(s, p)
        /\ \A e \in BacklogFiles \ {FileOf(t)} : backlogFile'[e] = backlogFile[e]
    BY <2>1, <2>2 DEF Grows
  <2>4. TurnIsRecorded(backlogFile[FileOf(u)], u, evTurn[u])
    BY <2>1 DEF TurnsAreRecorded
  <2> HIDE DEF p
  <2>5. CASE u = t
    <3>1. p.part # "tail"
      BY <2>3
    <3>2. TurnIsRecorded(Append(s, p), t, new)
      BY <1>1, <1>2, <1>3, <2>1, <2>3, <2>4, <2>5, <3>1, RecordFits
    <3>3. QED
      BY <1>1, <2>3, <2>5, <3>2
  <2>6. CASE u # t /\ FileOf(u) = FileOf(t)
    <3>1. p.of.turn # u
      BY <2>1, <2>3, <2>6
    <3>2. TurnIsRecorded(Append(s, p), u, evTurn[u])
      BY <2>3, <2>4, <2>6, <3>1, OthersStay
    <3>3. QED
      BY <1>1, <2>3, <2>6, <3>2
  <2>7. CASE u # t /\ FileOf(u) # FileOf(t)
    <3>1. backlogFile'[FileOf(u)] = backlogFile[FileOf(u)]
      BY <2>3, <2>7, FilesAreFiles
    <3>2. QED
      BY <1>1, <2>4, <2>7, <3>1
  <2>8. QED
    BY <2>5, <2>6, <2>7
<1>6. QED
  BY <1>4, <1>5 DEF TurnSteps

LEMMA NothingIsRecorded ==
    ASSUME NEW t, NEW e, e.at = "new" PROVE TurnIsRecorded(<< >>, t, e)
<1>1. Own(<< >>, t) = {} /\ \A kind : OwnOf(<< >>, t, kind) = {}
  BY NothingIsUnread DEF Own, OwnOf
<1>2. QED
  BY <1>1 DEF TurnIsRecorded

LEMMA OtherStepsKeepRecorded ==
    ASSUME TurnEvidenceTypeOK, HalvesAreAwaited, TurnsAreRecorded,
           \/ \E w \in EvidenceWorkers : WriteTail(w) \/ LoseTail(w) \/ WorkerDies(w)
           \/ \E f \in BacklogFiles : SweepBacklog(f)
           \/ UNCHANGED evidenceVars
    PROVE  TurnsAreRecorded'
<1>1. /\ evTurn \in [EvidenceTurns -> EvTurns] /\ FileTyped(backlogFile)
      /\ halfWritten \in [EvidenceWorkers -> Records \cup {NoRec}]
  BY TypesAgain
<1>2. ASSUME NEW w \in EvidenceWorkers, WriteTail(w) PROVE TurnsAreRecorded'
  <2> DEFINE r == halfWritten[w]
             p == Piece(r, "tail")
             s == backlogFile[FileOf(r.turn)]
  <2>1. /\ r \in Records
        /\ UNCHANGED <<backlogMode, evTurn, unwritten, erased>>
        /\ backlogFile' = [backlogFile EXCEPT ![FileOf(r.turn)] = Append(@, p)]
    BY <1>1, <1>2 DEF WriteTail, Put
  <2>2. Grows(backlogFile, backlogFile', r, "tail")
    BY <2>1, PutGrows
  <2>3. /\ s \in Seq(Pieces) /\ p \in Pieces /\ p.part = "tail"
        /\ backlogFile'[FileOf(r.turn)] = Append(s, p)
        /\ \A e \in BacklogFiles \ {FileOf(r.turn)} : backlogFile'[e] = backlogFile[e]
    BY <2>2 DEF Grows
  <2> HIDE DEF p, r
  <2> SUFFICES ASSUME backlogMode = "full",
                      NEW u \in EvidenceTurns, u \notin unwritten, u \notin erased
               PROVE  TurnIsRecorded(backlogFile'[FileOf(u)], u, evTurn[u])
    BY <2>1 DEF TurnsAreRecorded, FileOf
  <2>4. TurnIsRecorded(backlogFile[FileOf(u)], u, evTurn[u])
    BY DEF TurnsAreRecorded
  <2>5. CASE FileOf(u) = FileOf(r.turn)
    <3>1. TurnIsRecorded(Append(s, p), u, evTurn[u])
      BY <2>3, <2>4, <2>5, OthersStay
    <3>2. QED
      BY <2>3, <2>5, <3>1
  <2>6. CASE FileOf(u) # FileOf(r.turn)
    <3>1. backlogFile'[FileOf(u)] = backlogFile[FileOf(u)]
      BY <2>3, <2>6, FilesAreFiles
    <3>2. QED
      BY <2>4, <3>1
  <2>7. QED
    BY <2>5, <2>6
<1>3. ASSUME NEW w \in EvidenceWorkers, LoseTail(w) PROVE TurnsAreRecorded'
  <2>1. /\ UNCHANGED <<backlogMode, backlogFile, evTurn, erased>>
        /\ unwritten \subseteq unwritten'
    BY <1>3 DEF LoseTail
  <2>2. QED
    BY <2>1 DEF TurnsAreRecorded, FileOf
<1>4. ASSUME NEW w \in EvidenceWorkers, WorkerDies(w) PROVE TurnsAreRecorded'
  <2>1. /\ \A u \in EvidenceTurns :
               \/ /\ OnTurn(u) /\ evTurn[u].worker = w
                  /\ evTurn'[u] = [evTurn[u] EXCEPT !.at = "dead"]
               \/ ~ (OnTurn(u) /\ evTurn[u].worker = w) /\ evTurn'[u] = evTurn[u]
        /\ UNCHANGED <<backlogMode, backlogFile, unwritten>>
    BY <1>4, DeathFacts
  <2>2. erased' = erased \cup {t \in EvidenceTurns : evTurn[t].worker = w /\ evTurn[t].at # "new"}
    BY <1>4 DEF WorkerDies
  <2>3. \A u \in EvidenceTurns : u \notin erased' => u \notin erased /\ evTurn'[u] = evTurn[u]
    BY <2>1, <2>2 DEF OnTurn
  <2>4. QED
    BY <2>1, <2>3 DEF TurnsAreRecorded, FileOf
<1>5. ASSUME NEW f \in BacklogFiles, SweepBacklog(f) PROVE TurnsAreRecorded'
  <2>1. /\ UNCHANGED <<backlogMode, evTurn, unwritten>>
        /\ erased' = erased \cup {t \in EvidenceTurns : evTurn[t].at # "new"}
        /\ backlogFile' = [backlogFile EXCEPT ![f] = << >>]
    BY <1>5 DEF SweepBacklog
  <2>2. /\ backlogFile'[f] = << >>
        /\ \A e \in BacklogFiles \ {f} : backlogFile'[e] = backlogFile[e]
    BY <1>1, <2>1 DEF FileTyped
  <2> SUFFICES ASSUME backlogMode = "full",
                      NEW u \in EvidenceTurns, u \notin unwritten, u \notin erased'
               PROVE  TurnIsRecorded(backlogFile'[FileOf(u)], u, evTurn[u])
    BY <2>1 DEF TurnsAreRecorded, FileOf
  <2>3. u \notin erased /\ evTurn[u].at = "new"
    BY <2>1
  <2>4. TurnIsRecorded(backlogFile[FileOf(u)], u, evTurn[u])
    BY <2>3 DEF TurnsAreRecorded
  <2>5. CASE FileOf(u) = f
    BY <2>2, <2>3, <2>5, NothingIsRecorded
  <2>6. CASE FileOf(u) # f
    BY <2>2, <2>4, <2>6, FilesAreFiles
  <2>7. QED
    BY <2>5, <2>6
<1>6. ASSUME UNCHANGED evidenceVars PROVE TurnsAreRecorded'
  BY <1>6 DEF evidenceVars, TurnsAreRecorded, FileOf
<1>7. QED
  BY <1>2, <1>3, <1>4, <1>5, <1>6

-----------------------------------------------------------------------------
\* The completions in file s of the turns in T are n, with m tokens.
Told(s, T, n, m) ==
    Cardinality(Answers(s, T)) = n /\ SumOver(TokensAt(s), Answers(s, T)) = m

TurnsOf(f) == {t \in EvidenceTurns : FileOf(t) = f}

LEMMA AnswersAgain ==
    AnswersAreCounted <=>
        (backlogMode = "full" =>
            \A f \in BacklogFiles : \A T \in SUBSET TurnsOf(f) :
                T \cap (unwritten \cup erased) = {} =>
                    Told(backlogFile[f], T, SumOver(AnsweredOf, T), SumOver(TokensOf, T)))
BY DEF AnswersAreCounted, Told, TurnsOf, AnsweredOf, TokensOf

LEMMA AnswersLater ==
    AnswersAreCounted' <=>
        (backlogMode' = "full" =>
            \A f \in BacklogFiles : \A T \in SUBSET TurnsOf(f) :
                T \cap (unwritten' \cup erased') = {} =>
                    Told(backlogFile'[f], T, SumOver(AnsweredOf', T), SumOver(TokensOf', T)))
BY DEF AnswersAreCounted, Told, TurnsOf, AnsweredOf, TokensOf, FileOf

LEMMA AnswersGrow ==
    ASSUME NEW s \in Seq(Pieces), NEW p \in Pieces, NEW T, NEW n, NEW m, Told(s, T, n, m)
    PROVE  /\ n \in Nat /\ m \in Int
           /\ p.of.kind = "llm" /\ p.of.turn \in T =>
                  Told(Append(s, p), T, n + 1, m + p.of.tokens)
           /\ ~ (p.of.kind = "llm" /\ p.of.turn \in T) => Told(Append(s, p), T, n, m)
<1> DEFINE u == Append(s, p)
           k == Len(s) + 1
           A == Answers(s, T)
           f == TokensAt(s)
           g == TokensAt(u)
<1>1. /\ u \in Seq(Pieces) /\ DOMAIN u = DOMAIN s \cup {k} /\ k \notin DOMAIN s
      /\ u[k] = p /\ \A i \in DOMAIN s : u[i] = s[i] /\ s[i] \in Pieces
  BY AppendedPiece
<1>2. A \subseteq DOMAIN s
  BY DEF Answers
<1>3. IsFiniteSet(A) /\ Cardinality(A) \in Nat
  BY <1>2, PlacesAreFinite
<1>4. p.of.tokens \in Int /\ \A i \in DOMAIN s : s[i].of.tokens \in Int
  BY <1>1 DEF Pieces, Records
<1> HIDE DEF u, k
<1>5. \A i \in A : f[i] \in Int /\ f[i] = g[i]
  BY <1>1, <1>2, <1>4 DEF TokensAt
<1>6. k \notin A /\ g[k] = p.of.tokens
  BY <1>1, <1>2 DEF TokensAt
<1>7. Answers(u, T) = IF p.of.kind = "llm" /\ p.of.turn \in T THEN A \cup {k} ELSE A
  BY <1>1 DEF Answers
<1>8. Cardinality(A) = n /\ SumOver(f, A) = m
  BY DEF Told
<1> HIDE DEF A, f, g
<1>9. SumOver(f, A) \in Int /\ SumOver(g, A) = SumOver(f, A)
  BY <1>3, <1>5, SumIsInt, SumAgrees
<1>10. Cardinality(A \cup {k}) = n + 1
  BY <1>3, <1>6, <1>8, FS_AddElement
<1>11. SumOver(g, A \cup {k}) = m + p.of.tokens
  <2>1. \A i \in A \cup {k} : g[i] \in Int
    BY <1>4, <1>5, <1>6
  <2>2. SumOver(g, A \cup {k}) = g[k] + SumOver(g, A)
    BY <1>3, <1>6, <2>1, SumAdds
  <2>3. QED
    BY <1>4, <1>6, <1>8, <1>9, <2>2
<1>12. CASE p.of.kind = "llm" /\ p.of.turn \in T
  <2>1. Told(u, T, n + 1, m + p.of.tokens)
    BY <1>7, <1>10, <1>11, <1>12 DEF Told, g
  <2>2. QED
    BY <1>3, <1>8, <1>9, <1>12, <2>1 DEF u
<1>13. CASE ~ (p.of.kind = "llm" /\ p.of.turn \in T)
  <2>1. Told(u, T, n, m)
    BY <1>7, <1>8, <1>9, <1>13 DEF Told, g
  <2>2. QED
    BY <1>3, <1>8, <1>9, <1>13, <2>1 DEF u
<1>14. QED
  BY <1>12, <1>13

\* The counts of the turns after the step of one of them.
LEMMA SumsStep ==
    ASSUME TurnEvidenceTypeOK, NEW t \in EvidenceTurns, NEW new, NEW r, TurnSteps(t, new, r),
           NEW T, T \subseteq EvidenceTurns
    PROVE  /\ r.kind = "llm" /\ t \in T =>
                  /\ SumOver(AnsweredOf', T) = SumOver(AnsweredOf, T) + 1
                  /\ SumOver(TokensOf', T) = SumOver(TokensOf, T) + r.tokens
           /\ ~ (r.kind = "llm" /\ t \in T) =>
                  /\ SumOver(AnsweredOf', T) = SumOver(AnsweredOf, T)
                  /\ SumOver(TokensOf', T) = SumOver(TokensOf, T)
<1>1. /\ evTurn[t] \in EvTurns /\ new \in EvTurns
      /\ evTurn'[t] = new /\ \A u \in EvidenceTurns \ {t} : evTurn'[u] = evTurn[u]
      /\ r = NoRec \/ (r \in Records /\ r.turn = t)
      /\ r.kind = "llm" => /\ new.answered = evTurn[t].answered + 1
                           /\ new.tokens = evTurn[t].tokens + r.tokens
      /\ r.kind # "llm" => new.answered = evTurn[t].answered /\ new.tokens = evTurn[t].tokens
  BY StepFacts
<1>2. evTurn \in [EvidenceTurns -> EvTurns] /\ IsFiniteSet(T)
  BY TypesAgain, TurnsAreFinite
<1>3. r.kind = "llm" => r.tokens \in Int
  <2>1. NoRec.kind = "none"
    BY DEF NoRec
  <2>2. QED
    BY <1>1, <2>1 DEF Records
<1> DEFINE f == AnsweredOf
           g == AnsweredOf'
           h == TokensOf
           k == TokensOf'
<1>4. /\ \A u \in EvidenceTurns : f[u] \in Int /\ h[u] \in Int
      /\ \A u \in EvidenceTurns \ {t} : g[u] = f[u] /\ k[u] = h[u]
      /\ g[t] = new.answered /\ f[t] = evTurn[t].answered
      /\ k[t] = new.tokens /\ h[t] = evTurn[t].tokens
      /\ g[t] \in Int /\ k[t] \in Int
  BY <1>1, <1>2 DEF AnsweredOf, TokensOf, EvTurns
<1> HIDE DEF f, g, h, k
<1>5. \A u \in EvidenceTurns : g[u] \in Int /\ k[u] \in Int
  BY <1>4
<1>6. CASE r.kind = "llm" /\ t \in T
  <2>1. SumOver(g, T) = SumOver(f, T) + (g[t] - f[t])
    BY <1>2, <1>4, <1>5, <1>6, SumChanges
  <2>2. SumOver(k, T) = SumOver(h, T) + (k[t] - h[t])
    BY <1>2, <1>4, <1>5, <1>6, SumChanges
  <2>3. g[t] - f[t] = 1 /\ k[t] - h[t] = r.tokens
    BY <1>1, <1>3, <1>4, <1>6
  <2>4. QED
    BY <1>6, <2>1, <2>2, <2>3 DEF f, g, h, k
<1>7. CASE ~ (r.kind = "llm" /\ t \in T)
  <2>1. \A u \in T : f[u] = g[u] /\ h[u] = k[u]
    BY <1>1, <1>4, <1>7
  <2>2. SumOver(f, T) = SumOver(g, T) /\ SumOver(h, T) = SumOver(k, T)
    BY <1>2, <2>1, SumAgrees
  <2>3. QED
    BY <1>7, <2>2 DEF f, g, h, k
<1>8. QED
  BY <1>6, <1>7

LEMMA StepKeepsAnswers ==
    ASSUME TurnEvidenceTypeOK, AnswersAreCounted,
           NEW t \in EvidenceTurns, NEW new, NEW r, TurnSteps(t, new, r)
    PROVE  AnswersAreCounted'
<1>1. r = NoRec \/ (r \in Records /\ r.turn = t)
  BY StepFacts
<1>2. erased' = erased /\ backlogMode' = backlogMode
  BY DEF TurnSteps
<1>3. FileTyped(backlogFile)
  BY TypesAgain
<1> SUFFICES ASSUME backlogMode = "full", NEW f \in BacklogFiles, NEW T \in SUBSET TurnsOf(f),
                    T \cap (unwritten' \cup erased) = {}
             PROVE  Told(backlogFile'[f], T, SumOver(AnsweredOf', T), SumOver(TokensOf', T))
  BY <1>2, AnswersLater
<1> DEFINE n == SumOver(AnsweredOf, T)
           m == SumOver(TokensOf, T)
           x == SumOver(AnsweredOf', T)
           y == SumOver(TokensOf', T)
           s == backlogFile[f]
<1>4. T \subseteq EvidenceTurns /\ \A u \in T : FileOf(u) = f
  BY DEF TurnsOf
<1>5. /\ r.kind = "llm" /\ t \in T => x = n + 1 /\ y = m + r.tokens
      /\ ~ (r.kind = "llm" /\ t \in T) => x = n /\ y = m
  BY <1>4, SumsStep
<1>6. unwritten \subseteq unwritten'
  BY DEF TurnSteps, StoresNothing, Misses, Stores
<1>7. Told(s, T, n, m)
  <2>1. T \cap (unwritten \cup erased) = {}
    BY <1>6
  <2>2. QED
    BY <2>1, AnswersAgain
<1>8. s \in Seq(Pieces)
  BY <1>3 DEF FileTyped
<1> HIDE DEF n, m, x, y
<1>9. CASE StoresNothing(r) \/ Misses(t, r)
  <2>1. backlogFile' = backlogFile
    BY <1>9 DEF StoresNothing, Misses
  <2>2. ~ (r.kind = "llm" /\ t \in T)
    <3>1. StoresNothing(r) => r.kind # "llm"
      BY DEF StoresNothing, NoRec
    <3>2. Misses(t, r) => t \notin T
      BY DEF Misses
    <3>3. QED
      BY <1>9, <3>1, <3>2
  <2>3. Told(backlogFile'[f], T, x, y)
    BY <1>5, <1>7, <2>1, <2>2
  <2>4. QED
    BY <2>3 DEF x, y
<1>10. ASSUME NEW part \in {"whole", "head"}, Stores(t, new, r, part)
       PROVE  Told(backlogFile'[f], T, SumOver(AnsweredOf', T), SumOver(TokensOf', T))
  <2>1. r \in Records /\ r.turn = t
    BY <1>1, <1>10 DEF Stores
  <2>2. Grows(backlogFile, backlogFile', r, part)
    BY <1>10, <2>1, PutGrows DEF Stores
  <2> DEFINE p == Piece(r, part)
  <2>3. CASE FileOf(t) = f
    <3>1. p \in Pieces /\ p.of = r /\ backlogFile'[f] = Append(s, p)
      BY <2>1, <2>2, <2>3 DEF Grows
    <3> HIDE DEF p, s
    <3>2. /\ r.kind = "llm" /\ t \in T => Told(Append(s, p), T, n + 1, m + r.tokens)
          /\ ~ (r.kind = "llm" /\ t \in T) => Told(Append(s, p), T, n, m)
      BY <1>7, <1>8, <2>1, <3>1, AnswersGrow
    <3>3. Told(backlogFile'[f], T, x, y)
      BY <1>5, <3>1, <3>2
    <3>4. QED
      BY <3>3 DEF x, y
  <2>4. CASE FileOf(t) # f
    <3>1. backlogFile'[f] = s /\ t \notin T
      BY <1>4, <2>1, <2>2, <2>4 DEF Grows
    <3>2. Told(backlogFile'[f], T, x, y)
      BY <1>5, <1>7, <3>1
    <3>3. QED
      BY <3>2 DEF x, y
  <2>5. QED
    BY <2>3, <2>4
<1>11. QED
  BY <1>9, <1>10 DEF TurnSteps

LEMMA OtherStepsKeepAnswers ==
    ASSUME TurnEvidenceTypeOK, HalvesAreAwaited, TurnsFit, AnswersAreCounted,
           \/ \E w \in EvidenceWorkers : WriteTail(w) \/ LoseTail(w) \/ WorkerDies(w)
           \/ \E f \in BacklogFiles : SweepBacklog(f)
           \/ UNCHANGED evidenceVars
    PROVE  AnswersAreCounted'
<1>1. /\ evTurn \in [EvidenceTurns -> EvTurns] /\ FileTyped(backlogFile)
      /\ halfWritten \in [EvidenceWorkers -> Records \cup {NoRec}]
  BY TypesAgain
<1>2. ASSUME /\ backlogMode' = backlogMode /\ AnsweredOf' = AnsweredOf /\ TokensOf' = TokensOf
             /\ unwritten \subseteq unwritten' /\ erased \subseteq erased'
             /\ backlogFile' = backlogFile
      PROVE  AnswersAreCounted'
  <2> SUFFICES ASSUME backlogMode = "full", NEW f \in BacklogFiles,
                      NEW T \in SUBSET TurnsOf(f), T \cap (unwritten' \cup erased') = {}
               PROVE  Told(backlogFile[f], T, SumOver(AnsweredOf, T), SumOver(TokensOf, T))
    BY <1>2, AnswersLater
  <2>1. T \cap (unwritten \cup erased) = {}
    BY <1>2
  <2>2. QED
    BY <2>1, AnswersAgain
<1>3. ASSUME evTurn' = evTurn PROVE AnsweredOf' = AnsweredOf /\ TokensOf' = TokensOf
  BY <1>3 DEF AnsweredOf, TokensOf
<1>4. ASSUME NEW w \in EvidenceWorkers, WriteTail(w) PROVE AnswersAreCounted'
  <2> DEFINE r == halfWritten[w]
             p == Piece(r, "tail")
  <2>1. /\ r \in Records /\ r.kind = "result"
        /\ UNCHANGED <<backlogMode, evTurn, unwritten, erased>>
        /\ backlogFile' = [backlogFile EXCEPT ![FileOf(r.turn)] = Append(@, p)]
    BY <1>1, <1>4 DEF WriteTail, Put, HalvesAreAwaited
  <2>2. Grows(backlogFile, backlogFile', r, "tail")
    BY <2>1, PutGrows
  <2>3. AnsweredOf' = AnsweredOf /\ TokensOf' = TokensOf
    BY <1>3, <2>1
  <2> SUFFICES ASSUME backlogMode = "full", NEW f \in BacklogFiles,
                      NEW T \in SUBSET TurnsOf(f), T \cap (unwritten \cup erased) = {}
               PROVE  Told(backlogFile'[f], T, SumOver(AnsweredOf, T), SumOver(TokensOf, T))
    BY <2>1, <2>3, AnswersLater
  <2> DEFINE n == SumOver(AnsweredOf, T)
             m == SumOver(TokensOf, T)
             s == backlogFile[f]
  <2>4. Told(s, T, n, m) /\ s \in Seq(Pieces)
    BY <1>1, AnswersAgain DEF FileTyped
  <2> HIDE DEF n, m
  <2>5. CASE f = FileOf(r.turn)
    <3>1. p \in Pieces /\ p.of = r /\ backlogFile'[f] = Append(s, p)
      BY <2>2, <2>5 DEF Grows
    <3> HIDE DEF p, s, r
    <3>2. p.of.kind # "llm"
      BY <2>1, <3>1
    <3>3. Told(backlogFile'[f], T, n, m)
      BY <2>4, <3>1, <3>2, AnswersGrow
    <3>4. QED
      BY <3>3 DEF n, m
  <2>6. CASE f # FileOf(r.turn)
    <3>1. backlogFile'[f] = s
      BY <2>2, <2>6 DEF Grows
    <3>2. QED
      BY <2>4, <3>1 DEF n, m
  <2>7. QED
    BY <2>5, <2>6
<1>5. ASSUME NEW w \in EvidenceWorkers, LoseTail(w) PROVE AnswersAreCounted'
  <2>1. /\ UNCHANGED <<backlogMode, backlogFile, evTurn, erased>>
        /\ unwritten \subseteq unwritten'
    BY <1>5 DEF LoseTail
  <2>2. QED
    BY <1>2, <1>3, <2>1
<1>6. ASSUME NEW w \in EvidenceWorkers, WorkerDies(w) PROVE AnswersAreCounted'
  <2>1. /\ \A u \in EvidenceTurns : /\ evTurn'[u].tokens = evTurn[u].tokens
                                    /\ evTurn'[u].answered = evTurn[u].answered
        /\ UNCHANGED <<backlogMode, backlogFile, unwritten>>
    BY <1>6, DeathFacts
  <2>2. AnsweredOf' = AnsweredOf /\ TokensOf' = TokensOf
    BY <2>1 DEF AnsweredOf, TokensOf
  <2>3. erased \subseteq erased'
    BY <1>6 DEF WorkerDies
  <2>4. QED
    BY <1>2, <2>1, <2>2, <2>3
<1>7. ASSUME NEW g \in BacklogFiles, SweepBacklog(g) PROVE AnswersAreCounted'
  <2>1. /\ UNCHANGED <<backlogMode, evTurn, unwritten>>
        /\ erased' = erased \cup {t \in EvidenceTurns : evTurn[t].at # "new"}
        /\ backlogFile' = [backlogFile EXCEPT ![g] = << >>]
    BY <1>7 DEF SweepBacklog
  <2>2. /\ backlogFile'[g] = << >>
        /\ \A e \in BacklogFiles \ {g} : backlogFile'[e] = backlogFile[e]
    BY <1>1, <2>1 DEF FileTyped
  <2>3. AnsweredOf' = AnsweredOf /\ TokensOf' = TokensOf
    BY <1>3, <2>1
  <2> SUFFICES ASSUME backlogMode = "full", NEW f \in BacklogFiles,
                      NEW T \in SUBSET TurnsOf(f), T \cap (unwritten \cup erased') = {}
               PROVE  Told(backlogFile'[f], T, SumOver(AnsweredOf, T), SumOver(TokensOf, T))
    BY <2>1, <2>3, AnswersLater
  <2>4. T \subseteq EvidenceTurns
        /\ \A t \in T : evTurn[t].at = "new" /\ evTurn[t].answered = 0 /\ evTurn[t].tokens = 0
    BY <2>1 DEF TurnsOf, TurnsFit, CountsFit
  <2>5. CASE f = g
    <3>1. SumOver(AnsweredOf, T) = 0 /\ SumOver(TokensOf, T) = 0
      <4>1. \A t \in T : AnsweredOf[t] = 0 /\ TokensOf[t] = 0
        BY <2>4 DEF AnsweredOf, TokensOf
      <4>2. QED
        BY <2>4, <4>1, TurnsAreFinite, SumOfZeros
    <3>2. Answers(<< >>, T) = {}
      BY NothingIsUnread DEF Answers
    <3>3. Told(<< >>, T, 0, 0)
      BY <3>2, FS_EmptySet, SumOfNone DEF Told
    <3>4. QED
      BY <2>2, <2>5, <3>1, <3>3
  <2>6. CASE f # g
    <3>1. T \cap (unwritten \cup erased) = {}
      BY <2>1
    <3>2. QED
      BY <2>2, <2>6, <3>1, AnswersAgain
  <2>7. QED
    BY <2>5, <2>6
<1>8. ASSUME UNCHANGED evidenceVars PROVE AnswersAreCounted'
  BY <1>2, <1>3, <1>8 DEF evidenceVars
<1>9. QED
  BY <1>4, <1>5, <1>6, <1>7, <1>8

-----------------------------------------------------------------------------
LEMMA EvidenceStarts == TurnEvidenceInit => EvidenceInv
<1> SUFFICES ASSUME TurnEvidenceInit PROVE EvidenceInv
  OBVIOUS
<1> DEFINE w0 == CHOOSE w \in EvidenceWorkers : TRUE
<1>1. w0 \in EvidenceWorkers
  BY TurnEvidenceAssumption
<1> HIDE DEF w0
<1>2. /\ backlogMode \in BacklogModes
      /\ backlogFile = [f \in BacklogFiles |-> << >>]
      /\ halfWritten = [w \in EvidenceWorkers |-> NoRec]
      /\ evTurn = [t \in EvidenceTurns |-> [at |-> "new", worker |-> w0, calls |-> 0,
                                            tokens |-> 0, answered |-> 0]]
      /\ llmCalls = [w \in EvidenceWorkers |-> 0]
      /\ evFaults = 0 /\ unwritten = {} /\ erased = {}
  BY DEF TurnEvidenceInit, w0
<1>3. << >> \in Seq(Pieces) /\ DOMAIN << >> = {}
  BY EmptySeq, NothingIsUnread
<1>4. TurnEvidenceTypeOK
  <2>1. evTurn \in [EvidenceTurns -> EvTurns]
    BY <1>1, <1>2 DEF EvTurns, Places
  <2>2. FileTyped(backlogFile)
    BY <1>2, <1>3 DEF FileTyped
  <2>3. \A t \in EvidenceTurns : evTurn[t].calls <= MaxCompletionsOf[t]
    BY <1>2, TurnEvidenceAssumption
  <2>4. evFaults \in 0 .. MaxEvidenceFaults
    BY <1>2, TurnEvidenceAssumption
  <2>5. QED
    BY <1>2, <2>1, <2>2, <2>3, <2>4, TypesAgain
<1>5. PartsFit /\ HalvesAreAwaited
  BY <1>2, <1>3 DEF PartsFit, HalvesAreAwaited
<1>6. TurnsFit
  BY <1>2 DEF TurnsFit, CountsFit
<1>7. \A f \in BacklogFiles : TearsAreCounted(f)
  <2> SUFFICES ASSUME NEW f \in BacklogFiles PROVE TearsAreCounted(f)
    OBVIOUS
  <2>1. ~ BeingWritten(f) /\ backlogFile[f] = << >>
    BY <1>2 DEF BeingWritten
  <2>2. QED
    BY <1>2, <2>1, NothingIsUnread DEF TearsAreCounted
<1>8. SeriesCountEveryAnswer
  <2> SUFFICES ASSUME NEW w \in EvidenceWorkers
               PROVE  llmCalls[w] = SumOver(AnsweredOf, CountedBy(w))
    BY SeriesAgain
  <2> DEFINE S == CountedBy(w)
  <2>1. S \subseteq EvidenceTurns /\ \A t \in S : AnsweredOf[t] = 0
    BY <1>2 DEF CountedBy, AnsweredOf
  <2> HIDE DEF S
  <2>2. SumOver(AnsweredOf, S) = 0
    BY <2>1, TurnsAreFinite, SumOfZeros
  <2>3. QED
    BY <1>2, <2>2 DEF S
<1>9. TurnsAreRecorded
  <2> SUFFICES ASSUME NEW t \in EvidenceTurns
               PROVE  TurnIsRecorded(backlogFile[FileOf(t)], t, evTurn[t])
    BY DEF TurnsAreRecorded
  <2>1. backlogFile[FileOf(t)] = << >> /\ evTurn[t].at = "new"
    BY <1>2, FilesAreFiles
  <2>2. QED
    BY <2>1, NothingIsRecorded
<1>10. AnswersAreCounted
  <2> SUFFICES ASSUME NEW f \in BacklogFiles, NEW T \in SUBSET TurnsOf(f)
               PROVE  Told(backlogFile[f], T, SumOver(AnsweredOf, T), SumOver(TokensOf, T))
    BY AnswersAgain
  <2>1. T \subseteq EvidenceTurns /\ \A t \in T : AnsweredOf[t] = 0 /\ TokensOf[t] = 0
    BY <1>2 DEF TurnsOf, AnsweredOf, TokensOf
  <2>2. SumOver(AnsweredOf, T) = 0 /\ SumOver(TokensOf, T) = 0
    BY <2>1, TurnsAreFinite, SumOfZeros
  <2>3. Answers(<< >>, T) = {}
    BY NothingIsUnread DEF Answers
  <2>4. Told(<< >>, T, 0, 0)
    BY <2>3, FS_EmptySet, SumOfNone DEF Told
  <2>5. backlogFile[f] = << >>
    BY <1>2
  <2>6. QED
    BY <2>2, <2>4, <2>5
<1>11. QED
  BY <1>4, <1>5, <1>6, <1>7, <1>8, <1>9, <1>10 DEF EvidenceInv

LEMMA EvidenceSteps ==
    EvidenceInv /\ [TurnEvidenceNext]_evidenceVars => EvidenceInv'
<1> SUFFICES ASSUME EvidenceInv, [TurnEvidenceNext]_evidenceVars PROVE EvidenceInv'
  OBVIOUS
<1>1. /\ TurnEvidenceTypeOK /\ PartsFit /\ HalvesAreAwaited /\ TurnsFit
      /\ \A f \in BacklogFiles : TearsAreCounted(f)
      /\ SeriesCountEveryAnswer /\ TurnsAreRecorded /\ AnswersAreCounted
  BY DEF EvidenceInv
<1>2. ASSUME NEW t \in EvidenceTurns, NEW new, NEW r, TurnSteps(t, new, r) PROVE EvidenceInv'
  <2>1. TurnEvidenceTypeOK'
    BY <1>1, <1>2, StepKeepsTypes
  <2>2. PartsFit' /\ HalvesAreAwaited' /\ TurnsFit'
    BY <1>1, <1>2, StepKeepsShape
  <2>3. ASSUME NEW f \in BacklogFiles PROVE TearsAreCounted(f)'
    BY <1>1, <1>2, <2>1, <2>2, StepKeepsTears
  <2>4. SeriesCountEveryAnswer'
    BY <1>1, <1>2, StepKeepsSeries
  <2>5. TurnsAreRecorded'
    BY <1>1, <1>2, StepKeepsRecorded
  <2>6. AnswersAreCounted'
    BY <1>1, <1>2, StepKeepsAnswers
  <2>7. QED
    BY <2>1, <2>2, <2>3, <2>4, <2>5, <2>6 DEF EvidenceInv
<1>3. ASSUME \/ \E w \in EvidenceWorkers : WriteTail(w) \/ LoseTail(w) \/ WorkerDies(w)
             \/ \E f \in BacklogFiles : SweepBacklog(f)
             \/ UNCHANGED evidenceVars
      PROVE  EvidenceInv'
  <2>1. TurnEvidenceTypeOK'
    BY <1>1, <1>3, OtherStepsKeepTypes
  <2>2. PartsFit' /\ HalvesAreAwaited' /\ TurnsFit'
    BY <1>1, <1>3, OtherStepsKeepShape
  <2>3. ASSUME NEW f \in BacklogFiles PROVE TearsAreCounted(f)'
    BY <1>1, <1>3, <2>1, <2>2, OtherStepsKeepTears
  <2>4. SeriesCountEveryAnswer'
    BY <1>1, <1>3, OtherStepsKeepSeries
  <2>5. TurnsAreRecorded'
    BY <1>1, <1>3, OtherStepsKeepRecorded
  <2>6. AnswersAreCounted'
    BY <1>1, <1>3, OtherStepsKeepAnswers
  <2>7. QED
    BY <2>1, <2>2, <2>3, <2>4, <2>5, <2>6 DEF EvidenceInv
<1>4. QED
  BY <1>1, <1>2, <1>3, NextIsAStep

-----------------------------------------------------------------------------
LEMMA TearsStayLocal == EvidenceInv => TearsAreLocal
<1> DEFINE Writers(f) == {evTurn[t].worker : t \in {u \in EvidenceTurns :
                                                        FileOf(u) = f /\ evTurn[u].at # "new"}}
           Halves == {w \in EvidenceWorkers : halfWritten[w] # NoRec}
<1> SUFFICES ASSUME EvidenceInv, NEW f \in BacklogFiles, Cardinality(Writers(f)) <= 1
             PROVE  Unread(f) <= 2 * evFaults + Cardinality(Halves)
  BY DEF TearsAreLocal
<1>1. /\ evTurn \in [EvidenceTurns -> EvTurns] /\ evFaults \in Nat
      /\ FileTyped(backlogFile) /\ TearsAreCounted(f)
  BY TypesAgain DEF EvidenceInv
<1> DEFINE s == backlogFile[f]
<1>2. s \in Seq(Pieces) /\ Unread(f) = UnreadIn(s)
  BY <1>1 DEF FileTyped, Unread, UnreadIn, ReadRecords
<1>3. UnreadIn(s) \in Int
  <2>1. Begun(s) \subseteq DOMAIN s /\ RecordsIn(s) \subseteq DOMAIN s
    BY DEF Begun, RecordsIn
  <2>2. QED
    BY <1>2, <2>1, PlacesAreFinite DEF UnreadIn
<1>4. OneWriter(f)
  <2> SUFFICES ASSUME NEW t \in EvidenceTurns, NEW u \in EvidenceTurns,
                      FileOf(t) = f, evTurn[t].at # "new", FileOf(u) = f, evTurn[u].at # "new",
                      evTurn[t].worker # evTurn[u].worker
               PROVE  FALSE
    BY DEF OneWriter
  <2> DEFINE W == Writers(f)
             a == evTurn[t].worker
             b == evTurn[u].worker
  <2>1. W \subseteq EvidenceWorkers /\ a \in W /\ b \in W /\ a # b
    BY <1>1 DEF EvTurns
  <2> HIDE DEF W, a, b
  <2>2. IsFiniteSet(W) /\ Cardinality(W) \in Nat
    BY <2>1, TurnEvidenceAssumption, FS_Subset, FS_CardinalityType
  <2>3. /\ IsFiniteSet(W \ {a}) /\ Cardinality(W \ {a}) = Cardinality(W) - 1
        /\ Cardinality((W \ {a}) \ {b}) = Cardinality(W \ {a}) - 1
        /\ Cardinality((W \ {a}) \ {b}) \in Nat
    <3>1. b \in W \ {a}
      BY <2>1
    <3>2. QED
      BY <2>1, <2>2, <3>1, FS_RemoveElement, FS_CardinalityType
  <2>4. Cardinality(W) <= 1
    BY DEF W
  <2>5. QED
    BY <2>2, <2>3, <2>4
<1>5. Halves \subseteq EvidenceWorkers
  OBVIOUS
<1> HIDE DEF Halves, s
<1>6. IsFiniteSet(Halves) /\ Cardinality(Halves) \in Nat
  BY <1>5, TurnEvidenceAssumption, FS_Subset, FS_CardinalityType
<1>7. CASE BeingWritten(f)
  <2>1. UnreadIn(s) <= 2 * evFaults + 1
    BY <1>1, <1>3, <1>4, <1>7 DEF TearsAreCounted, s
  <2>2. Halves # {}
    BY <1>7 DEF BeingWritten, Halves
  <2>3. Cardinality(Halves) >= 1
    BY <1>6, <2>2, FS_EmptySet
  <2>4. QED
    BY <1>1, <1>2, <1>3, <1>6, <2>1, <2>3
<1>8. CASE ~ BeingWritten(f)
  <2>1. UnreadIn(s) <= 2 * evFaults
    BY <1>1, <1>3, <1>4, <1>8 DEF TearsAreCounted, s
  <2>2. QED
    BY <1>1, <1>2, <1>3, <1>6, <2>1
<1>9. QED
  BY <1>7, <1>8

\* The completions of a file of which all is read are what is read of that kind.
LEMMA AnswersAreRead ==
    ASSUME EvidenceInv, NEW f \in BacklogFiles, UnreadIn(backlogFile[f]) = 0,
           NEW T, NEW S, S \subseteq RecordsIn(backlogFile[f]),
           \A i \in RecordsIn(backlogFile[f]) :
               i \in S <=> /\ backlogFile[f][i].of.kind = "llm"
                          /\ backlogFile[f][i].of.turn \in T
    PROVE  S = Answers(backlogFile[f], T)
<1> DEFINE s == backlogFile[f]
<1>1. s \in Seq(Pieces)
  BY TypesAgain DEF EvidenceInv, FileTyped
<1>2. \A i \in Begun(s) : EndOf(s, i) \in RecordsIn(s)
  BY <1>1, AllAreRead
<1>3. \A i \in DOMAIN s : s[i].of.kind = "llm" => s[i].part = "whole"
  BY DEF EvidenceInv, PartsFit
<1>4. RecordsIn(s) \subseteq DOMAIN s
  BY DEF RecordsIn
<1> HIDE DEF s
<1>5. \A i \in DOMAIN s : s[i].of.kind = "llm" => i \in RecordsIn(s)
  <2> SUFFICES ASSUME NEW i \in DOMAIN s, s[i].of.kind = "llm" PROVE i \in RecordsIn(s)
    OBVIOUS
  <2>1. i \in Begun(s) /\ EndOf(s, i) = i
    BY <1>3 DEF Begun, EndOf
  <2>2. QED
    BY <1>2, <2>1
<1>6. QED
  BY <1>4, <1>5 DEF Answers, s

LEMMA StatsStayUp == EvidenceInv => StatsAddUp
<1> SUFFICES ASSUME EvidenceInv, NEW f \in BacklogFiles, backlogMode = "full", Unread(f) = 0,
                    TurnsOf(f) \cap (unwritten \cup erased) = {}
             PROVE  /\ SessionStats(f).calls = SumOver(AnsweredOf, TurnsOf(f))
                    /\ SessionStats(f).tokens = SumOver(TokensOf, TurnsOf(f))
  BY DEF StatsAddUp, TurnsOf, AnsweredOf, TokensOf
<1> DEFINE s == backlogFile[f]
           S == {i \in ReadRecords(f) : s[i].of.kind = "llm"}
<1>1. /\ s \in Seq(Pieces) /\ \A i \in DOMAIN s : FileOf(s[i].of.turn) = f
  BY TypesAgain DEF EvidenceInv, FileTyped
<1>2. UnreadIn(s) = 0 /\ ReadRecords(f) = RecordsIn(s)
  BY DEF Unread, UnreadIn, ReadRecords
<1>3. \A i \in DOMAIN s : s[i].of.turn \in TurnsOf(f)
  <2>1. \A i \in DOMAIN s : s[i] \in Pieces
    BY <1>1, ElementOfSeq, LenProperties
  <2>2. \A i \in DOMAIN s : s[i].of.turn \in EvidenceTurns
    BY <2>1 DEF Pieces, Records
  <2>3. QED
    BY <1>1, <2>2 DEF TurnsOf
<1>4. S \subseteq RecordsIn(s)
      /\ \A i \in RecordsIn(s) : i \in S <=> s[i].of.kind = "llm" /\ s[i].of.turn \in TurnsOf(f)
  <2>1. RecordsIn(s) \subseteq DOMAIN s
    BY DEF RecordsIn
  <2>2. QED
    BY <1>2, <1>3, <2>1
<1>5. S = Answers(s, TurnsOf(f))
  <2> DEFINE R == S
  <2> HIDE DEF R
  <2>1. R \subseteq RecordsIn(s)
        /\ \A i \in RecordsIn(s) : i \in R <=> s[i].of.kind = "llm" /\ s[i].of.turn \in TurnsOf(f)
    BY <1>4 DEF R
  <2>2. R = Answers(s, TurnsOf(f))
    BY <1>2, <2>1, AnswersAreRead
  <2>3. QED
    BY <2>2 DEF R
<1>6. Told(s, TurnsOf(f), SumOver(AnsweredOf, TurnsOf(f)), SumOver(TokensOf, TurnsOf(f)))
  BY AnswersAgain DEF EvidenceInv
<1>7. SessionStats(f) = [calls |-> Cardinality(S), tokens |-> SumOver(TokensAt(s), S)]
  BY DEF SessionStats
<1> HIDE DEF s, S
<1>8. QED
  BY <1>5, <1>6, <1>7 DEF Told

\* What is read of a turn, by where it begins.
ReadOf(s, t) == {i \in RecordsIn(s) : s[i].of.turn = t}
ReadOfKind(s, t, kind) == {i \in ReadOf(s, t) : s[i].of.kind = kind}

LEMMA ReadAsBegun ==
    ASSUME NEW s \in Seq(Pieces), UnreadIn(s) = 0, NEW t
    PROVE  /\ ReadOf(s, t) = {EndOf(s, i) : i \in Own(s, t)}
           /\ \A kind : ReadOfKind(s, t, kind) = {EndOf(s, i) : i \in OwnOf(s, t, kind)}
           /\ \A i, j \in Own(s, t) :
                  /\ EndOf(s, i) \in Int /\ i \in Int
                  /\ i < j => EndOf(s, i) < EndOf(s, j)
                  /\ i <= j => EndOf(s, i) <= EndOf(s, j)
           /\ \A i \in Own(s, t) : s[EndOf(s, i)].of = s[i].of
<1>1. /\ \A i \in Begun(s) : EndOf(s, i) \in RecordsIn(s) /\ s[EndOf(s, i)].of = s[i].of
      /\ \A e \in RecordsIn(s) : \E i \in Begun(s) : EndOf(s, i) = e
      /\ \A i, j \in Begun(s) : i < j => EndOf(s, i) < EndOf(s, j)
  BY AllAreRead
<1>2. Own(s, t) \subseteq Begun(s) /\ \A i \in Begun(s) : i \in Int
  BY LenProperties DEF Own, Begun
<1>3. \A i \in Begun(s) : EndOf(s, i) \in Int
  BY <1>2 DEF EndOf
<1>4. ReadOf(s, t) = {EndOf(s, i) : i \in Own(s, t)}
  BY <1>1 DEF ReadOf, Own
<1>5. ASSUME NEW kind
      PROVE  ReadOfKind(s, t, kind) = {EndOf(s, i) : i \in OwnOf(s, t, kind)}
  BY <1>1, <1>2, <1>4 DEF ReadOfKind, OwnOf
<1>6. \A i, j \in Own(s, t) : i <= j => EndOf(s, i) <= EndOf(s, j)
  <2> SUFFICES ASSUME NEW i \in Own(s, t), NEW j \in Own(s, t), i <= j
               PROVE  EndOf(s, i) <= EndOf(s, j)
    OBVIOUS
  <2>1. EndOf(s, i) \in Int /\ EndOf(s, j) \in Int /\ i \in Int /\ j \in Int
    BY <1>2, <1>3
  <2>2. i = j \/ i < j
    BY <2>1
  <2>3. CASE i = j
    BY <2>1, <2>3
  <2>4. CASE i < j
    BY <1>1, <1>2, <2>1, <2>4
  <2>5. QED
    BY <2>2, <2>3, <2>4
<1>7. QED
  BY <1>1, <1>2, <1>3, <1>4, <1>5, <1>6

LEMMA SingletonSum ==
    ASSUME NEW f, NEW a, f[a] \in Int PROVE SumOver(f, {a}) = f[a]
<1>1. SumOver(f, {}) = 0 /\ IsFiniteSet({}) /\ {} \cup {a} = {a} /\ a \notin {}
  BY SumOfNone, FS_EmptySet
<1>2. \A x \in {} \cup {a} : f[x] \in Int
  OBVIOUS
<1>3. SumOver(f, {} \cup {a}) = f[a] + SumOver(f, {})
  BY <1>1, <1>2, SumAdds
<1>4. SumOver(f, {a}) = f[a] + 0
  BY <1>1, <1>3
<1>5. QED
  BY <1>4

LEMMA TurnStaysEvident == EvidenceInv => EvidenceIsTheTurn
<1> SUFFICES ASSUME EvidenceInv, NEW t \in EvidenceTurns, t \notin unwritten, t \notin erased,
                    backlogMode = "full", evTurn[t].at = "over", Unread(FileOf(t)) = 0
             PROVE  LET file     == backlogFile[FileOf(t)]
                        Of(kind) == {i \in RecordsOf(t) : file[i].of.kind = kind}
                    IN  \E first, last \in RecordsOf(t) :
                           /\ \A i \in RecordsOf(t) : first <= i /\ i <= last
                           /\ Of("start") = {first} /\ Of("end") = {last}
                           /\ Cardinality(Of("error")) <= 1
                           /\ file[last].of.tokens = SumOver(TokensAt(file), Of("llm"))
                           /\ file[last].of.calls - Cardinality(Of("llm"))
                                  \in 0 .. Cardinality(Of("error"))
                           /\ \A i \in Of("result") : \E j \in Of("call") :
                                  j < i /\ ~ \E k \in RecordsOf(t) : j < k /\ k < i
  BY DEF EvidenceIsTheTurn
<1> DEFINE f == FileOf(t)
           s == backlogFile[f]
           e == evTurn[t]
           Read == ReadOf(s, t)
           Of(kind) == ReadOfKind(s, t, kind)
<1>1. /\ f \in BacklogFiles /\ s \in Seq(Pieces) /\ e \in EvTurns
  BY FilesAreFiles, TypesAgain DEF EvidenceInv, FileTyped
<1>2. UnreadIn(s) = 0 /\ RecordsOf(t) = Read
      /\ \A kind : {i \in RecordsOf(t) : backlogFile[FileOf(t)][i].of.kind = kind} = Of(kind)
  BY DEF Unread, UnreadIn, ReadRecords, RecordsOf, ReadOf, ReadOfKind
<1>3. TurnIsRecorded(s, t, e) /\ e.at = "over" /\ CountsFit(e)
  BY DEF EvidenceInv, TurnsAreRecorded, TurnsFit
<1>4. /\ Read = {EndOf(s, i) : i \in Own(s, t)}
      /\ \A kind : Of(kind) = {EndOf(s, i) : i \in OwnOf(s, t, kind)}
      /\ \A i, j \in Own(s, t) :
             /\ EndOf(s, i) \in Int /\ i \in Int
             /\ i < j => EndOf(s, i) < EndOf(s, j)
             /\ i <= j => EndOf(s, i) <= EndOf(s, j)
      /\ \A i \in Own(s, t) : s[EndOf(s, i)].of = s[i].of
  BY <1>1, <1>2, ReadAsBegun
<1>5. Told(s, {t}, e.answered, e.tokens) /\ e.tokens \in Nat /\ e.answered \in Nat
  <2>1. Told(s, {t}, SumOver(AnsweredOf, {t}), SumOver(TokensOf, {t}))
    <3>1. {t} \in SUBSET TurnsOf(f) /\ {t} \cap (unwritten \cup erased) = {}
      BY DEF TurnsOf
    <3>2. AnswersAreCounted
      BY DEF EvidenceInv
    <3>3. QED
      BY <1>1, <3>1, <3>2, AnswersAgain
  <2>2. AnsweredOf[t] = e.answered /\ TokensOf[t] = e.tokens
        /\ e.answered \in Nat /\ e.tokens \in Nat
    BY <1>1 DEF AnsweredOf, TokensOf, EvTurns
  <2>3. SumOver(AnsweredOf, {t}) = e.answered /\ SumOver(TokensOf, {t}) = e.tokens
    BY <2>2, SingletonSum
  <2>4. QED
    BY <2>1, <2>2, <2>3
<1>6. Of("llm") = Answers(s, {t})
  <2> DEFINE S == Of("llm")
  <2>1. S \subseteq RecordsIn(s)
        /\ \A i \in RecordsIn(s) : i \in S <=> s[i].of.kind = "llm" /\ s[i].of.turn \in {t}
    BY DEF ReadOfKind, ReadOf
  <2> HIDE DEF S
  <2>2. S = Answers(s, {t})
    BY <1>1, <1>2, <2>1, AnswersAreRead
  <2>3. QED
    BY <2>2 DEF S
<1> HIDE DEF s, e, Read, Of, f
<1>7. PICK a \in Own(s, t) :
          OwnOf(s, t, "start") = {a} /\ \A i \in Own(s, t) : a <= i
  BY <1>3 DEF TurnIsRecorded
<1>8. PICK z \in Own(s, t) :
          /\ OwnOf(s, t, "end") = {z} /\ \A i \in Own(s, t) : i <= z
          /\ s[z].of.calls = e.calls /\ s[z].of.tokens = e.tokens
  BY <1>3 DEF TurnIsRecorded
<1> DEFINE first == EndOf(s, a)
           last == EndOf(s, z)
<1>9. first \in Read /\ last \in Read /\ Of("start") = {first} /\ Of("end") = {last}
      /\ \A i \in Read : first <= i /\ i <= last
  BY <1>4, <1>7, <1>8
<1>10. s[last].of.calls = e.calls /\ s[last].of.tokens = e.tokens
  BY <1>4, <1>8
<1>11. /\ IsFiniteSet(Of("error")) /\ Cardinality(Of("error")) \in Nat
       /\ Cardinality(Of("error")) <= 1
       /\ e.calls # e.answered => Cardinality(Of("error")) = 1
  <2>1. \A i, j \in OwnOf(s, t, "error") : i = j
    BY <1>3 DEF TurnIsRecorded
  <2>2. e.calls # e.answered => OwnOf(s, t, "error") # {}
    BY <1>3 DEF TurnIsRecorded
  <2>3. CASE OwnOf(s, t, "error") = {}
    <3>1. Of("error") = {}
      BY <1>4, <2>3
    <3>2. IsFiniteSet({}) /\ Cardinality({}) = 0
      BY FS_EmptySet
    <3>3. QED
      BY <2>2, <2>3, <3>1, <3>2
  <2>4. CASE OwnOf(s, t, "error") # {}
    <3>1. PICK i \in OwnOf(s, t, "error") : TRUE
      BY <2>4
    <3>2. OwnOf(s, t, "error") = {i}
      BY <2>1, <3>1
    <3>3. Of("error") = {EndOf(s, i)}
      BY <1>4, <3>2
    <3> DEFINE c == EndOf(s, i)
    <3> HIDE DEF c
    <3>4. IsFiniteSet({c}) /\ Cardinality({c}) = 1
      BY FS_Singleton
    <3>5. Of("error") = {c}
      BY <3>3 DEF c
    <3>6. QED
      BY <3>4, <3>5
  <2>5. QED
    BY <2>3, <2>4
<1>12. Cardinality(Of("llm")) = e.answered /\ SumOver(TokensAt(s), Of("llm")) = e.tokens
  BY <1>5, <1>6 DEF Told
<1>13. s[last].of.calls - Cardinality(Of("llm")) \in 0 .. Cardinality(Of("error"))
  <2>1. e.calls \in Nat /\ e.answered \in Nat /\ e.answered <= e.calls /\ e.calls <= e.answered + 1
    BY <1>1, <1>3 DEF EvTurns, CountsFit
  <2>2. QED
    BY <1>10, <1>11, <1>12, <2>1
<1>14. \A i \in Of("result") : \E j \in Of("call") :
           j < i /\ ~ \E k \in Read : j < k /\ k < i
  <2> SUFFICES ASSUME NEW i \in Of("result")
               PROVE  \E j \in Of("call") : j < i /\ ~ \E k \in Read : j < k /\ k < i
    OBVIOUS
  <2>1. PICK x \in OwnOf(s, t, "result") : i = EndOf(s, x)
    BY <1>4
  <2>2. PICK y \in OwnOf(s, t, "call") :
            y < x /\ \A k \in Own(s, t) : k <= y \/ x <= k
    BY <1>3 DEF TurnIsRecorded
  <2>3. x \in Own(s, t) /\ y \in Own(s, t)
    BY DEF OwnOf
  <2>4. EndOf(s, y) \in Of("call") /\ EndOf(s, y) < i
    BY <1>4, <2>1, <2>2, <2>3
  <2>5. ASSUME NEW k \in Read, EndOf(s, y) < k, k < i PROVE FALSE
    <3>1. PICK c \in Own(s, t) : k = EndOf(s, c)
      BY <1>4
    <3>2. CASE c <= y
      BY <1>4, <2>3, <2>5, <3>1, <3>2
    <3>3. CASE x <= c
      BY <1>4, <2>1, <2>3, <2>5, <3>1, <3>3
    <3>4. QED
      BY <2>2, <3>1, <3>2, <3>3
  <2>6. QED
    BY <2>4, <2>5
<1> HIDE DEF first, last
<1>15. /\ first \in Read /\ last \in Read
       /\ \A i \in Read : first <= i /\ i <= last
       /\ Of("start") = {first} /\ Of("end") = {last}
       /\ Cardinality(Of("error")) <= 1
       /\ s[last].of.tokens = SumOver(TokensAt(s), Of("llm"))
       /\ s[last].of.calls - Cardinality(Of("llm")) \in 0 .. Cardinality(Of("error"))
       /\ \A i \in Of("result") : \E j \in Of("call") :
              j < i /\ ~ \E k \in Read : j < k /\ k < i
  BY <1>9, <1>10, <1>11, <1>12, <1>13, <1>14
<1>16. QED
  BY <1>2, <1>15 DEF f, s

\* The evidence of the turns is true.
THEOREM EvidenceIsTrueAlways == TurnEvidenceSpec => []EvidenceIsTrue
<1>1. EvidenceInv => EvidenceIsTrue
  <2>1. EvidenceInv => TurnEvidenceTypeOK /\ SeriesCountEveryAnswer
    BY DEF EvidenceInv
  <2>2. QED
    BY <2>1, TearsStayLocal, TurnStaysEvident, StatsStayUp DEF EvidenceIsTrue
<1>2. QED
  BY <1>1, EvidenceStarts, EvidenceSteps, PTL DEF TurnEvidenceSpec
=============================================================================
