------------------------------ MODULE AgentStore ------------------------------
(***************************************************************************)
(* The agents' table of the api-service: agent_repository.py and           *)
(* server/routes/agents.py.  Several worker processes open one SQLite      *)
(* file.  Each fixed its ENCRYPTION_KEY when it started and each has a     *)
(* lock of its own, so within a process one request is in the store at a    *)
(* time and between processes only single statements and transactions are  *)
(* atomic: an update reads its row outside the transaction it writes in.   *)
(*                                                                         *)
(* Of a row only the secret of its llm_config is kept, with the key that   *)
(* encrypted it.  An update that gives no llm_config is one of the other   *)
(* columns.                                                                *)
(***************************************************************************)
EXTENDS Naturals, FiniteSets

CONSTANTS
    StoreWorkers,   \* processes of the api-service
    AgentNames,
    Secrets,        \* API keys of providers
    MaxStarts,      \* bound: starts of processes
    CipherKeys,     \* values of ENCRYPTION_KEY
    NoCipher,       \* no key, or an invalid one: values are kept as plaintext
    Masked,         \* what a reader without X-Full-Keys is shown for a secret
    Absent          \* no such value

ASSUME AgentStoreAssumption ==
    /\ IsFiniteSet(CipherKeys)
    /\ NoCipher \notin CipherKeys
    /\ Masked \notin Secrets /\ Absent \notin Secrets /\ Masked # Absent
    /\ MaxStarts \in Nat

VARIABLES
    agents,      \* the rows of the file
    procs,       \* each process: its phase, its key and the request inside
    used,        \* history: the keys processes were started with
    starts,      \* how many starts there were
    mixed,       \* history: a process without a key ran beside one with a key
    raced,       \* history: rows written over by a process that had read an older one
    acked        \* history: the values last acknowledged, per row

agentVars == <<agents, procs, used, starts, mixed, raced, acked>>

-----------------------------------------------------------------------------
NoValue == [cipher |-> NoCipher, secret |-> Absent]
NoRow   == [row |-> FALSE, llm |-> NoValue]
Values  == [cipher : CipherKeys \cup {NoCipher}, secret : Secrets \cup {Masked, Absent}]
Rows    == [row : BOOLEAN, llm : Values]

NoRequest ==
    [at |-> "idle", name |-> Absent, llm |-> Absent, rows |-> << >>]
Down == [phase |-> "down", key |-> NoCipher, job |-> NoRequest]

IsSet(value)     == value.secret # Absent
IsPlain(value)   == IsSet(value) /\ value.cipher = NoCipher
Encrypt(k, s)    == IF s = Absent THEN NoValue ELSE [cipher |-> k, secret |-> s]

\* A process without a key takes any stored string as it is, one with a key reads what
\* its key wrote and nothing else.
Decrypts(k, value) == k = NoCipher \/ value.cipher = k

\* The config a reader makes of it: a ciphertext taken for plaintext is no JSON.
Read(k, value) == IF value.cipher = k THEN value.secret ELSE Absent

\* What an update that gives no llm_config writes back.
Carry(k, value) == Encrypt(k, Read(k, value))

\* The reply of a read, and the check of a request that may hold such a reply.
MaskSecret(s)       == IF s = Absent THEN Absent ELSE Masked
MaskAgent(a, full)  == IF full THEN a ELSE [a EXCEPT !.llm = MaskSecret(@)]
ShownBy(w, n, full) ==
    MaskAgent([agents[n] EXCEPT !.llm = Read(procs[w].key, @)], full)
IsMasked(s) == s = Masked

-----------------------------------------------------------------------------
Up(w)      == procs[w].phase = "up"
Ready(w)    == Up(w) /\ procs[w].job = NoRequest
Alive(w)   == procs[w].phase # "down"

LlmRows == {n \in AgentNames : agents[n].row /\ IsSet(agents[n].llm)}

\* The constructor up to its SELECT of plaintext rows.  Without a key it may start only
\* while no row has an llm_config.
StartBlind(w) ==
    /\ LlmRows = {}
    /\ procs' = [procs EXCEPT ![w] = [phase |-> "up", key |-> NoCipher, job |-> NoRequest]]

StartKeyed(w, k) ==
    procs' = [procs EXCEPT ![w] =
                [phase |-> "migrating", key |-> k,
                 job |-> [NoRequest EXCEPT !.at = "rows", !.rows = agents]]]

Start(w, k) ==
    /\ ~Alive(w) /\ starts < MaxStarts
    /\ starts' = starts + 1
    /\ IF k = NoCipher THEN StartBlind(w) ELSE StartKeyed(w, k)
    /\ used' = used \cup {k}
    /\ mixed' = \/ mixed
                 \/ \E v \in StoreWorkers :
                      Alive(v) /\ (procs[v].key = NoCipher) # (k = NoCipher)
    /\ UNCHANGED <<agents, raced, acked>>

\* Every plaintext row that was selected is encrypted in one transaction; a row that went
\* away meanwhile is not touched, one that changed is written over.
ToMigrate(rows) == {n \in AgentNames : rows[n].row /\ IsPlain(rows[n].llm)}

Migrate(w) ==
    /\ procs[w].phase = "migrating"
    /\ LET k    == procs[w].key
           rows == procs[w].job.rows
           now  == {n \in ToMigrate(rows) : agents[n].row}
       IN /\ agents' = [n \in AgentNames |->
                          IF n \in now
                          THEN [agents[n] EXCEPT !.llm = Encrypt(k, rows[n].llm.secret)]
                          ELSE agents[n]]
          /\ raced' = raced \cup {n \in now : agents[n].llm # rows[n].llm}
    /\ procs' = [procs EXCEPT ![w] = [@ EXCEPT !.phase = "validating", !.job = NoRequest]]
    /\ UNCHANGED <<used, starts, mixed, acked>>

\* A ciphertext its key does not open stops the start.
Unreadable(k) == {n \in LlmRows : agents[n].llm.cipher \notin {NoCipher, k}}

Validate(w) ==
    /\ procs[w].phase = "validating"
    /\ procs' = [procs EXCEPT ![w] = IF Unreadable(@.key) = {}
                                     THEN [@ EXCEPT !.phase = "up"] ELSE Down]
    /\ UNCHANGED <<agents, used, starts, mixed, raced, acked>>

Crash(w) ==
    /\ Alive(w)
    /\ procs' = [procs EXCEPT ![w] = Down]
    /\ UNCHANGED <<agents, used, starts, mixed, raced, acked>>

-----------------------------------------------------------------------------
\* A masked llm key that is written back is refused with 400.
Accepted(llm) == ~IsMasked(llm)

CreateAgent(w, n, llm) ==
    /\ Ready(w) /\ Accepted(llm)
    /\ ~agents[n].row
    /\ agents' = [agents EXCEPT ![n] = [row |-> TRUE, llm |-> Encrypt(procs[w].key, llm)]]
    /\ acked' = [acked EXCEPT ![n] = [row |-> TRUE, llm |-> llm]]
    /\ raced' = raced \ {n}
    /\ UNCHANGED <<procs, used, starts, mixed>>

\* The first half of an update: the row as it is.  It stops with 404 for no row, and when
\* the stored config cannot be carried over.
CanCarry(w, n, llm) ==
    llm = Absent /\ IsSet(agents[n].llm) => Decrypts(procs[w].key, agents[n].llm)

UpdateReads(w, n, llm) ==
    /\ Ready(w) /\ Accepted(llm)
    /\ agents[n].row /\ CanCarry(w, n, llm)
    /\ procs' = [procs EXCEPT ![w].job = [at |-> "update", name |-> n, llm |-> llm,
                                         rows |-> agents[n]]]
    /\ UNCHANGED <<agents, used, starts, mixed, raced, acked>>

\* The second half writes every column, the given ones and those it read.
Keep(given, old) == IF given = Absent THEN old ELSE given

UpdateWrites(w) ==
    /\ procs[w].job.at = "update"
    /\ LET job == procs[w].job
           n   == job.name
           k   == procs[w].key
           llm == IF job.llm = Absent THEN Carry(k, job.rows.llm) ELSE Encrypt(k, job.llm)
       IN /\ agents' = [agents EXCEPT ![n] =
                          IF @.row THEN [row |-> TRUE, llm |-> llm] ELSE @]
          /\ acked' = [acked EXCEPT ![n] =
                         IF @.row THEN [row |-> TRUE, llm |-> Keep(job.llm, @.llm)] ELSE @]
          /\ raced' = IF agents[n].row /\ agents[n] # job.rows THEN raced \cup {n}
                      ELSE raced
    /\ procs' = [procs EXCEPT ![w].job = NoRequest]
    /\ UNCHANGED <<used, starts, mixed>>

DeleteAgent(w, n) ==
    /\ Ready(w) /\ agents[n].row
    /\ agents' = [agents EXCEPT ![n] = NoRow]
    /\ acked' = [acked EXCEPT ![n] = [row |-> FALSE, llm |-> Absent]]
    /\ raced' = raced \ {n}
    /\ UNCHANGED <<procs, used, starts, mixed>>

-----------------------------------------------------------------------------
\* Rows of an older run: none, plaintext of one without a key, ciphertext of either key.
AgentStoreInit ==
    /\ agents \in [AgentNames -> {NoRow} \cup
                     {[row |-> TRUE, llm |-> Encrypt(k, s)] :
                        k \in CipherKeys \cup {NoCipher}, s \in Secrets}]
    /\ procs = [w \in StoreWorkers |-> Down]
    /\ used = {} /\ starts = 0 /\ mixed = FALSE /\ raced = {}
    /\ acked = [n \in AgentNames |-> [row |-> agents[n].row, llm |-> agents[n].llm.secret]]

AgentStoreNext ==
    \E w \in StoreWorkers :
        \/ \E k \in CipherKeys \cup {NoCipher} : Start(w, k)
        \/ Migrate(w)
        \/ Validate(w)
        \/ Crash(w)
        \/ UpdateWrites(w)
        \/ \E n \in AgentNames :
              \/ DeleteAgent(w, n)
              \/ \E llm \in Secrets \cup {Masked, Absent} :
                    \/ CreateAgent(w, n, llm)
                    \/ UpdateReads(w, n, llm)

AgentStoreSpec == AgentStoreInit /\ [][AgentStoreNext]_agentVars

-----------------------------------------------------------------------------
AgentStoreTypeOK ==
    /\ agents \in [AgentNames -> Rows]
    /\ \A w \in StoreWorkers :
         /\ procs[w].phase \in {"down", "migrating", "validating", "up"}
         /\ procs[w].key \in CipherKeys \cup {NoCipher}
         /\ procs[w].job.at \in {"idle", "rows", "update"}
    /\ starts \in 0..MaxStarts
    /\ used \subseteq CipherKeys \cup {NoCipher}
    /\ mixed \in BOOLEAN /\ raced \subseteq AgentNames
    /\ \A n \in AgentNames : acked[n].row \in BOOLEAN

\* A row is there exactly when the last acknowledged request says so.
RowsAreAcked == \A n \in AgentNames : agents[n].row = acked[n].row

\* Whatever keys the processes use and wherever they stop, a row that no overlapping
\* writer touched holds the secrets last acknowledged for it, unless a process without a
\* key ran beside one with a key: an update by it loses the llm secret.
SecretsAreKept ==
    ~mixed => \A n \in AgentNames \ raced : agents[n].llm.secret = acked[n].llm

\* With one key in use a serving process has every llm secret encrypted under its key.
RestsEncrypted ==
    \A w \in StoreWorkers : Up(w) /\ procs[w].key # NoCipher /\ ~mixed =>
        \A n \in LlmRows : used \subseteq {NoCipher, procs[w].key}
                             => agents[n].llm.cipher = procs[w].key

\* What a reader without X-Full-Keys is shown never becomes an llm secret.
MasksStayOut ==
    \A n \in AgentNames :
        /\ agents[n].llm.secret # Masked
        /\ \A w \in StoreWorkers :
             Up(w) /\ agents[n].row => ShownBy(w, n, FALSE).llm \notin Secrets

\* Secrets of agents survive restarts, changed keys and migrations, rest encrypted and
\* are never replaced by the mask a reader is shown.
SecretsAreSafe == RowsAreAcked /\ SecretsAreKept /\ RestsEncrypted /\ MasksStayOut
=============================================================================
