------------------------------ MODULE LoadClients ------------------------------
(* The two clients of the load generator.  They share no state, so that together they
   are the conjunction of their specifications. *)
EXTENDS ChatTurns, ToolTurns

LoadClientsSpec == ChatTurnsSpec /\ ToolTurnsSpec

\* The platform's share of a chat turn is what the log of the stub says of that turn and
\* of no other, and a broken connection troubles only the session it belongs to
\* (stress/chat_driver.py, stub_llm.py). A tool turn is its plan of calls up to the first
\* that fails, every call is counted, and a session the gateway forgot is replayed no
\* oftener than that (transport.py).
ClientTurnsAreHonest ==
    ChatTurnsTypeOK /\ ToolTurnsTypeOK /\ ChatTurnsAreHonest /\ ToolTurnsAreWhole
=============================================================================
