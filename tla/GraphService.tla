---------------------------- MODULE GraphService ----------------------------
(***************************************************************************)
(* What the two SQL table functions promise, with no threads, sockets or   *)
(* locks: at most one graph is served at a time, serve_graph starts a      *)
(* fresh session unless one is up, stop_graph ends the one that is up, and *)
(* while a session is up its graph data is given to whoever presents the   *)
(* token of that session, and to nobody else.                              *)
(***************************************************************************)
EXTENDS Naturals

CONSTANT Sql   \* the SQL clients

VARIABLES
  call,      \* the call each SQL client is waiting for
  reply,     \* the status row its last call returned
  session,   \* the session that is up; 0: none
  issued,    \* number of tokens issued so far
  served     \* the pairs <<token presented, session whose data was given>>

vars == <<call, reply, session, issued, served>>

ServeReplies == {"running", "already", "bindFailed", "threadFailed"}
StopReplies  == {"stopped", "notRunning"}

Init ==
  /\ call = [c \in Sql |-> "idle"]
  /\ reply = [c \in Sql |-> "none"]
  /\ session = 0
  /\ issued = 0
  /\ served = {}

Call(c, f) ==
  /\ call[c] = "idle"
  /\ call' = [call EXCEPT ![c] = f]
  /\ UNCHANGED <<reply, session, issued, served>>

Return(c, f, r) ==
  /\ call[c] = f
  /\ call' = [call EXCEPT ![c] = "idle"]
  /\ reply' = [reply EXCEPT ![c] = r]

\* A token is drawn for a session that may still fail to come up.
Issue ==
  /\ session = 0
  /\ issued' = issued + 1
  /\ UNCHANGED <<call, reply, session, served>>

Started(c) ==
  /\ session = 0
  /\ issued > 0
  /\ session' = issued
  /\ Return(c, "serve", "running")
  /\ UNCHANGED <<issued, served>>

\* serve_graph comes back without starting anything.
Refused(c, r) ==
  /\ r \in ServeReplies \ {"running"}
  /\ Return(c, "serve", r)
  /\ UNCHANGED <<session, issued, served>>

\* stop_graph ends whatever session is up (there may be none to end: a
\* session whose thread could not be created is stopped too).
Stopped(c, r) ==
  /\ r \in StopReplies
  /\ session # 0 => r = "stopped"
  /\ session' = 0
  /\ Return(c, "stop", r)
  /\ UNCHANGED <<issued, served>>

Answer ==
  /\ session # 0
  /\ served' = served \cup {<<session, session>>}
  /\ UNCHANGED <<call, reply, session, issued>>

\* The process ends, and the session with it.
Exit ==
  /\ \A c \in Sql : call[c] = "idle"
  /\ session' = 0
  /\ UNCHANGED <<call, reply, issued, served>>

Next ==
  \/ \E c \in Sql :
       \/ \E f \in {"serve", "stop"} : Call(c, f)
       \/ Started(c)
       \/ \E r \in ServeReplies : Refused(c, r)
       \/ \E r \in StopReplies : Stopped(c, r)
  \/ Issue
  \/ Answer
  \/ Exit

Spec == Init /\ [][Next]_vars

=============================================================================
