------------------------------ MODULE TcpServer ------------------------------
(***************************************************************************)
(* The TCP/TLS server (rodbus/src/tcp/server.rs): the ServerTask that        *)
(* accepts connections and forwards settings, the SessionTracker that limits *)
(* the sessions, and the session tasks it spawns, each with its own command  *)
(* channel.  Of handle_frame only its end is seen here: a session that writes *)
(* a reply is out of its select!, for as long as its peer does not read.      *)
(***************************************************************************)
EXTENDS Naturals, Sequences, FiniteSets, FiniteSetsExt

CONSTANTS
    MaxSessions,      \* max_sessions as given by the application
    Tls,              \* TRUE: a session starts with a TLS handshake
    Levels,           \* decode levels
    InitialLevel,     \* the level the server is created with
    CommandCapacity,  \* capacity of each session's command channel (8)
    CloseCapacity,    \* capacity of the SessionClose channel (8)
    MaxSettings,      \* bound: settings in the ServerHandle's channel
    MaxIds            \* bound: connections accepted

ASSUME ServerAssumption ==
    /\ MaxSessions \in Nat
    /\ Tls \in BOOLEAN
    /\ InitialLevel \in Levels
    /\ CommandCapacity \in Nat \ {0} /\ CloseCapacity \in Nat \ {0}
    /\ MaxSettings \in Nat /\ MaxIds \in Nat

Ids == 0..(MaxIds - 1)

\* SessionTracker::new
max_sessions == IF MaxSessions = 0 THEN 1 ELSE MaxSessions

VARIABLES
    handle,    \* the ServerHandle still exists
    settings,  \* settings sent by the handle, not received yet
    server,    \* "select", "change_setting" or "stopped"
    pending,   \* change_setting: the sessions the setting still is to be sent to
    decode,    \* ServerTask.decode
    sessions,  \* SessionTracker.sessions: the ids whose sender it holds
    next_id,   \* SessionTracker.id
    closed,    \* the SessionClose channel
    session,   \* session[id]: where the session task is
    inbox,     \* inbox[id]: settings in the session's command channel
    level      \* level[id]: SessionTask.decode

vars == <<handle, settings, server, pending, decode, sessions, next_id, closed,
          session, inbox, level>>

Phases == {"none", "handshake", "serving", "writing", "closing", "ended"}

Init ==
    /\ handle = TRUE
    /\ settings = <<>>
    /\ server = "select"
    /\ pending = {}
    /\ decode = InitialLevel
    /\ sessions = {}
    /\ next_id = 0
    /\ closed = <<>>
    /\ session = [i \in Ids |-> "none"]
    /\ inbox = [i \in Ids |-> <<>>]
    /\ level = [i \in Ids |-> InitialLevel]

sessionVars == <<session, inbox, level>>
serverVars == <<handle, settings, server, pending, decode, sessions, next_id>>

\* A session's receiver lives until run_session returns.
Live == {i \in Ids : session[i] \in {"handshake", "serving", "writing"}}

-----------------------------------------------------------------------------
(* The application: ServerHandle *)

SetDecodeLevel ==
    /\ handle /\ server # "stopped"
    /\ Len(settings) < MaxSettings
    /\ \E l \in Levels : settings' = Append(settings, l)
    /\ UNCHANGED <<handle, server, pending, decode, sessions, next_id, closed, sessionVars>>

DropHandle ==
    /\ handle
    /\ handle' = FALSE
    /\ UNCHANGED <<settings, server, pending, decode, sessions, next_id, closed, sessionVars>>

-----------------------------------------------------------------------------
(* ServerTask::run *)

\* change_setting: the level for new sessions; then it is sent to each session
ReceiveSetting ==
    /\ server = "select" /\ settings # <<>>
    /\ settings' = Tail(settings)
    /\ decode' = Head(settings)
    /\ pending' = sessions
    /\ server' = "change_setting"
    /\ UNCHANGED <<handle, sessions, next_id, closed, sessionVars>>

\* Mutant of SendSetting: a session that is gone is waited for.
WaitsForGone ==
    /\ server = "change_setting" /\ pending # {}
    /\ LET id == Min(pending) IN
        /\ id \in Live
        /\ Len(inbox[id]) < CommandCapacity
        /\ inbox' = [inbox EXCEPT ![id] = Append(@, decode)]
        /\ pending' = pending \ {id}
    /\ UNCHANGED <<handle, settings, server, decode, sessions, next_id, closed, session, level>>

\* sender.send(setting).await for the next session in id order: it fails at once
\* if the session is gone, and waits while its channel is full.
SendSetting ==
    /\ server = "change_setting" /\ pending # {}
    /\ LET id == Min(pending) IN
        /\ \/ /\ id \in Live
              /\ Len(inbox[id]) < CommandCapacity
              /\ inbox' = [inbox EXCEPT ![id] = Append(@, decode)]
           \/ id \notin Live /\ UNCHANGED inbox
        /\ pending' = pending \ {id}
    /\ UNCHANGED <<handle, settings, server, decode, sessions, next_id, closed, session, level>>

SettingSent ==
    /\ server = "change_setting" /\ pending = {}
    /\ server' = "select"
    /\ UNCHANGED <<handle, settings, pending, decode, sessions, next_id, closed, sessionVars>>

\* A session told that it ended: SessionTracker::remove
ReceiveClose ==
    /\ server = "select" /\ closed # <<>>
    /\ closed' = Tail(closed)
    /\ sessions' = sessions \ {Head(closed)}
    /\ UNCHANGED <<handle, settings, server, pending, decode, next_id, sessionVars>>

\* Mutant of Evicted: the newest session makes room.
EvictedNewest ==
    IF Cardinality(sessions) >= max_sessions THEN {Max(sessions)} ELSE {}

\* SessionTracker::add: the lowest id makes room
Evicted == IF Cardinality(sessions) >= max_sessions THEN {Min(sessions)} ELSE {}

\* Mutant of Accept: new sessions start with the level the server was created with.
AcceptInitialLevel ==
    /\ server = "select"
    /\ next_id < MaxIds
    /\ sessions' = (sessions \ Evicted) \cup {next_id}
    /\ next_id' = next_id + 1
    /\ session' = [session EXCEPT ![next_id] = IF Tls THEN "handshake" ELSE "serving"]
    /\ level' = [level EXCEPT ![next_id] = InitialLevel]
    /\ UNCHANGED <<handle, settings, server, pending, decode, closed, inbox>>

\* A connection that passes the address filter: handle spawns the session with
\* the current decode level.  One that does not is closed at once, no change.
Accept ==
    /\ server = "select"
    /\ next_id < MaxIds
    /\ sessions' = (sessions \ Evicted) \cup {next_id}
    /\ next_id' = next_id + 1
    /\ session' = [session EXCEPT ![next_id] = IF Tls THEN "handshake" ELSE "serving"]
    /\ level' = [level EXCEPT ![next_id] = decode]
    /\ UNCHANGED <<handle, settings, server, pending, decode, closed, inbox>>

\* The task returns and drops the tracker with every sender in it: the handle
\* is gone and its channel drained, or accept failed.
Stop ==
    /\ server = "select"
    /\ server' = "stopped"
    /\ sessions' = {}
    /\ settings' = <<>> /\ closed' = <<>>
    /\ UNCHANGED <<handle, pending, decode, next_id, sessionVars>>

\* Mutant of ReceiveShutdown: the server waits for its sessions.
WaitsForSessions == ~handle /\ settings = <<>> /\ sessions = {} /\ Stop

ReceiveShutdown == ~handle /\ settings = <<>> /\ Stop
AcceptFails == Stop

-----------------------------------------------------------------------------
(* A session task: run_session, SessionTask::run, then SessionClose *)

HandshakeOk(id) ==
    /\ session[id] = "handshake"
    /\ session' = [session EXCEPT ![id] = "serving"]
    /\ UNCHANGED <<inbox, level>>

\* run_session returns: the receiver is dropped with what it holds
EndSession(id) ==
    /\ session' = [session EXCEPT ![id] = "closing"]
    /\ inbox' = [inbox EXCEPT ![id] = <<>>]
    /\ UNCHANGED level

HandshakeFails(id) == session[id] = "handshake" /\ EndSession(id)

\* run_one: next_frame returns a frame that handle_frame answers; it awaits
\* io.write, with no timeout and without polling commands.recv()
HandleFrame(id) ==
    /\ session[id] = "serving"
    /\ session' = [session EXCEPT ![id] = "writing"]
    /\ UNCHANGED <<inbox, level>>

\* The peer has read enough of the reply: back to the select! of run_one
ReplyWritten(id) ==
    /\ session[id] = "writing"
    /\ session' = [session EXCEPT ![id] = "serving"]
    /\ UNCHANGED <<inbox, level>>

\* run_one: next_frame or the write of a reply fails
SessionFails(id) == session[id] \in {"serving", "writing"} /\ EndSession(id)

\* run_one: commands.recv() returns a setting
ApplySetting(id) ==
    /\ session[id] = "serving" /\ inbox[id] # <<>>
    /\ level' = [level EXCEPT ![id] = Head(inbox[id])]
    /\ inbox' = [inbox EXCEPT ![id] = Tail(@)]
    /\ UNCHANGED session

\* Mutant of SessionShutdown: an evicted session is not told.
EndsWithServer(id) ==
    /\ session[id] = "serving" /\ inbox[id] = <<>>
    /\ server = "stopped"
    /\ EndSession(id)

\* run_one: commands.recv() returns None, the tracker dropped the sender
SessionShutdown(id) ==
    /\ session[id] = "serving" /\ inbox[id] = <<>>
    /\ id \notin sessions
    /\ EndSession(id)

\* notify_close.send: waits for room, fails if the server task is gone
NotifyClose(id) ==
    /\ session[id] = "closing"
    /\ \/ server = "stopped" /\ UNCHANGED closed
       \/ /\ server # "stopped" /\ Len(closed) < CloseCapacity
          /\ closed' = Append(closed, id)
    /\ session' = [session EXCEPT ![id] = "ended"]
    /\ UNCHANGED <<inbox, level>>

ServerStep ==
    ReceiveSetting \/ SendSetting \/ SettingSent \/ ReceiveClose \/ ReceiveShutdown

\* The branch of run_one's select! that polls the command channel
CommandStep(id) == (ApplySetting(id) \/ SessionShutdown(id)) /\ UNCHANGED closed

\* What a session does without its peer
SessionStep(id) == CommandStep(id) \/ NotifyClose(id)

PeerStep(id) ==
    /\ \/ HandshakeOk(id) \/ HandshakeFails(id)
       \/ HandleFrame(id) \/ ReplyWritten(id) \/ SessionFails(id)
    /\ UNCHANGED closed

Next ==
    \/ SetDecodeLevel \/ DropHandle
    \/ ServerStep \/ Accept \/ AcceptFails
    \/ /\ \E id \in Ids : SessionStep(id) \/ PeerStep(id)
       /\ UNCHANGED serverVars

Spec == Init /\ [][Next]_vars

-----------------------------------------------------------------------------
(* Fairness: the tasks run when they can, each branch of a select! in its turn
   (SF, tokio polls the branches in random order).  Nothing obliges a peer to
   finish a TLS handshake or to read its replies, and the code sets no timeout
   for either.                                                                *)
SessionFairness ==
    \A id \in Ids :
        /\ SF_vars(CommandStep(id) /\ UNCHANGED serverVars)
        /\ WF_vars(NotifyClose(id) /\ UNCHANGED serverVars)

ServerFairness ==
    /\ WF_vars(SendSetting) /\ WF_vars(SettingSent)
    /\ WF_vars(ReceiveSetting) /\ WF_vars(ReceiveClose) /\ WF_vars(ReceiveShutdown)

FairSpec == Spec /\ ServerFairness /\ SessionFairness

-----------------------------------------------------------------------------
(* Properties *)

\* The tracker never holds more senders than the limit, and a session loses its
\* sender only to make room for a new connection, and then
\* it is the oldest, or because it ended: no running session is dropped by a
\* late SessionClose or by a setting.
EvictsOldest ==
    [][/\ Cardinality(sessions') <= max_sessions
       /\ \A i \in sessions \ sessions' :
        \/ server' = "stopped"
        \/ i \notin Live
        \/ /\ next_id' = next_id + 1
           /\ Cardinality(sessions) = max_sessions
           /\ \A j \in sessions : i <= j]_vars

\* A setting is not lost or overtaken: once it was sent around, the last level
\* every tracked session will have applied is the server's, also for sessions
\* accepted right before or after.
LastLevel(i) == IF inbox[i] = <<>> THEN level[i] ELSE inbox[i][Len(inbox[i])]
SettingsReach ==
    server # "stopped" =>
        \A i \in (sessions \cap Live) \ pending : LastLevel(i) = decode

\* A session waits for its peer: it does not look at its command channel.
Stalled(i) == session[i] \in {"handshake", "writing"}

\* The server task awaits room in the channel of a session that waits for its peer.
Blocked ==
    /\ server = "change_setting" /\ pending # {}
    /\ Stalled(Min(pending)) /\ Len(inbox[Min(pending)]) = CommandCapacity

\* The tracker only forgets a session whose task has been told to end or has
\* ended by itself, so dropping it frees the connection: evicted sessions and
\* those of a stopped server end, whatever their peers send, unless the peer keeps
\* the session in a handshake or in the write of a reply for ever.
ForgottenEnds ==
    \A i \in Ids : []<>~Stalled(i) => ((i \in Live /\ i \notin sessions) ~> i \notin Live)

\* The server task does not stay in change_setting, where it accepts nobody: each
\* session it sends the setting to reads it or drops its receiver, also one that
\* waits for the server to take its SessionClose.  Only a session that waits for its
\* peer for ever while its channel is full keeps it there.
ReturnsToSelect ==
    []<>~Blocked => (server = "change_setting" ~> server # "change_setting")

\* Dropping the handle stops the server, whatever its sessions, settings and
\* connections do, unless it stays blocked in change_setting; the sessions then end
\* as ForgottenEnds says.
DropStops == []<>~Blocked => (~handle ~> server = "stopped")
=============================================================================
