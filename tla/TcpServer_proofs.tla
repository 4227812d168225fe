-------------------------- MODULE TcpServer_proofs --------------------------
(***************************************************************************)
(* Theorems about the TCP/TLS server and its SessionTracker (TcpServer), for *)
(* any limit, any capacities, and with or without TLS.                        *)
(***************************************************************************)
EXTENDS TcpServer, TLAPS, WellFoundedInduction, FiniteSetTheorems

-----------------------------------------------------------------------------
(* The inductive invariant *)

TypeOK ==
    /\ handle \in BOOLEAN
    /\ settings \in Seq(Levels)
    /\ server \in {"select", "change_setting", "stopped"}
    /\ pending \in SUBSET Ids
    /\ decode \in Levels
    /\ sessions \in SUBSET Ids
    /\ next_id \in 0..MaxIds
    /\ closed \in Seq(Ids)
    /\ session \in [Ids -> Phases]
    /\ inbox \in [Ids -> Seq(Levels)]
    /\ level \in [Ids -> Levels]

\* Ids are given out in order, once: one that was not is nowhere.
FreshIds ==
    \A i \in Ids : i >= next_id =>
        i \notin sessions /\ session[i] = "none" /\ inbox[i] = <<>>

\* A SessionClose is about a session that has ended.
ClosedEnded == \A k \in 1..Len(closed) : session[closed[k]] = "ended"

\* SessionTracker::add makes room before it inserts.
WithinLimit == Cardinality(sessions) <= max_sessions

ServerInv == TypeOK /\ FreshIds /\ ClosedEnded /\ WithinLimit /\ SettingsReach

-----------------------------------------------------------------------------
(* Lemmas *)

\* The oldest session is one of them, and no other has a smaller id.
LEMMA MinFacts ==
    ASSUME NEW S \in SUBSET Nat, S # {}
    PROVE  Min(S) \in S /\ \A y \in S : Min(S) <= y
<1>1. \E x \in S : \A y \in S : x <= y
    <2>1. PICK x \in S : \A y \in S : ~(<<y, x>> \in OpToRel(<, Nat))
        BY NatLessThanWellFounded, WFMin, Zenon
    <2>2. \A y \in S : ~(y < x)
        BY <2>1 DEF OpToRel
    <2>3. QED
        BY <2>2
<1>2. QED
    BY <1>1 DEF Min

\* A channel is empty when it holds no message.
LEMMA EmptyIffLen ==
    ASSUME NEW S, NEW q \in Seq(S)
    PROVE  q = <<>> <=> Len(q) = 0
OBVIOUS

\* Taking the first of several settings leaves the last one, of one setting none.
LEMMA LastOfTail ==
    ASSUME NEW S, NEW q \in Seq(S), q # <<>>
    PROVE  \/ Len(q) = 1 /\ Tail(q) = <<>>
           \/ Tail(q) # <<>> /\ Tail(q)[Len(Tail(q))] = q[Len(q)]
<1>1. PICK n \in Nat : n = Len(q)
    OBVIOUS
<1>2. n # 0
    BY <1>1, EmptyIffLen
<1>3. Len(Tail(q)) = n - 1 /\ Tail(q) \in Seq(S)
    BY <1>1, <1>2
<1>4. CASE n = 1
    <2>1. n - 1 = 0
        BY <1>4
    <2>2. Tail(q) = <<>>
        BY <1>3, <2>1, EmptyIffLen
    <2>3. QED
        BY <1>1, <1>4, <2>2
<1>5. CASE n > 1
    <2>1. \A i \in 1..(n - 1) : Tail(q)[i] = q[i + 1]
        BY <1>1, <1>2
    <2>2. n - 1 \in 1..(n - 1) /\ n - 1 + 1 = n /\ n - 1 # 0
        BY <1>5
    <2>3. QED
        BY <1>1, <1>3, <2>1, <2>2, EmptyIffLen
<1>6. QED
    BY <1>2, <1>4, <1>5

\* Session ids are numbers below the bound.
LEMMA IdsFacts == Ids \subseteq Nat /\ \A i \in Ids : i < MaxIds
BY ServerAssumption DEF Ids

\* The session limit is at least one (SessionTracker::new).
LEMMA LimitFacts == max_sessions \in Nat \ {0}
BY ServerAssumption DEF max_sessions

\* The tracker holds finitely many sessions.
LEMMA SessionsFinite ==
    ASSUME TypeOK
    PROVE  IsFiniteSet(sessions) /\ Cardinality(sessions) \in Nat
<1>1. IsFiniteSet(sessions)
    <2>1. sessions \in SUBSET Nat /\ MaxIds \in Nat /\ \A i \in sessions : i <= MaxIds
        BY ServerAssumption DEF TypeOK, Ids
    <2>2. QED
        BY <2>1, FS_BoundedSetOfNaturals
<1>2. QED
    BY <1>1, FS_CardinalityType

\* What add removes is the oldest session, of a full tracker; and it makes room.
LEMMA EvictedFacts ==
    ASSUME TypeOK, WithinLimit, NEW id \in Ids, id \notin sessions
    PROVE  /\ Evicted \subseteq sessions
           /\ \A i \in Evicted : /\ Cardinality(sessions) = max_sessions
                                 /\ \A j \in sessions : i <= j
           /\ Cardinality((sessions \ Evicted) \cup {id}) <= max_sessions
<1>1. /\ IsFiniteSet(sessions) /\ Cardinality(sessions) \in Nat
      /\ Cardinality(sessions) <= max_sessions /\ max_sessions \in Nat \ {0}
    BY SessionsFinite, LimitFacts DEF WithinLimit
<1>2. CASE Cardinality(sessions) >= max_sessions
    <2>1. Evicted = {Min(sessions)} /\ Cardinality(sessions) = max_sessions
        BY <1>1, <1>2 DEF Evicted
    <2>2. sessions # {} /\ sessions \in SUBSET Nat
        BY <1>1, <2>1, FS_EmptySet, IdsFacts DEF TypeOK
    <2>3. Min(sessions) \in sessions /\ \A j \in sessions : Min(sessions) <= j
        BY <2>2, MinFacts
    <2>4. /\ IsFiniteSet(sessions \ {Min(sessions)})
          /\ Cardinality(sessions \ {Min(sessions)}) = max_sessions - 1
        BY <1>1, <2>1, <2>3, FS_RemoveElement
    <2>5. Cardinality((sessions \ {Min(sessions)}) \cup {id}) = max_sessions
        <3> DEFINE rest == sessions \ {Min(sessions)}
        <3>1. id \notin rest /\ IsFiniteSet(rest) /\ Cardinality(rest) = max_sessions - 1
            BY <2>4
        <3> HIDE DEF rest
        <3>2. Cardinality(rest \cup {id}) = max_sessions - 1 + 1
            BY <3>1, FS_AddElement
        <3>3. QED
            BY <1>1, <3>2 DEF rest
    <2>6. QED
        BY <1>1, <2>1, <2>3, <2>5
<1>3. CASE Cardinality(sessions) < max_sessions
    <2>1. Evicted = {}
        BY <1>1, <1>3 DEF Evicted
    <2>2. Cardinality(sessions \cup {id}) = Cardinality(sessions) + 1
        BY <1>1, FS_AddElement
    <2>3. QED
        BY <1>1, <1>3, <2>1, <2>2
<1>4. QED
    BY <1>1, <1>2, <1>3

-----------------------------------------------------------------------------
(* Steps of the server task *)

\* A new level is pending for exactly the sessions of the tracker.
LEMMA ReceiveSettingPreserves ==
    ASSUME ServerInv, ReceiveSetting
    PROVE  ServerInv'
<1> USE DEF ServerInv
<1>1. TypeOK'
    BY DEF TypeOK, ReceiveSetting, sessionVars
<1>2. FreshIds' /\ ClosedEnded' /\ WithinLimit' /\ SettingsReach'
    BY DEF ReceiveSetting, sessionVars, FreshIds, ClosedEnded, WithinLimit, SettingsReach, Live
<1>3. QED
    BY <1>1, <1>2

\* A session that is sent the level has it last in its inbox.
LEMMA SendSettingPreserves ==
    ASSUME ServerInv, SendSetting
    PROVE  ServerInv'
<1> USE DEF ServerInv
<1> DEFINE id == Min(pending)
<1>1. /\ \/ id \in Live /\ inbox' = [inbox EXCEPT ![id] = Append(@, decode)]
         \/ id \notin Live /\ UNCHANGED inbox
      /\ pending # {} /\ pending' = pending \ {id}
      /\ UNCHANGED <<handle, settings, server, decode, sessions, next_id, closed, session, level>>
    BY DEF SendSetting
<1>2. id \in Ids /\ id \in pending
    BY <1>1, MinFacts, IdsFacts DEF TypeOK
<1> HIDE DEF id
<1>3. TypeOK'
    <2>1. inbox[id] \in Seq(Levels) /\ decode \in Levels
        BY <1>2 DEF TypeOK
    <2>2. Append(inbox[id], decode) \in Seq(Levels)
        BY <2>1
    <2>3. inbox' \in [Ids -> Seq(Levels)]
        BY <1>1, <2>2 DEF TypeOK
    <2>4. QED
        BY <1>1, <2>3 DEF TypeOK
<1>4. \A i \in Ids : i # id => inbox'[i] = inbox[i]
    BY <1>1 DEF TypeOK
<1>5. id \in Live => inbox'[id] = Append(inbox[id], decode)
    BY <1>1, <1>2 DEF TypeOK
<1>6. FreshIds'
    BY <1>1, <1>4 DEF FreshIds, Live
<1>7. ClosedEnded' /\ WithinLimit'
    BY <1>1 DEF ClosedEnded, WithinLimit
<1>8. SettingsReach'
    <2> SUFFICES ASSUME server # "stopped", NEW i \in (sessions \cap Live) \ pending'
                 PROVE  LastLevel(i)' = decode
        BY <1>1 DEF SettingsReach, Live
    <2>1. CASE i = id
        <3>1. inbox[id] \in Seq(Levels) /\ decode \in Levels
            BY <1>2 DEF TypeOK
        <3>2. inbox'[id] # <<>> /\ inbox'[id][Len(inbox'[id])] = decode
            BY <1>5, <2>1, <3>1
        <3>3. QED
            BY <2>1, <3>2 DEF LastLevel
    <2>2. CASE i # id
        BY <1>1, <1>4, <2>2 DEF SettingsReach, LastLevel, Live
    <2>3. QED
        BY <2>1, <2>2
<1>9. QED
    BY <1>3, <1>6, <1>7, <1>8

\* A session that notified its end is forgotten.
LEMMA ReceiveClosePreserves ==
    ASSUME ServerInv, ReceiveClose
    PROVE  ServerInv'
<1> USE DEF ServerInv
<1>1. /\ closed # <<>> /\ closed' = Tail(closed)
      /\ sessions' = sessions \ {Head(closed)}
      /\ UNCHANGED <<handle, settings, server, pending, decode, next_id, session, inbox, level>>
    BY DEF ReceiveClose, sessionVars
<1>2. TypeOK'
    BY <1>1 DEF TypeOK
<1>3. FreshIds'
    BY <1>1 DEF FreshIds
<1>4. ClosedEnded'
    BY <1>1 DEF ClosedEnded, TypeOK
<1>5. WithinLimit'
    <2>1. Cardinality(sessions') <= Cardinality(sessions) /\ Cardinality(sessions') \in Nat
        BY <1>1, <1>2, SessionsFinite, FS_RemoveElement, FS_Subset, FS_CardinalityType
    <2>2. QED
        BY <2>1, SessionsFinite, LimitFacts DEF WithinLimit, max_sessions
<1>6. SettingsReach'
    BY <1>1 DEF SettingsReach, LastLevel, Live
<1>7. QED
    BY <1>2, <1>3, <1>4, <1>5, <1>6

\* A full tracker makes room first; the new session starts with the level in force.
LEMMA AcceptPreserves ==
    ASSUME ServerInv, Accept
    PROVE  ServerInv'
<1> USE DEF ServerInv
<1>1. /\ server = "select" /\ next_id < MaxIds
      /\ sessions' = (sessions \ Evicted) \cup {next_id}
      /\ next_id' = next_id + 1
      /\ session' = [session EXCEPT ![next_id] = IF Tls THEN "handshake" ELSE "serving"]
      /\ level' = [level EXCEPT ![next_id] = decode]
      /\ UNCHANGED <<handle, settings, server, pending, decode, closed, inbox>>
    BY DEF Accept
<1>2. /\ next_id \in Ids /\ next_id \in Nat
      /\ next_id \notin sessions /\ session[next_id] = "none" /\ inbox[next_id] = <<>>
    <2>1. next_id \in Ids /\ next_id \in Nat
        BY <1>1, ServerAssumption DEF TypeOK, Ids
    <2>2. QED
        BY <2>1 DEF FreshIds
<1>3. TypeOK'
    <2>1. sessions' \in SUBSET Ids
        BY <1>1, <1>2 DEF TypeOK
    <2>id. next_id' \in 0..MaxIds
        BY <1>1, <1>2, ServerAssumption
    <2>2. session' \in [Ids -> Phases]
        BY <1>1, <1>2 DEF TypeOK, Phases
    <2>3. level' \in [Ids -> Levels]
        BY <1>1, <1>2 DEF TypeOK
    <2>4. QED
        BY <1>1, <2>id, <2>1, <2>2, <2>3 DEF TypeOK
<1>4. /\ \A i \in Ids : i # next_id => session'[i] = session[i] /\ level'[i] = level[i]
      /\ level'[next_id] = decode
    BY <1>1, <1>2 DEF TypeOK
<1>5. FreshIds'
    <2>1. \A i \in Nat : i >= next_id + 1 => i # next_id /\ i >= next_id
        BY <1>2
    <2>2. ASSUME NEW i \in Ids, i >= next_id + 1
          PROVE  i # next_id /\ i >= next_id
        <3>1. i \in Nat
            BY IdsFacts
        <3>2. QED
            BY <2>1, <2>2, <3>1
    <2>3. ASSUME NEW i \in Ids, i >= next_id + 1
          PROVE  i \notin sessions' /\ session'[i] = "none" /\ inbox'[i] = <<>>
        <3>1. i # next_id /\ i \notin sessions /\ session[i] = "none" /\ inbox[i] = <<>>
            BY <2>2, <2>3 DEF FreshIds
        <3>2. QED
            BY <1>1, <1>4, <3>1
    <2>4. QED
        BY <1>1, <2>3 DEF FreshIds
<1>6. ClosedEnded'
    <2>1. \A k \in 1..Len(closed) : closed[k] \in Ids /\ closed[k] # next_id
        BY <1>2 DEF ClosedEnded, TypeOK
    <2>2. QED
        BY <1>1, <1>4, <2>1 DEF ClosedEnded
<1>7. WithinLimit'
    BY <1>1, <1>2, EvictedFacts DEF WithinLimit, max_sessions
<1>8. SettingsReach'
    BY <1>1, <1>2, <1>4 DEF SettingsReach, LastLevel, Live
<1>9. QED
    BY <1>3, <1>5, <1>6, <1>7, <1>8

\* A server that stops drops every sender.
LEMMA StopPreserves ==
    ASSUME ServerInv, Stop
    PROVE  ServerInv'
<1> USE DEF ServerInv
<1>1. /\ server' = "stopped" /\ sessions' = {} /\ settings' = <<>> /\ closed' = <<>>
      /\ UNCHANGED <<handle, pending, decode, next_id, session, inbox, level>>
    BY DEF Stop, sessionVars
<1>2. TypeOK'
    BY <1>1 DEF TypeOK
<1>3. FreshIds' /\ ClosedEnded' /\ SettingsReach'
    BY <1>1 DEF FreshIds, ClosedEnded, SettingsReach
<1>4. WithinLimit'
    BY <1>1, FS_EmptySet, LimitFacts DEF WithinLimit, max_sessions
<1>5. QED
    BY <1>2, <1>3, <1>4

-----------------------------------------------------------------------------
(* Steps of a session task *)

\* A session that ends or is past its end has nothing to apply any more.
LEMMA EndSessionPreserves ==
    ASSUME ServerInv, NEW id \in Ids, id \in Live, EndSession(id), UNCHANGED closed,
           UNCHANGED <<handle, settings, server, pending, decode, sessions, next_id>>
    PROVE  ServerInv'
<1> USE DEF ServerInv
<1>1. /\ session' = [session EXCEPT ![id] = "closing"]
      /\ inbox' = [inbox EXCEPT ![id] = <<>>] /\ UNCHANGED level
    BY DEF EndSession
<1>2. TypeOK'
    <2>1. session' \in [Ids -> Phases]
        BY <1>1 DEF TypeOK, Phases
    <2>2. inbox' \in [Ids -> Seq(Levels)]
        BY <1>1 DEF TypeOK
    <2>3. QED
        BY <1>1, <2>1, <2>2 DEF TypeOK
<1>3. /\ \A i \in Ids : i # id => session'[i] = session[i] /\ inbox'[i] = inbox[i]
      /\ session'[id] = "closing"
      /\ id < next_id
    BY <1>1, IdsFacts DEF TypeOK, Live, FreshIds
<1>4. FreshIds' /\ WithinLimit'
    BY <1>3, IdsFacts DEF FreshIds, WithinLimit, TypeOK
<1>5. ClosedEnded'
    <2>1. \A k \in 1..Len(closed) : closed[k] \in Ids /\ closed[k] # id
        BY DEF ClosedEnded, Live, TypeOK
    <2>2. QED
        BY <1>3, <2>1 DEF ClosedEnded
<1>6. SettingsReach'
    BY <1>1, <1>3 DEF SettingsReach, LastLevel, Live
<1>7. QED
    BY <1>2, <1>4, <1>5, <1>6

\* A handshake, a frame to answer and a written reply leave the inbox alone.
LEMMA PeerWaitPreserves ==
    ASSUME ServerInv, NEW id \in Ids, UNCHANGED closed,
           HandshakeOk(id) \/ HandleFrame(id) \/ ReplyWritten(id),
           UNCHANGED <<handle, settings, server, pending, decode, sessions, next_id>>
    PROVE  ServerInv'
<1> USE DEF ServerInv
<1>1. PICK phase \in {"serving", "writing"} :
        /\ session[id] \in {"handshake", "serving", "writing"}
        /\ session' = [session EXCEPT ![id] = phase]
        /\ UNCHANGED <<inbox, level>>
    BY DEF HandshakeOk, HandleFrame, ReplyWritten
<1>2. TypeOK'
    BY <1>1 DEF TypeOK, Phases
<1>3. /\ \A i \in Ids : i # id => session'[i] = session[i]
      /\ session'[id] = phase
      /\ id < next_id
    BY <1>1, IdsFacts DEF TypeOK, FreshIds
<1>4. FreshIds' /\ WithinLimit'
    BY <1>1, <1>3, IdsFacts DEF FreshIds, WithinLimit, TypeOK
<1>5. ClosedEnded'
    <2>1. \A k \in 1..Len(closed) : closed[k] \in Ids /\ closed[k] # id
        BY <1>1 DEF ClosedEnded, TypeOK
    <2>2. QED
        BY <1>3, <2>1 DEF ClosedEnded
<1>6. SettingsReach'
    BY <1>1, <1>3 DEF SettingsReach, LastLevel, Live
<1>7. QED
    BY <1>2, <1>4, <1>5, <1>6

\* A session takes the settings in the order they were sent.
LEMMA ApplySettingPreserves ==
    ASSUME ServerInv, NEW id \in Ids, ApplySetting(id), UNCHANGED closed,
           UNCHANGED <<handle, settings, server, pending, decode, sessions, next_id>>
    PROVE  ServerInv'
<1> USE DEF ServerInv
<1>1. /\ session[id] = "serving" /\ inbox[id] # <<>>
      /\ level' = [level EXCEPT ![id] = Head(inbox[id])]
      /\ inbox' = [inbox EXCEPT ![id] = Tail(@)]
      /\ UNCHANGED session
    BY DEF ApplySetting
<1>2. /\ inbox[id] \in Seq(Levels)
      /\ Head(inbox[id]) \in Levels /\ Tail(inbox[id]) \in Seq(Levels)
    BY <1>1 DEF TypeOK
<1>3. TypeOK'
    BY <1>1, <1>2 DEF TypeOK
<1>4. /\ \A i \in Ids : i # id => inbox'[i] = inbox[i] /\ level'[i] = level[i]
      /\ inbox'[id] = Tail(inbox[id]) /\ level'[id] = Head(inbox[id])
    BY <1>1 DEF TypeOK
<1>5. FreshIds' /\ ClosedEnded' /\ WithinLimit'
    BY <1>1, <1>4 DEF FreshIds, ClosedEnded, WithinLimit
<1>6. LastLevel(id)' = LastLevel(id)
    <2>1. \/ Len(inbox[id]) = 1 /\ inbox'[id] = <<>>
          \/ inbox'[id] # <<>> /\ inbox'[id][Len(inbox'[id])] = inbox[id][Len(inbox[id])]
        BY <1>1, <1>2, <1>4, LastOfTail
    <2>2. LastLevel(id) = inbox[id][Len(inbox[id])] /\ level'[id] = inbox[id][1]
        BY <1>1, <1>2, <1>4 DEF LastLevel
    <2>3. QED
        BY <2>1, <2>2 DEF LastLevel
<1>7. \A i \in Ids : LastLevel(i)' = LastLevel(i)
    BY <1>4, <1>6 DEF LastLevel
<1>8. SettingsReach'
    BY <1>1, <1>7 DEF SettingsReach, Live
<1>9. QED
    BY <1>3, <1>5, <1>8

\* A session that notifies its end has ended.
LEMMA NotifyClosePreserves ==
    ASSUME ServerInv, NEW id \in Ids, NotifyClose(id),
           UNCHANGED <<handle, settings, server, pending, decode, sessions, next_id>>
    PROVE  ServerInv'
<1> USE DEF ServerInv
<1>1. /\ session[id] = "closing" /\ session' = [session EXCEPT ![id] = "ended"]
      /\ closed' = closed \/ closed' = Append(closed, id)
      /\ UNCHANGED <<inbox, level>>
    BY DEF NotifyClose
<1>2. TypeOK'
    <2>1. session' \in [Ids -> Phases]
        BY <1>1 DEF TypeOK, Phases
    <2>2. closed' \in Seq(Ids)
        <3>1. closed \in Seq(Ids) /\ Append(closed, id) \in Seq(Ids)
            BY DEF TypeOK
        <3>2. QED
            BY <1>1, <3>1
    <2>3. QED
        BY <1>1, <2>1, <2>2 DEF TypeOK
<1>3. /\ \A i \in Ids : i # id => session'[i] = session[i]
      /\ session'[id] = "ended"
      /\ id < next_id
    BY <1>1, IdsFacts DEF TypeOK, FreshIds
<1>4. FreshIds' /\ WithinLimit'
    BY <1>1, <1>3, IdsFacts DEF FreshIds, WithinLimit, TypeOK
<1>5. ClosedEnded'
    <2>1. \A k \in 1..Len(closed) : closed[k] \in Ids /\ session'[closed[k]] = "ended"
        BY <1>3 DEF ClosedEnded, TypeOK
    <2>2. CASE closed' = closed
        BY <2>1, <2>2 DEF ClosedEnded
    <2>3. CASE closed' = Append(closed, id)
        <3>1. closed \in Seq(Ids)
            BY DEF TypeOK
        <3>2. \A k \in 1..Len(closed') : 
                closed'[k] = id \/ (k \in 1..Len(closed) /\ closed'[k] = closed[k])
            BY <2>3, <3>1
        <3>3. QED
            BY <1>3, <2>1, <3>2 DEF ClosedEnded
    <2>4. QED
        BY <1>1, <2>2, <2>3
<1>6. SettingsReach'
    BY <1>1, <1>3 DEF SettingsReach, LastLevel, Live
<1>7. QED
    BY <1>2, <1>4, <1>5, <1>6

\* The application's steps, the last one of a change, and stuttering
LEMMA QuietPreserves ==
    ASSUME ServerInv, SetDecodeLevel \/ DropHandle \/ SettingSent \/ UNCHANGED vars
    PROVE  ServerInv'
<1> USE DEF ServerInv
<1>1. /\ UNCHANGED <<pending, decode, sessions, next_id, closed, session, inbox, level>>
      /\ server' = "stopped" <=> server = "stopped"
    BY DEF SetDecodeLevel, DropHandle, SettingSent, vars, sessionVars
<1>2. TypeOK'
    <2>1. settings' \in Seq(Levels)
        <3>1. CASE SetDecodeLevel
            BY <3>1 DEF SetDecodeLevel, TypeOK
        <3>2. CASE DropHandle \/ SettingSent \/ UNCHANGED vars
            BY <3>2 DEF DropHandle, SettingSent, vars, TypeOK
        <3>3. QED
            BY <3>1, <3>2
    <2>2. handle' \in BOOLEAN /\ server' \in {"select", "change_setting", "stopped"}
        BY DEF SetDecodeLevel, DropHandle, SettingSent, vars, TypeOK
    <2>3. QED
        BY <1>1, <2>1, <2>2 DEF TypeOK
<1>3. FreshIds' /\ ClosedEnded' /\ WithinLimit' /\ SettingsReach'
    BY <1>1 DEF FreshIds, ClosedEnded, WithinLimit, SettingsReach, LastLevel, Live
<1>4. QED
    BY <1>2, <1>3

-----------------------------------------------------------------------------
(* Theorems *)

\* Every step of the server task, of a session task and of the peers preserves
\* the invariant.
THEOREM ServerInvariant == Spec => []ServerInv
<1>1. Init => ServerInv
    <2> SUFFICES ASSUME Init PROVE ServerInv
        OBVIOUS
    <2>1. TypeOK
        BY ServerAssumption DEF Init, TypeOK, Phases
    <2>2. FreshIds /\ ClosedEnded /\ SettingsReach
        BY DEF Init, FreshIds, ClosedEnded, SettingsReach
    <2>3. WithinLimit
        BY FS_EmptySet, LimitFacts DEF Init, WithinLimit
    <2>4. QED
        BY <2>1, <2>2, <2>3 DEF ServerInv
<1>2. ServerInv /\ [Next]_vars => ServerInv'
    <2> SUFFICES ASSUME ServerInv, [Next]_vars PROVE ServerInv'
        OBVIOUS
    <2>1. CASE SetDecodeLevel \/ DropHandle \/ SettingSent \/ UNCHANGED vars
        BY <2>1, QuietPreserves
    <2>2. CASE ReceiveSetting \/ SendSetting
        BY <2>2, ReceiveSettingPreserves, SendSettingPreserves
    <2>3. CASE ReceiveClose \/ Accept
        BY <2>3, ReceiveClosePreserves, AcceptPreserves
    <2>4. CASE ReceiveShutdown \/ AcceptFails
        BY <2>4, StopPreserves DEF ReceiveShutdown, AcceptFails
    <2>5. ASSUME NEW id \in Ids, SessionStep(id) \/ PeerStep(id),
                 UNCHANGED <<handle, settings, server, pending, decode, sessions, next_id>>
          PROVE  ServerInv'
        <3>1. CASE ApplySetting(id) /\ UNCHANGED closed
            BY <2>5, <3>1, ApplySettingPreserves
        <3>2. CASE NotifyClose(id)
            BY <2>5, <3>2, NotifyClosePreserves
        <3>3. CASE /\ HandshakeOk(id) \/ HandleFrame(id) \/ ReplyWritten(id)
                   /\ UNCHANGED closed
            BY <2>5, <3>3, PeerWaitPreserves
        <3>4. CASE /\ SessionShutdown(id) \/ HandshakeFails(id) \/ SessionFails(id)
                   /\ UNCHANGED closed
            BY <2>5, <3>4, EndSessionPreserves
            DEF SessionShutdown, HandshakeFails, SessionFails, Live
        <3>5. QED
            BY <2>5, <3>1, <3>2, <3>3, <3>4 DEF SessionStep, CommandStep, PeerStep
    <2>6. QED
        BY <2>1, <2>2, <2>3, <2>4, <2>5 DEF Next, ServerStep, serverVars
<1>3. QED
    BY <1>1, <1>2, PTL DEF Spec

\* No setting is lost or overtaken on its way to the sessions, those accepted right
\* before or after a change included (change_setting, handle).
THEOREM SettingsReachAlways == Spec => []SettingsReach
<1>1. ServerInv => SettingsReach
    BY DEF ServerInv
<1>2. QED
    BY <1>1, ServerInvariant, PTL

\* The tracker stays within its limit, and a running session loses its sender only
\* as the oldest of a full tracker, when a new connection needs the room, or when
\* the server stops (SessionTracker::add and remove).
THEOREM EvictsOldestAlways == Spec => EvictsOldest
<1> DEFINE Eviction ==
        /\ Cardinality(sessions') <= max_sessions
        /\ \A i \in sessions \ sessions' :
            \/ server' = "stopped"
            \/ i \notin Live
            \/ /\ next_id' = next_id + 1
               /\ Cardinality(sessions) = max_sessions
               /\ \A j \in sessions : i <= j
<1>1. ServerInv /\ ServerInv' /\ [Next]_vars => [Eviction]_vars
    <2> SUFFICES ASSUME ServerInv, ServerInv', Next PROVE Eviction
        OBVIOUS
    <2>1. Cardinality(sessions') <= max_sessions
        BY DEF ServerInv, WithinLimit, max_sessions
    <2>2. CASE UNCHANGED sessions
        BY <2>1, <2>2
    <2>3. CASE ReceiveClose
        <3>1. Head(closed) \notin Live
            <4>1. closed \in Seq(Ids) /\ closed # <<>>
                BY <2>3 DEF ReceiveClose, ServerInv, TypeOK
            <4>2. Head(closed) = closed[1] /\ 1 \in 1..Len(closed)
                BY <4>1
            <4>3. QED
                BY <4>2 DEF ServerInv, ClosedEnded, Live
        <3>2. QED
            BY <2>1, <2>3, <3>1 DEF ReceiveClose
    <2>4. CASE Accept
        <3>1. next_id \in Ids /\ next_id \notin sessions
            BY <2>4, ServerAssumption DEF Accept, ServerInv, TypeOK, FreshIds, Ids
        <3>2. \A i \in sessions \ sessions' : i \in Evicted
            BY <2>4 DEF Accept
        <3>3. \A i \in Evicted : /\ Cardinality(sessions) = max_sessions
                                 /\ \A j \in sessions : i <= j
            BY <3>1, EvictedFacts DEF ServerInv
        <3>4. next_id' = next_id + 1
            BY <2>4 DEF Accept
        <3>5. QED
            BY <2>1, <3>2, <3>3, <3>4
    <2>5. CASE Stop
        BY <2>1, <2>5 DEF Stop
    <2>6. QED
        BY <2>2, <2>3, <2>4, <2>5
        DEF Next, ServerStep, SetDecodeLevel, DropHandle, ReceiveSetting, SendSetting,
            SettingSent, ReceiveShutdown, AcceptFails, serverVars
<1>2. QED
    BY <1>1, ServerInvariant, PTL DEF Spec, EvictsOldest
=============================================================================
