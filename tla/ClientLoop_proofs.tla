-------------------------- MODULE ClientLoop_proofs --------------------------
(***************************************************************************)
(* Theorems about ClientLoop, for any set of requests, any queue capacity   *)
(* and any number of transaction ids.                                       *)
(***************************************************************************)
EXTENDS ClientLoop, TLAPS

\* What next_frame returns, and what it leaves behind, are frames that were on
\* their way.
LEMMA NextFramesType ==
    ASSUME wire \in Seq(Frames), buffer \in Seq(Frames), NEW n \in NextFrames
    PROVE  /\ n.frame \in Frames
           /\ n.buffer \in Seq(Frames)
           /\ n.wire \in Seq(Frames)
<1>1. CASE buffer # <<>>
    <2>1. n = [frame |-> Head(buffer), buffer |-> Tail(buffer), wire |-> wire]
        BY <1>1 DEF NextFrames
    <2>2. Head(buffer) \in Frames /\ Tail(buffer) \in Seq(Frames)
        BY <1>1
    <2>3. QED
        BY <2>1, <2>2
<1>2. CASE buffer = <<>>
    <2>1. PICK k \in 1..Len(wire) :
            n = [frame |-> Head(wire), buffer |-> SubSeq(wire, 2, k),
                 wire |-> SubSeq(wire, k + 1, Len(wire))]
        BY <1>2 DEF NextFrames
    <2>2. wire # <<>>
        BY <2>1
    <2>3. QED
        BY <2>1, <2>2
<1>3. QED
    BY <1>1, <1>2

\* Whatever response a request meets, handle_response has an outcome.
LEMMA ResponseType ==
    ASSUME NEW r, NEW f
    PROVE  handle_response(r, f) \in Outcomes
BY DEF handle_response, Outcomes

\* A setting leaves enabled Boolean.
LEMMA ChangeSettingType ==
    ASSUME enabled \in BOOLEAN, NEW s \in Settings, change_setting(s)
    PROVE  enabled' \in BOOLEAN
BY DEF change_setting, Settings

\* Completing a promise with an outcome keeps the type of result.
LEMMA CompleteType ==
    ASSUME result \in [Requests -> Outcomes \cup {"unsubmitted", "pending"}],
           NEW r, NEW o \in Outcomes, Complete(r, o)
    PROVE  result' \in [Requests -> Outcomes \cup {"unsubmitted", "pending"}]
BY DEF Complete

\* A session that ends leaves no request in execution and the variables typed.
LEMMA EndSessionType ==
    ASSUME LoopTypeOK, NEW e \in Returns, EndSession(e)
    PROVE  /\ loop' \in Returns
           /\ current' = NoRequest
           /\ written' = FALSE
           /\ wire' \in Seq(Frames)
           /\ peer' \in SUBSET Requests
BY DEF EndSession, LoopTypeOK

\* Every variable of the loop keeps its type.
THEOREM TypeCorrect == LoopSpec => []LoopTypeOK
<1>1. LoopInit => LoopTypeOK
    <2> SUFFICES ASSUME LoopInit PROVE LoopTypeOK
        OBVIOUS
    <2>1. 0 \in TxIds
        BY ClientAssumption DEF TxIds
    <2>2. open \in BOOLEAN /\ enabled \in BOOLEAN /\ written \in BOOLEAN
        BY DEF LoopInit
    <2>3. queue \in Seq(Commands) /\ wire \in Seq(Frames) /\ buffer \in Seq(Frames)
        BY DEF LoopInit
    <2>4. /\ result \in [Requests -> Outcomes \cup {"unsubmitted", "pending"}]
          /\ serial \in [Requests -> Nat]
          /\ txOf \in [Requests -> TxIds]
          /\ answer \in [Requests -> Requests \cup {NoRequest}]
        BY <2>1 DEF LoopInit
    <2>5. QED
        BY <2>1, <2>2, <2>3, <2>4 DEF LoopInit, LoopTypeOK, Returns
<1>2. LoopTypeOK /\ [LoopNext]_loopVars => LoopTypeOK'
    <2> SUFFICES ASSUME LoopTypeOK, [LoopNext]_loopVars PROVE LoopTypeOK'
        OBVIOUS
    <2> USE DEF LoopTypeOK
    <2>1. CASE Api
        <3>1. ASSUME NEW r \in Requests, Submit(r) PROVE LoopTypeOK'
            <4>1. queue' \in Seq(Commands)
                <5>1. queue' = queue \/ queue' = Append(queue, r)
                    BY <3>1 DEF Submit
                <5>2. r \in Commands
                    BY DEF Commands
                <5>3. queue \in Seq(Commands)
                    OBVIOUS
                <5>4. Append(queue, r) \in Seq(Commands)
                    BY <5>2, <5>3
                <5>5. QED
                    BY <5>1, <5>3, <5>4
            <4>2. result' \in [Requests -> Outcomes \cup {"unsubmitted", "pending"}]
                BY <3>1 DEF Submit, Outcomes
            <4>3. QED
                BY <3>1, <4>1, <4>2 DEF Submit, apiUnchanged, link, history
        <3>2. ASSUME NEW r \in Requests, TrySubmit(r) PROVE LoopTypeOK'
            BY <3>2 DEF TrySubmit, apiUnchanged, link, history, Outcomes
        <3>3. ASSUME NEW s \in Settings, SendSetting(s) PROVE LoopTypeOK'
            BY <3>3 DEF SendSetting, apiUnchanged, link, history, Commands
        <3>4. CASE DropChannel
            BY <3>4 DEF DropChannel, apiUnchanged, link, history
        <3>5. QED
            BY <2>1, <3>1, <3>2, <3>3, <3>4 DEF Api
    <2>2. CASE FailNextRequest
        BY <2>2 DEF FailNextRequest, Receive, Complete, link, history, Outcomes
    <2>3. CASE FailNextSetting
        <3>1. enabled' \in BOOLEAN /\ queue' \in Seq(Commands)
            BY <2>3, ChangeSettingType DEF FailNextSetting, Receive
        <3>2. loop' \in Calls \cup Returns \cup {"dropped"}
            BY <2>3 DEF FailNextSetting, Returns
        <3>3. QED
            BY <2>3, <3>1, <3>2 DEF FailNextSetting, link, history
    <2>4. CASE WaitForEnabledDone
        BY <2>4 DEF WaitForEnabledDone, link, history, Returns
    <2>5. CASE ReceiveClosed
        BY <2>5 DEF ReceiveClosed, history, Returns
    <2>6. CASE PollSetting
        <3>1. enabled' \in BOOLEAN /\ queue' \in Seq(Commands)
            BY <2>6, ChangeSettingType DEF PollSetting, Receive
        <3>2. /\ loop' \in Calls \cup Returns \cup {"dropped"}
              /\ current' \in Requests \cup {NoRequest}
              /\ written' \in BOOLEAN
              /\ wire' \in Seq(Frames)
              /\ peer' \in SUBSET Requests
            <4>1. CASE enabled'
                BY <2>6, <4>1 DEF PollSetting
            <4>2. CASE ~enabled'
                <5>1. EndSession("Disabled")
                    BY <2>6, <4>2 DEF PollSetting
                <5>2. "Disabled" \in Returns
                    BY DEF Returns
                <5>3. QED
                    BY <5>1, <5>2, EndSessionType
            <4>3. QED
                BY <4>1, <4>2
        <3>3. QED
            BY <2>6, <3>1, <3>2 DEF PollSetting, history
    <2>7. CASE StartRequest
        <3>1. PICK r \in Requests :
                /\ Receive(r)
                /\ TakeTxId(r)
                /\ IF r \in Unformattable
                   THEN Complete(r, "Internal") /\ UNCHANGED current
                   ELSE current' = r /\ UNCHANGED result
            BY <2>7 DEF StartRequest
        <3>2. tx_id' \in TxIds
            BY <3>1, ClientAssumption DEF TakeTxId, NextTxId, TxIds
        <3>3. /\ issued' \in Nat
              /\ serial' \in [Requests -> Nat]
              /\ txOf' \in [Requests -> TxIds]
            BY <3>1 DEF TakeTxId
        <3>4. result' \in [Requests -> Outcomes \cup {"unsubmitted", "pending"}]
            BY <3>1, CompleteType DEF Outcomes
        <3>5. queue' \in Seq(Commands) /\ current' \in Requests \cup {NoRequest}
            BY <3>1 DEF Receive
        <3>6. QED
            BY <2>7, <3>2, <3>3, <3>4, <3>5 DEF StartRequest, link
    <2>8. CASE WriteRequest
        BY <2>8 DEF WriteRequest, Executing
    <2>9. CASE DropUnexpected
        BY <2>9, NextFramesType DEF DropUnexpected, history
    <2>10. CASE SkipFrame
        BY <2>10, NextFramesType DEF SkipFrame, history
    <2>11. CASE HandleResponse
        <3>1. PICK n \in NextFrames :
                /\ buffer' = n.buffer /\ wire' = n.wire
                /\ Complete(current, handle_response(current, n.frame))
                /\ answer' = [answer EXCEPT ![current] = n.frame.req]
            BY <2>11 DEF HandleResponse
        <3>2. n.frame \in Frames /\ n.buffer \in Seq(Frames) /\ n.wire \in Seq(Frames)
            BY NextFramesType
        <3>3. handle_response(current, n.frame) \in Outcomes
            BY ResponseType
        <3>4. QED
            BY <2>11, <3>1, <3>2, <3>3 DEF HandleResponse, Executing, Complete, Frames
    <2>12. CASE ResponseTimeout
        BY <2>12 DEF ResponseTimeout, Executing, Complete, link, history, Outcomes
    <2>13. CASE ReadBadFrame
        <3>1. buffer' \in Seq(Frames)
            BY <2>13, NextFramesType DEF ReadBadFrame
        <3>2. result' \in [Requests -> Outcomes \cup {"unsubmitted", "pending"}]
            BY <2>13, CompleteType DEF ReadBadFrame, FailCurrent, Outcomes
        <3>3. QED
            BY <2>13, <3>1, <3>2, EndSessionType DEF ReadBadFrame, history, Returns
    <2>14. CASE IoFails
        <3>1. result' \in [Requests -> Outcomes \cup {"unsubmitted", "pending"}]
            BY <2>14, CompleteType DEF IoFails, FailCurrent, Outcomes
        <3>2. QED
            BY <2>14, <3>1, EndSessionType DEF IoFails, history, Returns
    <2>15. CASE PeerAnswers
        <3>1. PICK r \in peer, body \in Bodies :
                /\ peer' = peer \ {r}
                /\ wire' = IF loop = "run"
                           THEN Append(wire, [req |-> r, tx |-> txOf[r], body |-> body])
                           ELSE wire
            BY <2>15 DEF PeerAnswers
        <3>2. [req |-> r, tx |-> txOf[r], body |-> body] \in Frames
            BY DEF Frames
        <3>3. wire' \in Seq(Frames) /\ peer' \in SUBSET Requests
            BY <3>1, <3>2
        <3>4. QED
            BY <2>15, <3>3 DEF PeerAnswers, history
    <2>16. CASE Owner
        <3>1. ASSUME NEW m \in Calls, Call(m) PROVE LoopTypeOK'
            BY <3>1 DEF Call, link, history
        <3>2. CASE Cancel
            BY <3>2 DEF Cancel, link, history, Returns
        <3>3. CASE Drop
            <4>1. result' \in [Requests -> Outcomes \cup {"unsubmitted", "pending"}]
                BY <3>3 DEF Drop, Outcomes
            <4>2. QED
                <5>1. /\ queue' \in Seq(Commands) /\ wire' \in Seq(Frames)
                      /\ buffer' \in Seq(Frames) /\ peer' \in SUBSET Requests
                    BY <3>3 DEF Drop
                <5>2. /\ written' \in BOOLEAN
                      /\ current' \in Requests \cup {NoRequest}
                      /\ loop' \in Calls \cup Returns \cup {"dropped"}
                    BY <3>3 DEF Drop
                <5>3. QED
                    BY <3>3, <4>1, <5>1, <5>2 DEF Drop, history
        <3>4. QED
            BY <2>16, <3>1, <3>2, <3>3 DEF Owner
    <2>17. CASE UNCHANGED loopVars
        BY <2>17 DEF loopVars, link, history
    <2>18. QED
        BY <2>1, <2>2, <2>3, <2>4, <2>5, <2>6, <2>7, <2>8, <2>9, <2>10, <2>11, <2>12,
           <2>13, <2>14, <2>15, <2>16, <2>17 DEF LoopNext, LoopStep
<1>3. QED
    BY <1>1, <1>2, PTL DEF LoopSpec

-----------------------------------------------------------------------------
(* Every promise has one owner. *)

\* Receiving from a queue: its head, and the rest moved up by one.
LEMMA PopFacts ==
    ASSUME NEW S, NEW q \in Seq(S), q # <<>>
    PROVE  /\ 1 \in DOMAIN q /\ Head(q) = q[1]
           /\ \A i \in DOMAIN Tail(q) : i + 1 \in DOMAIN q /\ Tail(q)[i] = q[i + 1]
           /\ \A i \in DOMAIN q :
                i = 1 \/ (i - 1 \in DOMAIN Tail(q) /\ Tail(q)[i - 1] = q[i])
           /\ \A i \in DOMAIN Tail(q) : i \in Nat
OBVIOUS

\* Sending to a queue: what was in it stays, and the new command is the last.
LEMMA PushFacts ==
    ASSUME NEW S, NEW q \in Seq(S), NEW c \in S
    PROVE  /\ \A i \in DOMAIN Append(q, c) :
                \/ i \in DOMAIN q /\ Append(q, c)[i] = q[i]
                \/ i = Len(q) + 1 /\ Append(q, c)[i] = c
           /\ \A i \in DOMAIN q : i \in DOMAIN Append(q, c) /\ Append(q, c)[i] = q[i]
           /\ Len(q) + 1 \in DOMAIN Append(q, c) /\ Append(q, c)[Len(q) + 1] = c
           /\ Len(q) + 1 \notin DOMAIN q
OBVIOUS

\* The owner of a request loses it when it leaves the queue, and nobody else does.
LEMMA OwnedPop ==
    ASSUME LoopTypeOK, PendingOwned, NEW c, Receive(c)
    PROVE  /\ \A i \in DOMAIN queue' : queue'[i] # current
           /\ \A i, j \in DOMAIN queue' :
                queue'[i] = queue'[j] /\ queue'[i] \in Requests => i = j
           /\ \A x \in Requests :
                (\E i \in DOMAIN queue' : queue'[i] = x) <=> (Queued(x) /\ x # c)
           /\ c \in Requests => result[c] = "pending" /\ c # current
           /\ Queued(c)
<1> DEFINE q == queue
<1>1. q \in Seq(Commands) /\ q # <<>> /\ queue' = Tail(q) /\ c = q[1]
    BY PopFacts DEF Receive, LoopTypeOK
<1>2. /\ 1 \in DOMAIN q
      /\ \A i \in DOMAIN Tail(q) : i + 1 \in DOMAIN q /\ Tail(q)[i] = q[i + 1]
      /\ \A i \in DOMAIN q :
            i = 1 \/ (i - 1 \in DOMAIN Tail(q) /\ Tail(q)[i - 1] = q[i])
      /\ \A i \in DOMAIN Tail(q) : i \in Nat
    BY <1>1, PopFacts
<1>3. /\ \A i \in DOMAIN q : q[i] # current
      /\ \A i, j \in DOMAIN q : q[i] = q[j] /\ q[i] \in Requests => i = j
      /\ \A r \in Requests : result[r] = "pending" <=> Holds(r)
    BY DEF PendingOwned
<1>4. \A i \in DOMAIN Tail(q) : Tail(q)[i] # current
    BY <1>2, <1>3
<1>5. \A i, j \in DOMAIN Tail(q) :
        Tail(q)[i] = Tail(q)[j] /\ Tail(q)[i] \in Requests => i = j
    <2> SUFFICES ASSUME NEW i \in DOMAIN Tail(q), NEW j \in DOMAIN Tail(q),
                        Tail(q)[i] = Tail(q)[j], Tail(q)[i] \in Requests
                 PROVE  i = j
        OBVIOUS
    <2>1. i + 1 = j + 1
        BY <1>2, <1>3
    <2>2. QED
        BY <1>2, <2>1
<1>6. ASSUME NEW x \in Requests
      PROVE  (\E i \in DOMAIN Tail(q) : Tail(q)[i] = x) <=> (Queued(x) /\ x # c)
    <2>1. ASSUME NEW i \in DOMAIN Tail(q), Tail(q)[i] = x PROVE Queued(x) /\ x # c
        <3>1. i + 1 \in DOMAIN q /\ q[i + 1] = x /\ i + 1 # 1
            BY <1>2, <2>1
        <3>2. QED
            BY <1>1, <1>2, <1>3, <3>1 DEF Queued
    <2>2. ASSUME Queued(x), x # c PROVE \E i \in DOMAIN Tail(q) : Tail(q)[i] = x
        <3>1. PICK i \in DOMAIN q : q[i] = x
            BY <2>2 DEF Queued
        <3>2. i # 1
            BY <1>1, <2>2, <3>1
        <3>3. QED
            BY <1>2, <3>1, <3>2
    <2>3. QED
        BY <2>1, <2>2
<1>7. Queued(c)
    BY <1>1, <1>2 DEF Queued
<1>8. c \in Requests => result[c] = "pending" /\ c # current
    BY <1>1, <1>2, <1>3, <1>7 DEF Holds
<1>9. QED
    BY <1>1, <1>4, <1>5, <1>6, <1>7, <1>8

\* A step that touches neither the queue, nor the current request, nor a result
\* moves no promise.
LEMMA OwnedUnchanged ==
    ASSUME PendingOwned, UNCHANGED <<queue, current, result>>
    PROVE  PendingOwned'
BY DEF PendingOwned, Holds, Queued

\* A promise that is completed when it leaves the queue has no owner afterwards.
LEMMA OwnedPopDone ==
    ASSUME LoopTypeOK, PendingOwned, NEW r \in Requests, NEW o \in Outcomes,
           Receive(r), Complete(r, o), current' = current
    PROVE  PendingOwned'
<1>1. /\ \A i \in DOMAIN queue' : queue'[i] # current
      /\ \A i, j \in DOMAIN queue' :
            queue'[i] = queue'[j] /\ queue'[i] \in Requests => i = j
      /\ \A x \in Requests :
            (\E i \in DOMAIN queue' : queue'[i] = x) <=> (Queued(x) /\ x # r)
      /\ result[r] = "pending" /\ r # current
    BY OwnedPop
<1>2. result' = [result EXCEPT ![r] = o] /\ o # "pending"
    BY <1>1 DEF Complete, Outcomes
<1>3. ASSUME NEW x \in Requests PROVE result'[x] = "pending" <=> Holds(x)'
    <2>1. Holds(x)' <=> x = current \/ (Queued(x) /\ x # r)
        BY <1>1 DEF Holds, Queued
    <2>2. CASE x = r
        BY <1>1, <1>2, <2>1, <2>2 DEF LoopTypeOK
    <2>3. CASE x # r
        <3>1. result'[x] = result[x]
            BY <1>2, <2>3 DEF LoopTypeOK
        <3>2. result[x] = "pending" <=> x = current \/ Queued(x)
            BY DEF PendingOwned, Holds
        <3>3. QED
            BY <2>1, <2>3, <3>1, <3>2
    <2>4. QED
        BY <2>2, <2>3
<1>4. QED
    BY <1>1, <1>3 DEF PendingOwned

\* A setting owns no promise.
LEMMA OwnedSettingPop ==
    ASSUME LoopTypeOK, PendingOwned, NEW s \in Settings, Receive(s),
           result' = result, current' = current
    PROVE  PendingOwned'
<1>1. s \notin Requests
    BY CommandsDisjoint
<1>2. /\ \A i \in DOMAIN queue' : queue'[i] # current
      /\ \A i, j \in DOMAIN queue' :
            queue'[i] = queue'[j] /\ queue'[i] \in Requests => i = j
      /\ \A x \in Requests :
            (\E i \in DOMAIN queue' : queue'[i] = x) <=> (Queued(x) /\ x # s)
    BY OwnedPop
<1>3. ASSUME NEW x \in Requests PROVE result'[x] = "pending" <=> Holds(x)'
    <2>1. Holds(x)' <=> x = current \/ Queued(x)
        BY <1>1, <1>2 DEF Holds, Queued
    <2>2. QED
        BY <2>1 DEF PendingOwned, Holds
<1>4. QED
    BY <1>2, <1>3 DEF PendingOwned

\* The request run_one_request finishes gives its promise up.
LEMMA OwnedCurrentDone ==
    ASSUME LoopTypeOK, PendingOwned, current # NoRequest, NEW o \in Outcomes,
           Complete(current, o), current' = NoRequest, queue' = queue
    PROVE  PendingOwned'
<1>1. current \in Requests /\ result[current] = "pending"
    BY DEF LoopTypeOK, PendingOwned, Holds
<1>2. result' = [result EXCEPT ![current] = o] /\ o # "pending"
    BY <1>1 DEF Complete, Outcomes
<1>3. \A i \in DOMAIN queue : queue[i] # NoRequest
    BY CommandsDisjoint DEF LoopTypeOK
<1>4. NoRequest \notin Requests
    BY CommandsDisjoint DEF Commands
<1>5. ASSUME NEW x \in Requests PROVE result'[x] = "pending" <=> Holds(x)'
    <2>1. Holds(x)' <=> Queued(x)
        BY <1>4 DEF Holds, Queued
    <2>2. CASE x = current
        <3>1. ~Queued(x)
            BY <2>2 DEF PendingOwned, Queued
        <3>2. QED
            BY <1>2, <2>1, <2>2, <3>1 DEF LoopTypeOK
    <2>3. CASE x # current
        BY <1>2, <2>1, <2>3 DEF LoopTypeOK, PendingOwned, Holds
    <2>4. QED
        BY <2>2, <2>3
<1>6. QED
    BY <1>3, <1>5 DEF PendingOwned

\* Every promise has exactly one owner, the queue or the request in execution,
\* until it is completed: run_one_request and fail_next_request never lose one.
THEOREM Ownership == LoopSpec => []PendingOwned
<1>1. LoopInit => PendingOwned
    <2> SUFFICES ASSUME LoopInit PROVE PendingOwned
        OBVIOUS
    <2>1. NoRequest \notin Requests
        BY CommandsDisjoint DEF Commands
    <2>2. queue = <<>> /\ DOMAIN queue = {} /\ current = NoRequest
        BY DEF LoopInit
    <2>3. \A r \in Requests : result[r] # "pending"
        BY DEF LoopInit
    <2>4. QED
        BY <2>1, <2>2, <2>3 DEF PendingOwned, Holds, Queued
<1>2. LoopTypeOK /\ PendingOwned /\ [LoopNext]_loopVars => PendingOwned'
    <2> SUFFICES ASSUME LoopTypeOK, PendingOwned, [LoopNext]_loopVars PROVE PendingOwned'
        OBVIOUS
    <2>0. NoRequest \notin Requests
        BY CommandsDisjoint DEF Commands
    <2>1. ASSUME NEW r \in Requests, Submit(r) PROVE PendingOwned'
        <3>1. CASE queue' = queue /\ \E o \in {"BadRequest", "Shutdown"} :
                        result' = [result EXCEPT ![r] = o]
            <4>1. result[r] = "unsubmitted" /\ current' = current
                BY <2>1 DEF Submit, apiUnchanged
            <4>2. \A x \in Requests : result'[x] = "pending" <=> result[x] = "pending"
                BY <3>1, <4>1 DEF LoopTypeOK
            <4>3. QED
                BY <3>1, <4>1, <4>2 DEF PendingOwned, Holds, Queued
        <3>2. CASE queue' = Append(queue, r) /\ result' = [result EXCEPT ![r] = "pending"]
            <4>1. result[r] = "unsubmitted" /\ current' = current
                BY <2>1 DEF Submit, apiUnchanged
            <4>2. r # current /\ ~Queued(r)
                BY <4>1 DEF PendingOwned, Holds
            <4>3. queue \in Seq(Commands) /\ r \in Commands
                BY DEF LoopTypeOK, Commands
            <4>4. /\ \A i \in DOMAIN queue' :
                        \/ i \in DOMAIN queue /\ queue'[i] = queue[i]
                        \/ i = Len(queue) + 1 /\ queue'[i] = r
                  /\ \A i \in DOMAIN queue : i \in DOMAIN queue' /\ queue'[i] = queue[i]
                  /\ Len(queue) + 1 \in DOMAIN queue' /\ queue'[Len(queue) + 1] = r
                BY <3>2, <4>3, PushFacts
            <4>5. \A x \in Requests : Holds(x)' <=> Holds(x) \/ x = r
                BY <4>1, <4>4 DEF Holds, Queued
            <4>6. \A x \in Requests : result'[x] = "pending" <=> result[x] = "pending" \/ x = r
                BY <3>2 DEF LoopTypeOK
            <4>7. \A i \in DOMAIN queue' : queue'[i] # current'
                BY <4>1, <4>2, <4>4 DEF PendingOwned
            <4>8. \A i, j \in DOMAIN queue' :
                    queue'[i] = queue'[j] /\ queue'[i] \in Requests => i = j
                BY <4>2, <4>4 DEF PendingOwned, Queued
            <4>9. QED
                BY <4>5, <4>6, <4>7, <4>8 DEF PendingOwned
        <3>3. QED
            BY <2>1, <3>1, <3>2 DEF Submit
    <2>2. ASSUME NEW r \in Requests, TrySubmit(r) PROVE PendingOwned'
        <3>1. \A x \in Requests : result'[x] = "pending" <=> result[x] = "pending"
            BY <2>2 DEF TrySubmit, LoopTypeOK
        <3>2. QED
            BY <2>2, <3>1 DEF TrySubmit, apiUnchanged, PendingOwned, Holds, Queued
    <2>3. ASSUME NEW s \in Settings, SendSetting(s) PROVE PendingOwned'
        <3>1. s \in Commands /\ s \notin Requests /\ queue \in Seq(Commands)
            BY CommandsDisjoint DEF LoopTypeOK, Commands
        <3>2. queue' = Append(queue, s) /\ current' = current /\ result' = result
            BY <2>3 DEF SendSetting, apiUnchanged
        <3>3. /\ \A i \in DOMAIN queue' :
                    \/ i \in DOMAIN queue /\ queue'[i] = queue[i]
                    \/ i = Len(queue) + 1 /\ queue'[i] = s
              /\ \A i \in DOMAIN queue : i \in DOMAIN queue' /\ queue'[i] = queue[i]
            BY <3>1, <3>2, PushFacts
        <3>4. s # current
            BY <3>1, CommandsDisjoint DEF LoopTypeOK, Commands
        <3>5. \A x \in Requests : Holds(x)' <=> Holds(x)
            BY <3>1, <3>2, <3>3 DEF Holds, Queued
        <3>6. \A i \in DOMAIN queue' : queue'[i] # current'
            BY <3>2, <3>3, <3>4 DEF PendingOwned
        <3>7. \A i, j \in DOMAIN queue' :
                queue'[i] = queue'[j] /\ queue'[i] \in Requests => i = j
            BY <3>1, <3>3 DEF PendingOwned
        <3>8. QED
            BY <3>2, <3>5, <3>6, <3>7 DEF PendingOwned
    <2>4. CASE DropChannel
        BY <2>4, OwnedUnchanged DEF DropChannel, apiUnchanged
    <2>5. CASE FailNextRequest
        BY <2>5, OwnedPopDone DEF FailNextRequest, Outcomes
    <2>6. CASE FailNextSetting
        BY <2>6, OwnedSettingPop DEF FailNextSetting
    <2>7. CASE PollSetting
        <3>1. current' = current /\ result' = result
            BY <2>7 DEF PollSetting, EndSession, Idle
        <3>2. QED
            BY <2>7, <3>1, OwnedSettingPop DEF PollSetting
    <2>8. CASE StartRequest
        <3>1. PICK r \in Requests :
                /\ Receive(r)
                /\ IF r \in Unformattable
                   THEN Complete(r, "Internal") /\ UNCHANGED current
                   ELSE current' = r /\ UNCHANGED result
            BY <2>8 DEF StartRequest
        <3>2. CASE r \in Unformattable
            BY <3>1, <3>2, OwnedPopDone DEF Outcomes
        <3>3. CASE r \notin Unformattable
            <4>1. current' = r /\ result' = result /\ current = NoRequest
                BY <2>8, <3>1, <3>3 DEF StartRequest, Idle
            <4>2. /\ \A i, j \in DOMAIN queue' :
                        queue'[i] = queue'[j] /\ queue'[i] \in Requests => i = j
                  /\ \A x \in Requests :
                        (\E i \in DOMAIN queue' : queue'[i] = x) <=> (Queued(x) /\ x # r)
                  /\ Queued(r)
                BY <3>1, OwnedPop
            <4>3. \A x \in Requests : Holds(x)' <=> Holds(x)
                BY <2>0, <4>1, <4>2 DEF Holds, Queued
            <4>4. \A i \in DOMAIN queue' : queue'[i] # r
                BY <4>2
            <4>5. QED
                BY <4>1, <4>2, <4>3, <4>4 DEF PendingOwned
        <3>4. QED
            BY <3>2, <3>3
    <2>9. CASE HandleResponse
        <3>1. PICK o \in Outcomes : Complete(current, o)
            BY <2>9, ResponseType DEF HandleResponse
        <3>2. QED
            BY <2>9, <3>1, OwnedCurrentDone DEF HandleResponse, Executing
    <2>10. CASE ResponseTimeout
        BY <2>10, OwnedCurrentDone DEF ResponseTimeout, Executing, Outcomes
    <2>11. CASE ReadBadFrame \/ IoFails
        <3>1. current' = NoRequest /\ queue' = queue
            BY <2>11 DEF ReadBadFrame, IoFails, EndSession
        <3>2. PICK o \in Outcomes : FailCurrent(o)
            BY <2>11 DEF ReadBadFrame, IoFails, Outcomes
        <3>3. CASE current = NoRequest
            BY <3>1, <3>2, <3>3, OwnedUnchanged DEF FailCurrent
        <3>4. CASE current # NoRequest
            BY <3>1, <3>2, <3>4, OwnedCurrentDone DEF FailCurrent
        <3>5. QED
            BY <3>3, <3>4
    <2>12. CASE Drop
        <3>1. queue' = <<>> /\ DOMAIN queue' = {} /\ current' = NoRequest
            BY <2>12 DEF Drop
        <3>2. \A x \in Requests : result'[x] # "pending"
            BY <2>12 DEF Drop, PendingOwned
        <3>3. QED
            BY <2>0, <3>1, <3>2 DEF PendingOwned, Holds, Queued
    <2>13. CASE \/ WaitForEnabledDone \/ ReceiveClosed \/ WriteRequest
               \/ DropUnexpected \/ SkipFrame \/ PeerAnswers \/ Cancel
               \/ \E m \in Calls : Call(m)
        BY <2>13, OwnedUnchanged
           DEF WaitForEnabledDone, ReceiveClosed, WriteRequest, DropUnexpected, SkipFrame,
               PeerAnswers, Cancel, Call
    <2>14. CASE UNCHANGED loopVars
        BY <2>14, OwnedUnchanged DEF loopVars
    <2>15. QED
        BY <2>1, <2>2, <2>3, <2>4, <2>5, <2>6, <2>7, <2>8, <2>9, <2>10, <2>11, <2>12,
           <2>13, <2>14 DEF LoopNext, Api, LoopStep, Owner
<1>3. QED
    BY <1>1, <1>2, TypeCorrect, PTL DEF LoopSpec

-----------------------------------------------------------------------------
(* A request is completed with its own response. *)

\* What next_frame returns and what it leaves were on their way before.
LEMMA NextFramesInFlight ==
    ASSUME wire \in Seq(Frames), buffer \in Seq(Frames), NEW n \in NextFrames
    PROVE  /\ n.frame \in InFlight
           /\ \A i \in DOMAIN n.buffer : n.buffer[i] \in InFlight
           /\ \A i \in DOMAIN n.wire : n.wire[i] \in InFlight
<1>1. CASE buffer # <<>>
    <2>1. n = [frame |-> Head(buffer), buffer |-> Tail(buffer), wire |-> wire]
        BY <1>1 DEF NextFrames
    <2>2. /\ 1 \in DOMAIN buffer /\ Head(buffer) = buffer[1]
          /\ \A i \in DOMAIN Tail(buffer) :
                i + 1 \in DOMAIN buffer /\ Tail(buffer)[i] = buffer[i + 1]
        BY <1>1, PopFacts
    <2>3. QED
        BY <2>1, <2>2 DEF InFlight
<1>2. CASE buffer = <<>>
    <2>1. PICK k \in 1..Len(wire) :
            n = [frame |-> Head(wire), buffer |-> SubSeq(wire, 2, k),
                 wire |-> SubSeq(wire, k + 1, Len(wire))]
        BY <1>2 DEF NextFrames
    <2>2. wire # <<>> /\ 1 \in DOMAIN wire /\ Head(wire) = wire[1]
        BY <2>1
    <2>3. \A i \in DOMAIN SubSeq(wire, 2, k) :
            i + 1 \in DOMAIN wire /\ SubSeq(wire, 2, k)[i] = wire[i + 1]
        BY <2>1
    <2>4. \A i \in DOMAIN SubSeq(wire, k + 1, Len(wire)) :
            i + k \in DOMAIN wire /\ SubSeq(wire, k + 1, Len(wire))[i] = wire[i + k]
        BY <2>1
    <2>5. QED
        BY <2>1, <2>2, <2>3, <2>4 DEF InFlight
<1>3. QED
    BY <1>1, <1>2

\* A step that issues no transaction id and takes no response keeps TxInv if
\* completed requests stay as they are, the request it gives up is completed,
\* and what is on its way was on its way or answers a request the device held.
LEMMA TxQuiet ==
    ASSUME LoopTypeOK, TxInv, OwnAnswer,
           UNCHANGED <<tx_id, issued, serial, txOf, answer>>,
           \A r \in Requests : result[r] \in Outcomes => result'[r] = result[r],
           \A r \in Requests : result'[r] = "Ok" => result[r] = "Ok",
           \/ current' = current
           \/ current' = NoRequest /\ (current # NoRequest => result'[current] \in Outcomes),
           \A r \in peer' : r \in peer \/ (r \in Requests /\ serial[r] # 0),
           \A f \in InFlight' : f \in InFlight \/ (f.req \in peer /\ f.tx = txOf[f.req])
    PROVE  TxInv' /\ OwnAnswer'
<1>1. SerialInv'
    BY DEF TxInv, SerialInv, LoopTypeOK
<1>2. FrameInv'
    BY DEF TxInv, FrameInv
<1>3. CycleInv' /\ DistinctInv'
    BY DEF TxInv, CycleInv, DistinctInv
<1>4. AnswerInv'
    BY DEF TxInv, AnswerInv
<1>5. OwnAnswer'
    BY DEF OwnAnswer
<1>6. QED
    BY <1>1, <1>2, <1>3, <1>4, <1>5 DEF TxInv

\* NextTxId is the successor, modulo the number of ids.
LEMMA NextTxIdFacts ==
    ASSUME LoopTypeOK
    PROVE  \/ NextTxId = tx_id + 1
           \/ NextTxId = 0 /\ TxMod = tx_id + 1
BY ClientAssumption DEF LoopTypeOK, NextTxId, TxIds

\* Taking an id for a request that has none keeps TxInv.
LEMMA TxIssue ==
    ASSUME LoopTypeOK, PendingOwned, TxInv, OwnAnswer, StartRequest
    PROVE  TxInv' /\ OwnAnswer'
<1>1. PICK r \in Requests :
        /\ Receive(r)
        /\ TakeTxId(r)
        /\ IF r \in Unformattable
           THEN Complete(r, "Internal") /\ UNCHANGED current
           ELSE current' = r /\ UNCHANGED result
    BY DEF StartRequest
<1>2. current = NoRequest /\ UNCHANGED <<peer, wire, buffer, answer>>
    BY DEF StartRequest, Idle, link
<1>3. result[r] = "pending" /\ r # NoRequest
    BY <1>1, OwnedPop, CommandsDisjoint DEF Commands
<1>4. serial[r] = 0
    BY <1>2, <1>3 DEF TxInv, SerialInv, Outcomes
<1>5. /\ tx_id' = NextTxId
      /\ issued' = issued + 1
      /\ serial' = [serial EXCEPT ![r] = issued + 1]
      /\ txOf' = [txOf EXCEPT ![r] = tx_id]
    BY <1>1 DEF TakeTxId
<1>6. \A x \in Requests : x # r => serial'[x] = serial[x] /\ txOf'[x] = txOf[x]
    BY <1>5 DEF LoopTypeOK
<1>7. serial'[r] = issued + 1 /\ txOf'[r] = tx_id
    BY <1>5 DEF LoopTypeOK
<1>8. /\ \A x \in Requests : x # r => result'[x] = result[x]
      /\ result'[r] \in {"pending", "Internal"}
    BY <1>1, <1>3 DEF Complete, LoopTypeOK
<1>9. SerialInv'
    <2>1. \A x \in Requests : serial'[x] <= issued'
        BY <1>5, <1>6, <1>7 DEF LoopTypeOK, TxInv, SerialInv
    <2>2. \A x \in Requests : serial'[x] # 0 => x = current' \/ result'[x] \in Outcomes
        <3>1. ASSUME NEW x \in Requests, x # r, serial'[x] # 0
              PROVE  result'[x] \in Outcomes
            BY <1>2, <1>6, <1>8, <3>1, CommandsDisjoint DEF TxInv, SerialInv, Commands
        <3>2. r = current' \/ result'[r] \in Outcomes
            BY <1>1, <1>3 DEF Complete, LoopTypeOK, Outcomes
        <3>3. QED
            BY <3>1, <3>2
    <2>3. current' # NoRequest => serial'[current'] = issued' /\ issued' # 0
        BY <1>1, <1>2, <1>5, <1>7 DEF LoopTypeOK
    <2>4. QED
        BY <2>1, <2>2, <2>3 DEF SerialInv
<1>10. FrameInv'
    <2>1. \A x \in peer : x # r
        BY <1>4 DEF TxInv, FrameInv
    <2>2. \A f \in InFlight : f.req # r /\ f.req \in Requests
        <3>1. InFlight \subseteq Frames
            BY DEF InFlight, LoopTypeOK
        <3>2. QED
            BY <1>4, <3>1 DEF TxInv, FrameInv, Frames
    <2>3. InFlight' = InFlight
        BY <1>2 DEF InFlight
    <2>4. QED
        BY <1>2, <1>6, <2>1, <2>2, <2>3 DEF TxInv, FrameInv, LoopTypeOK
<1>11. CycleInv'
    <2>1. SUFFICES ASSUME NEW x \in Requests,
                          serial'[x] # 0, issued' + 1 < serial'[x] + TxMod
                   PROVE  \/ tx_id' + serial'[x] = txOf'[x] + issued' + 1
                          \/ tx_id' + serial'[x] + TxMod = txOf'[x] + issued' + 1
        BY DEF CycleInv
    <2>2. /\ tx_id \in Nat /\ tx_id' \in Nat /\ issued \in Nat /\ TxMod \in Nat
          /\ serial[x] \in Nat /\ txOf[x] \in Nat /\ issued' = issued + 1
          /\ tx_id' = tx_id + 1 \/ (tx_id' = 0 /\ TxMod = tx_id + 1)
          /\ txOf[x] < TxMod /\ tx_id < TxMod
        BY <1>5, NextTxIdFacts, ClientAssumption DEF LoopTypeOK, TxIds, NextTxId
    <2>3. CASE x = r
        BY <1>7, <2>2, <2>3
    <2>4. CASE x # r
        <3>1. serial'[x] = serial[x] /\ txOf'[x] = txOf[x]
            BY <1>6, <2>4
        <3>2. \/ tx_id + serial[x] = txOf[x] + issued + 1
              \/ tx_id + serial[x] + TxMod = txOf[x] + issued + 1
            BY <2>1, <2>2, <3>1 DEF TxInv, CycleInv
        <3>3. issued + 2 < serial[x] + TxMod
            BY <2>1, <2>2, <3>1
        <3>4. CASE tx_id' = tx_id + 1
            BY <2>2, <3>1, <3>2, <3>4
        <3>5. CASE tx_id' = 0 /\ TxMod = tx_id + 1 /\ tx_id + serial[x] = txOf[x] + issued + 1
            BY <2>2, <3>1, <3>5
        <3>6. CASE /\ tx_id' = 0 /\ TxMod = tx_id + 1
                   /\ tx_id + serial[x] + TxMod = txOf[x] + issued + 1
            BY <2>2, <3>3, <3>6
        <3>7. QED
            BY <2>2, <3>2, <3>4, <3>5, <3>6
    <2>5. QED
        BY <2>3, <2>4
<1>12. DistinctInv'
    <2>1. SUFFICES ASSUME NEW x \in Requests, NEW y \in Requests,
                          serial'[x] # 0, serial'[y] # 0, x # y,
                          serial'[x] <= serial'[y], serial'[y] < serial'[x] + TxMod
                   PROVE  txOf'[x] # txOf'[y]
        BY DEF DistinctInv
    <2>2. /\ tx_id \in Nat /\ issued \in Nat /\ TxMod \in Nat
          /\ serial[x] \in Nat /\ txOf[x] \in Nat /\ serial[y] \in Nat
          /\ serial[x] <= issued
        BY ClientAssumption DEF LoopTypeOK, TxIds, TxInv, SerialInv
    <2>3. CASE y = r
        <3>1. serial'[x] = serial[x] /\ txOf'[x] = txOf[x]
            BY <1>6, <2>1, <2>3
        <3>2. \/ tx_id + serial[x] = txOf[x] + issued + 1
              \/ tx_id + serial[x] + TxMod = txOf[x] + issued + 1
            BY <1>7, <2>1, <2>2, <2>3, <3>1 DEF TxInv, CycleInv
        <3>3. QED
            BY <1>7, <2>1, <2>2, <2>3, <3>1, <3>2
    <2>4. CASE x = r
        <3>1. serial'[y] = serial[y] /\ serial[y] <= issued
            BY <1>6, <2>1, <2>4 DEF TxInv, SerialInv
        <3>2. QED
            BY <1>7, <2>1, <2>2, <2>4, <3>1
    <2>5. CASE x # r /\ y # r
        BY <1>6, <2>1, <2>5 DEF TxInv, DistinctInv
    <2>6. QED
        BY <2>3, <2>4, <2>5
<1>13. ASSUME NEW x \in Requests, result'[x] = "Ok"
       PROVE  x # r /\ result[x] = "Ok" /\ answer[x] # r
    BY <1>4, <1>8, <1>13 DEF TxInv, AnswerInv
<1>14. AnswerInv'
    BY <1>2, <1>6, <1>13 DEF TxInv, AnswerInv
<1>15. OwnAnswer'
    BY <1>2, <1>6, <1>13 DEF TxInv, AnswerInv, OwnAnswer
<1>16. QED
    BY <1>9, <1>10, <1>11, <1>12, <1>14, <1>15 DEF TxInv

\* Taking a response keeps TxInv, and the response is the request's own or a full
\* cycle of ids older.
LEMMA TxAnswer ==
    ASSUME LoopTypeOK, PendingOwned, TxInv, OwnAnswer, HandleResponse
    PROVE  TxInv' /\ OwnAnswer'
<1>1. PICK n \in NextFrames :
        /\ IsResponse(n.frame)
        /\ buffer' = n.buffer /\ wire' = n.wire
        /\ Complete(current, handle_response(current, n.frame))
        /\ answer' = [answer EXCEPT ![current] = n.frame.req]
    BY DEF HandleResponse
<1>2. /\ current \in Requests /\ current # NoRequest /\ current' = NoRequest
      /\ UNCHANGED <<peer, tx_id, issued, serial, txOf>>
    BY DEF HandleResponse, Executing, LoopTypeOK
<1>3. /\ n.frame \in Frames /\ n.frame \in InFlight
      /\ \A i \in DOMAIN n.buffer : n.buffer[i] \in InFlight
      /\ \A i \in DOMAIN n.wire : n.wire[i] \in InFlight
    BY NextFramesType, NextFramesInFlight DEF LoopTypeOK
<1>4. InFlight' \subseteq InFlight
    BY <1>1, <1>3 DEF InFlight
<1>5. /\ n.frame.req \in Requests /\ serial[n.frame.req] # 0
      /\ n.frame.tx = txOf[n.frame.req]
    BY <1>3 DEF Frames, TxInv, FrameInv
<1>6. result[current] = "pending"
    BY <1>2 DEF PendingOwned, Holds
<1>7. /\ result' = [result EXCEPT ![current] = handle_response(current, n.frame)]
      /\ result'[current] \in Outcomes
      /\ \A x \in Requests : x # current => result'[x] = result[x]
    BY <1>1, <1>2, <1>6, ResponseType DEF Complete, LoopTypeOK
<1>8. /\ answer'[current] = n.frame.req
      /\ \A x \in Requests : x # current => answer'[x] = answer[x]
    BY <1>1, <1>2 DEF LoopTypeOK
<1>9. serial[current] = issued /\ serial[current] # 0
    BY <1>2 DEF TxInv, SerialInv
<1>10. SerialInv'
    BY <1>2, <1>7 DEF TxInv, SerialInv
<1>11. FrameInv'
    BY <1>2, <1>4 DEF TxInv, FrameInv
<1>12. CycleInv' /\ DistinctInv'
    BY <1>2 DEF TxInv, CycleInv, DistinctInv
<1>13. AnswerInv'
    BY <1>2, <1>5, <1>7, <1>8, <1>9 DEF TxInv, AnswerInv
<1>14. OwnAnswer'
    <2> SUFFICES ASSUME Mbap, NEW x \in Requests, result'[x] = "Ok"
                 PROVE  answer'[x] = x \/ serial[x] >= serial[answer'[x]] + TxMod
        BY <1>2 DEF OwnAnswer
    <2>1. CASE x # current
        BY <1>7, <1>8, <2>1 DEF OwnAnswer
    <2>2. CASE x = current /\ n.frame.req # current
        <3>1. txOf[n.frame.req] = txOf[current]
            BY <1>1, <1>5 DEF IsResponse
        <3>2. serial[n.frame.req] <= serial[current]
            BY <1>5, <1>9 DEF TxInv, SerialInv
        <3>3. ~(serial[current] < serial[n.frame.req] + TxMod)
            BY <1>2, <1>5, <1>9, <2>2, <3>1, <3>2 DEF TxInv, DistinctInv
        <3>4. /\ serial[current] \in Nat /\ serial[n.frame.req] \in Nat
              /\ TxMod \in Nat
            BY <1>2, <1>5, ClientAssumption DEF LoopTypeOK
        <3>5. QED
            BY <1>8, <2>2, <3>3, <3>4
    <2>3. CASE x = current /\ n.frame.req = current
        BY <1>8, <2>3
    <2>4. QED
        BY <2>1, <2>2, <2>3
<1>15. QED
    BY <1>10, <1>11, <1>12, <1>13, <1>14 DEF TxInv

\* The ids in use and on their way back tell how long ago they were issued.
THEOREM TxInvariant == LoopSpec => [](TxInv /\ OwnAnswer)
<1>1. LoopInit => TxInv /\ OwnAnswer
    <2> SUFFICES ASSUME LoopInit PROVE TxInv /\ OwnAnswer
        OBVIOUS
    <2>1. \A r \in Requests : serial[r] = 0 /\ result[r] = "unsubmitted"
        BY DEF LoopInit
    <2>2. wire = <<>> /\ buffer = <<>> /\ DOMAIN wire = {} /\ DOMAIN buffer = {}
        BY DEF LoopInit
    <2>3. InFlight = {} /\ peer = {}
        BY <2>2 DEF InFlight, LoopInit
    <2>4. SerialInv
        BY <2>1 DEF LoopInit, SerialInv
    <2>5. FrameInv /\ CycleInv /\ DistinctInv /\ AnswerInv /\ OwnAnswer
        BY <2>1, <2>3 DEF FrameInv, CycleInv, DistinctInv, AnswerInv, OwnAnswer
    <2>6. QED
        BY <2>4, <2>5 DEF TxInv
<1>2. LoopTypeOK /\ PendingOwned /\ TxInv /\ OwnAnswer /\ [LoopNext]_loopVars
        => TxInv' /\ OwnAnswer'
    <2> SUFFICES ASSUME LoopTypeOK, PendingOwned, TxInv, OwnAnswer, [LoopNext]_loopVars
                 PROVE  TxInv' /\ OwnAnswer'
        OBVIOUS
    <2>0. "Ok" \in Outcomes /\ "pending" \notin Outcomes /\ "unsubmitted" \notin Outcomes
        BY DEF Outcomes
    <2>1. CASE Api
        <3>1. UNCHANGED <<tx_id, issued, serial, txOf, answer, current, peer, wire, buffer>>
            BY <2>1 DEF Api, Submit, TrySubmit, SendSetting, DropChannel, apiUnchanged,
                link, history
        <3>2. \/ result' = result
              \/ \E r \in Requests, o \in {"pending", "BadRequest", "Shutdown"} :
                    result[r] = "unsubmitted" /\ result' = [result EXCEPT ![r] = o]
            BY <2>1 DEF Api, Submit, TrySubmit, SendSetting, DropChannel
        <3>3. /\ \A r \in Requests : result[r] \in Outcomes => result'[r] = result[r]
              /\ \A r \in Requests : result'[r] = "Ok" => result[r] = "Ok"
            BY <2>0, <3>2 DEF LoopTypeOK
        <3>4. InFlight' = InFlight
            BY <3>1 DEF InFlight
        <3>5. QED
            BY <3>1, <3>3, <3>4, TxQuiet
    <2>2. CASE FailNextRequest
        <3>1. PICK r \in Requests : Complete(r, "NoConnection")
            BY <2>2 DEF FailNextRequest
        <3>2. UNCHANGED <<tx_id, issued, serial, txOf, answer, current, peer, wire, buffer>>
            BY <2>2 DEF FailNextRequest, link, history
        <3>3. /\ \A x \in Requests : result[x] \in Outcomes => result'[x] = result[x]
              /\ \A x \in Requests : result'[x] = "Ok" => result[x] = "Ok"
            BY <2>0, <3>1 DEF Complete, LoopTypeOK
        <3>4. InFlight' = InFlight
            BY <3>2 DEF InFlight
        <3>5. QED
            BY <3>2, <3>3, <3>4, TxQuiet
    <2>3. CASE FailNextSetting \/ WaitForEnabledDone \/ Cancel \/ \E m \in Calls : Call(m)
        <3>1. UNCHANGED <<tx_id, issued, serial, txOf, answer, current, result,
                          peer, wire, buffer>>
            BY <2>3 DEF FailNextSetting, WaitForEnabledDone, Cancel, Call, link, history
        <3>2. InFlight' = InFlight
            BY <3>1 DEF InFlight
        <3>3. QED
            BY <3>1, <3>2, TxQuiet
    <2>4. CASE ReceiveClosed \/ PollSetting
        <3>1. /\ UNCHANGED <<tx_id, issued, serial, txOf, answer, result, buffer, current>>
              /\ wire' = wire \/ wire' = <<>>
              /\ peer' \subseteq peer
            BY <2>4 DEF ReceiveClosed, PollSetting, EndSession, Idle, history
        <3>2. InFlight' \subseteq InFlight
            BY <3>1 DEF InFlight
        <3>3. QED
            BY <3>1, <3>2, TxQuiet
    <2>5. CASE StartRequest
        BY <2>5, TxIssue
    <2>6. CASE WriteRequest
        <3>1. /\ UNCHANGED <<tx_id, issued, serial, txOf, answer, result, buffer, current, wire>>
              /\ current \in Requests /\ serial[current] # 0
              /\ peer' = peer \cup {current}
            BY <2>6 DEF WriteRequest, Executing, LoopTypeOK, TxInv, SerialInv
        <3>2. InFlight' = InFlight
            BY <3>1 DEF InFlight
        <3>3. QED
            BY <3>1, <3>2, TxQuiet
    <2>7. CASE DropUnexpected \/ SkipFrame
        <3>1. /\ UNCHANGED <<tx_id, issued, serial, txOf, answer, result, current, peer>>
              /\ \E n \in NextFrames : buffer' = n.buffer /\ wire' = n.wire
            BY <2>7 DEF DropUnexpected, SkipFrame, history
        <3>2. InFlight' \subseteq InFlight
            <4>1. /\ \A i \in DOMAIN buffer' : buffer'[i] \in InFlight
                  /\ \A i \in DOMAIN wire' : wire'[i] \in InFlight
                BY <3>1, NextFramesInFlight DEF LoopTypeOK
            <4>2. QED
                BY <4>1 DEF InFlight
        <3>3. QED
            BY <3>1, <3>2, TxQuiet
    <2>8. CASE HandleResponse
        BY <2>8, TxAnswer
    <2>9. CASE ResponseTimeout \/ ReadBadFrame \/ IoFails
        <3>1. /\ UNCHANGED <<tx_id, issued, serial, txOf, answer>>
              /\ current' = NoRequest
              /\ peer' \subseteq peer
              /\ wire' = wire \/ wire' = <<>>
            BY <2>9 DEF ResponseTimeout, ReadBadFrame, IoFails, EndSession, link, history
        <3>2. InFlight' \subseteq InFlight
            <4>1. \A i \in DOMAIN buffer' : buffer'[i] \in InFlight
                <5>1. CASE buffer' = buffer
                    BY <5>1 DEF InFlight
                <5>2. CASE \E n \in NextFrames : buffer' = n.buffer
                    BY <5>2, NextFramesInFlight DEF LoopTypeOK
                <5>3. QED
                    BY <2>9, <5>1, <5>2 DEF ResponseTimeout, ReadBadFrame, IoFails, link
            <4>2. QED
                BY <3>1, <4>1 DEF InFlight
        <3>3. PICK o \in Outcomes : o # "Ok" /\ FailCurrent(o)
            BY <2>9 DEF ResponseTimeout, ReadBadFrame, IoFails, FailCurrent, Outcomes,
                Executing
        <3>4. current # NoRequest => current \in Requests /\ result[current] = "pending"
            BY DEF LoopTypeOK, PendingOwned, Holds
        <3>5. /\ \A x \in Requests : result[x] \in Outcomes => result'[x] = result[x]
              /\ \A x \in Requests : result'[x] = "Ok" => result[x] = "Ok"
              /\ current # NoRequest => result'[current] \in Outcomes
            BY <2>0, <3>3, <3>4 DEF FailCurrent, Complete, LoopTypeOK
        <3>6. QED
            BY <3>1, <3>2, <3>5, TxQuiet
    <2>10. CASE PeerAnswers
        <3>1. PICK r \in peer, body \in Bodies :
                /\ peer' = peer \ {r}
                /\ wire' = IF loop = "run"
                           THEN Append(wire, [req |-> r, tx |-> txOf[r], body |-> body])
                           ELSE wire
            BY <2>10 DEF PeerAnswers
        <3>2. UNCHANGED <<tx_id, issued, serial, txOf, answer, result, current, buffer>>
            BY <2>10 DEF PeerAnswers, history
        <3>3. [req |-> r, tx |-> txOf[r], body |-> body] \in Frames
            BY DEF Frames, LoopTypeOK
        <3>4. \A i \in DOMAIN wire' :
                \/ wire'[i] \in InFlight
                \/ wire'[i].req \in peer /\ wire'[i].tx = txOf[wire'[i].req]
            <4>1. CASE loop = "run"
                <5>1. \A i \in DOMAIN wire' :
                        \/ i \in DOMAIN wire /\ wire'[i] = wire[i]
                        \/ wire'[i] = [req |-> r, tx |-> txOf[r], body |-> body]
                    BY <3>1, <3>3, <4>1, PushFacts DEF LoopTypeOK
                <5>2. QED
                    BY <3>1, <5>1 DEF InFlight
            <4>2. CASE loop # "run"
                BY <3>1, <4>2 DEF InFlight
            <4>3. QED
                BY <4>1, <4>2
        <3>5. \A f \in InFlight' : f \in InFlight \/ (f.req \in peer /\ f.tx = txOf[f.req])
            BY <3>2, <3>4 DEF InFlight
        <3>6. QED
            BY <3>1, <3>2, <3>5, TxQuiet
    <2>11. CASE Drop
        <3>1. /\ UNCHANGED <<tx_id, issued, serial, txOf, answer>>
              /\ current' = NoRequest /\ peer' = {} /\ wire' = <<>> /\ buffer' = <<>>
            BY <2>11 DEF Drop, history
        <3>2. DOMAIN wire' = {} /\ DOMAIN buffer' = {}
            BY <3>1
        <3>3. InFlight' = {}
            BY <3>2 DEF InFlight
        <3>4. current # NoRequest => current \in Requests /\ result[current] = "pending"
            BY DEF LoopTypeOK, PendingOwned, Holds
        <3>5. \A x \in Requests :
                result'[x] = IF Holds(x) /\ result[x] = "pending" THEN "Shutdown" ELSE result[x]
            BY <2>11 DEF Drop
        <3>6. /\ \A x \in Requests : result[x] \in Outcomes => result'[x] = result[x]
              /\ \A x \in Requests : result'[x] = "Ok" => result[x] = "Ok"
            BY <2>0, <3>5
        <3>7. current # NoRequest => result'[current] \in Outcomes
            BY <3>4, <3>5 DEF Holds, Outcomes
        <3>8. QED
            BY <3>1, <3>3, <3>6, <3>7, TxQuiet
    <2>12. CASE UNCHANGED loopVars
        <3>1. UNCHANGED <<tx_id, issued, serial, txOf, answer, current, result,
                          peer, wire, buffer>>
            BY <2>12 DEF loopVars, link, history
        <3>2. InFlight' = InFlight
            BY <3>1 DEF InFlight
        <3>3. QED
            BY <3>1, <3>2, TxQuiet
    <2>13. QED
        BY <2>1, <2>2, <2>3, <2>4, <2>5, <2>6, <2>7, <2>8, <2>9, <2>10, <2>11, <2>12
           DEF LoopNext, LoopStep, Owner
<1>3. QED
    BY <1>1, <1>2, TypeCorrect, Ownership, PTL DEF LoopSpec

\* With transaction ids, a request is completed by its own response, or by one to
\* a request that is a full cycle of ids older: matching the id in
\* execute_request is enough, over timeouts, reconnects and late responses.
THEOREM AnswersAreOwn == LoopSpec => []OwnAnswer
BY TxInvariant, PTL

-----------------------------------------------------------------------------
\* No session runs on a disabled channel: poll leaves run with the setting that
\* disables it, and fail_requests never turns into run while disabled.
THEOREM SessionsAreEnabled == LoopSpec => []RunsOnlyEnabled
<1>1. LoopInit => RunsOnlyEnabled
    BY DEF LoopInit, RunsOnlyEnabled
<1>2. RunsOnlyEnabled /\ [LoopNext]_loopVars => RunsOnlyEnabled'
    <2> SUFFICES ASSUME RunsOnlyEnabled, [LoopNext]_loopVars PROVE RunsOnlyEnabled'
        OBVIOUS
    <2>1. CASE FailNextSetting
        BY <2>1 DEF FailNextSetting, RunsOnlyEnabled
    <2>2. CASE PollSetting
        BY <2>2 DEF PollSetting, EndSession, RunsOnlyEnabled
    <2>3. CASE \E m \in Calls : (m = "run" => enabled) /\ Call(m)
        BY <2>3 DEF Call, RunsOnlyEnabled
    <2>4. CASE Api
        BY <2>4 DEF Api, Submit, TrySubmit, SendSetting, DropChannel, apiUnchanged,
            RunsOnlyEnabled
    <2>5. CASE \/ FailNextRequest \/ WaitForEnabledDone \/ ReceiveClosed \/ StartRequest
              \/ WriteRequest \/ DropUnexpected \/ SkipFrame \/ HandleResponse
              \/ ResponseTimeout \/ PeerAnswers \/ Cancel \/ Drop
        BY <2>5 DEF FailNextRequest, WaitForEnabledDone, ReceiveClosed, StartRequest,
            WriteRequest, DropUnexpected, SkipFrame, HandleResponse, ResponseTimeout,
            PeerAnswers, Cancel, Drop, RunsOnlyEnabled
    <2>6. CASE ReadBadFrame \/ IoFails
        BY <2>6 DEF ReadBadFrame, IoFails, EndSession, RunsOnlyEnabled
    <2>7. CASE UNCHANGED loopVars
        BY <2>7 DEF loopVars, RunsOnlyEnabled
    <2>8. QED
        BY <2>1, <2>2, <2>3, <2>4, <2>5, <2>6, <2>7 DEF LoopNext, LoopStep, Owner
<1>3. QED
    BY <1>1, <1>2, PTL DEF LoopSpec

-----------------------------------------------------------------------------
(* The loop implements RequestService. *)

\* A step that changes neither what callers know nor what was sent stutters.
LEMMA ServiceStutter ==
    ASSUME SentInv, UNCHANGED <<result, sent, current, written>>
    PROVE  SentInv' /\ [Service!Next]_(Service!vars)
BY DEF SentInv, Service!vars

\* Failing a request that was taken from the queue.
LEMMA ServiceFailQueued ==
    ASSUME LoopTypeOK, PendingOwned, SentInv, NEW r \in Requests, Receive(r),
           NEW o \in {"NoConnection", "Internal"}, Complete(r, o),
           UNCHANGED <<sent, current, written>>
    PROVE  SentInv' /\ [Service!Next]_(Service!vars)
<1>1. result[r] = "pending" /\ r # current
    BY OwnedPop
<1>2. r \notin sent
    BY <1>1 DEF SentInv
<1>3. result' = [result EXCEPT ![r] = o]
    BY <1>1 DEF Complete
<1>4. SentInv'
    BY <1>2, <1>3 DEF SentInv, LoopTypeOK
<1>5. Service!Finish(r)
    BY <1>1, <1>2, <1>3 DEF Service!Finish, Service!Unsent, Service!Either
<1>6. QED
    BY <1>4, <1>5 DEF Service!Next

\* Completing the request in execution.
LEMMA ServiceFinishCurrent ==
    ASSUME LoopTypeOK, PendingOwned, SentInv, current # NoRequest,
           NEW o \in Outcomes, Complete(current, o),
           o = "Io" \/ (written /\ o \in {"Ok", "Exception", "BadResponse",
                                         "ResponseTimeout", "BadFrame"}),
           sent' = sent, current' = NoRequest, written' = FALSE
    PROVE  SentInv' /\ [Service!Next]_(Service!vars)
<1>1. current \in Requests /\ result[current] = "pending"
    BY DEF LoopTypeOK, PendingOwned, Holds
<1>2. result' = [result EXCEPT ![current] = o]
    BY <1>1 DEF Complete
<1>3. SentInv'
    <2>1. \A r \in sent : result'[r] # "pending" /\ result'[r] # "unsubmitted"
        <3> SUFFICES ASSUME NEW r \in sent
                     PROVE  result'[r] # "pending" /\ result'[r] # "unsubmitted"
            OBVIOUS
        <3>1. CASE r = current
            BY <1>1, <1>2, <3>1 DEF LoopTypeOK, Outcomes
        <3>2. CASE r # current
            BY <1>2, <3>2 DEF LoopTypeOK, SentInv
        <3>3. QED
            BY <3>1, <3>2
    <2>2. QED
        BY <2>1 DEF SentInv
<1>4. Service!Finish(current)
    <2>1. written => current \in sent
        BY DEF SentInv
    <2>2. QED
        BY <1>1, <1>2, <2>1 DEF Service!Finish, Service!Answered, Service!Either
<1>5. QED
    BY <1>1, <1>3, <1>4 DEF Service!Next

\* Every step of the loop is one of RequestService or a stutter; a request that was
\* sent and whose caller waits is the one execute_request waits for.
THEOREM ServiceSteps == LoopSpec => []SentInv /\ ServiceSpec
<1>1. LoopInit => SentInv /\ Service!Init
    <2> SUFFICES ASSUME LoopInit PROVE SentInv /\ Service!Init
        OBVIOUS
    <2>1. result = [r \in Requests |-> "unsubmitted"] /\ sent = {} /\ written = FALSE
        BY DEF LoopInit
    <2>2. QED
        BY <2>1 DEF SentInv, Service!Init
<1>2. LoopTypeOK /\ PendingOwned /\ SentInv /\ [LoopNext]_loopVars
        => SentInv' /\ [Service!Next]_(Service!vars)
    <2> SUFFICES ASSUME LoopTypeOK, PendingOwned, SentInv, [LoopNext]_loopVars
                 PROVE  SentInv' /\ [Service!Next]_(Service!vars)
        OBVIOUS
    <2> DEFINE Goal == SentInv' /\ [Service!Next]_(Service!vars)
    <2>1. ASSUME NEW r \in Requests, Submit(r) \/ TrySubmit(r) PROVE Goal
        <3>1. result[r] = "unsubmitted" /\ UNCHANGED <<sent, current, written>>
            BY <2>1 DEF Submit, TrySubmit, apiUnchanged, history
        <3>2. PICK o \in {"pending", "BadRequest", "Shutdown"} :
                result' = [result EXCEPT ![r] = o]
            BY <2>1 DEF Submit, TrySubmit
        <3>3. r \notin sent
            BY <3>1 DEF SentInv
        <3>4. SentInv'
            BY <3>1, <3>2, <3>3 DEF SentInv, LoopTypeOK
        <3>5. Service!Accept(r) \/ Service!Refuse(r)
            BY <3>1, <3>2 DEF Service!Accept, Service!Refuse
        <3>6. QED
            BY <3>4, <3>5 DEF Service!Next
    <2>2. CASE DropChannel \/ \E s \in Settings : SendSetting(s)
        BY <2>2, ServiceStutter DEF DropChannel, SendSetting, apiUnchanged, history
    <2>3. CASE FailNextRequest
        BY <2>3, ServiceFailQueued DEF FailNextRequest, history
    <2>4. CASE StartRequest
        <3>1. PICK r \in Requests :
                /\ Receive(r)
                /\ IF r \in Unformattable
                   THEN Complete(r, "Internal") /\ UNCHANGED current
                   ELSE current' = r /\ UNCHANGED result
            BY <2>4 DEF StartRequest
        <3>2. UNCHANGED <<sent, written>> /\ current = NoRequest
            BY <2>4 DEF StartRequest, Idle
        <3>3. CASE r \in Unformattable
            BY <3>1, <3>2, <3>3, ServiceFailQueued
        <3>4. CASE r \notin Unformattable
            <4>1. ~written
                BY <3>2, CommandsDisjoint DEF SentInv, LoopTypeOK, Commands
            <4>2. SentInv'
                BY <3>1, <3>2, <3>4, <4>1, CommandsDisjoint DEF SentInv, LoopTypeOK, Commands
            <4>3. QED
                BY <3>1, <3>2, <3>4, <4>2 DEF Service!vars
        <3>5. QED
            BY <3>3, <3>4
    <2>5. CASE WriteRequest
        <3>1. /\ current \in Requests /\ ~written /\ written' = TRUE
              /\ sent' = sent \cup {current} /\ UNCHANGED <<current, result>>
            BY <2>5 DEF WriteRequest, Executing, LoopTypeOK
        <3>2. result[current] = "pending"
            BY <3>1 DEF PendingOwned, Holds
        <3>3. current \notin sent
            BY <3>1, <3>2 DEF SentInv
        <3>4. SentInv'
            BY <3>1, <3>2 DEF SentInv
        <3>5. Service!Send(current)
            BY <3>1, <3>2, <3>3 DEF Service!Send
        <3>6. QED
            BY <3>1, <3>4, <3>5 DEF Service!Next
    <2>6. CASE HandleResponse
        <3>1. PICK o \in {"Ok", "Exception", "BadResponse"} : Complete(current, o)
            BY <2>6 DEF HandleResponse, handle_response
        <3>2. QED
            BY <2>6, <3>1, ServiceFinishCurrent DEF HandleResponse, Executing, Outcomes
    <2>7. CASE ResponseTimeout
        BY <2>7, ServiceFinishCurrent DEF ResponseTimeout, Executing, Outcomes, history
    <2>8. CASE ReadBadFrame \/ IoFails
        <3>1. sent' = sent /\ current' = NoRequest /\ written' = FALSE
            BY <2>8 DEF ReadBadFrame, IoFails, EndSession, history
        <3>2. CASE current = NoRequest
            <4>1. ~written /\ result' = result
                BY <2>8, <3>2, CommandsDisjoint
                   DEF ReadBadFrame, IoFails, FailCurrent, SentInv, LoopTypeOK, Commands
            <4>2. QED
                BY <3>1, <3>2, <4>1 DEF SentInv, Service!vars
        <3>3. CASE current # NoRequest
            <4>1. PICK o \in Outcomes :
                    /\ Complete(current, o)
                    /\ o = "Io" \/ (written /\ o = "BadFrame")
                BY <2>8, <3>3 DEF ReadBadFrame, IoFails, FailCurrent, Outcomes
            <4>2. QED
                BY <3>1, <3>3, <4>1, ServiceFinishCurrent
        <3>4. QED
            BY <3>2, <3>3
    <2>9. CASE PollSetting
        <3>1. UNCHANGED <<result, sent>> /\ current' = current
            BY <2>9 DEF PollSetting, EndSession, Idle, history
        <3>2. ~written
            BY <2>9, CommandsDisjoint DEF PollSetting, Idle, SentInv, LoopTypeOK, Commands
        <3>3. written' = FALSE
            BY <2>9, <3>2 DEF PollSetting, EndSession, LoopTypeOK
        <3>4. SentInv'
            BY <3>1, <3>2, <3>3 DEF SentInv
        <3>5. QED
            BY <3>1, <3>4 DEF Service!vars
    <2>10. CASE Drop
        <3>1. /\ sent' = sent /\ written' = FALSE
              /\ result' = [r \in Requests |->
                    IF Holds(r) /\ result[r] = "pending" THEN "Shutdown" ELSE result[r]]
            BY <2>10 DEF Drop, history
        <3>2. \A r \in Requests : result[r] = "pending" => Holds(r)
            BY DEF PendingOwned
        <3>3. result' = [r \in Requests |->
                    IF result[r] = "pending" THEN "Shutdown" ELSE result[r]]
            BY <3>1, <3>2
        <3>4. SentInv'
            BY <3>1, <3>3 DEF SentInv, LoopTypeOK
        <3>5. Service!ShutDown
            BY <3>1, <3>3 DEF Service!ShutDown
        <3>6. QED
            BY <3>4, <3>5 DEF Service!Next
    <2>11. CASE \/ FailNextSetting \/ WaitForEnabledDone \/ ReceiveClosed
               \/ DropUnexpected \/ SkipFrame \/ PeerAnswers \/ Cancel
               \/ \E m \in Calls : Call(m)
        BY <2>11, ServiceStutter
           DEF FailNextSetting, WaitForEnabledDone, ReceiveClosed, DropUnexpected,
               SkipFrame, PeerAnswers, Cancel, Call, history
    <2>12. CASE UNCHANGED loopVars
        BY <2>12, ServiceStutter DEF loopVars, history
    <2>13. QED
        BY <2>1, <2>2, <2>3, <2>4, <2>5, <2>6, <2>7, <2>8, <2>9, <2>10, <2>11, <2>12
           DEF LoopNext, Api, LoopStep, Owner
<1>3. QED
    BY <1>1, <1>2, TypeCorrect, Ownership, PTL DEF LoopSpec, ServiceSpec, Service!Spec

\* Through queueing, reconnects, timeouts and shutdown the loop is a RequestService.
THEOREM ImplementsService == LoopSpec => ServiceSpec
BY ServiceSteps, PTL

-----------------------------------------------------------------------------
(* What is on its way back: the invariant behind OneTransaction and
   MixupNeedsFailure. *)

\* No two frames in the host (w) and in the read buffer (b) answer one request.
FramesOnce(w, b) ==
    /\ \A i, j \in DOMAIN w : w[i].req = w[j].req => i = j
    /\ \A i, j \in DOMAIN b : b[i].req = b[j].req => i = j
    /\ \A i \in DOMAIN w, j \in DOMAIN b : w[i].req # b[j].req

\* A request is written once and answered at most once: what the device holds or
\* has answered was sent, and the request in execution is the last that was issued.
OnceInv ==
    /\ FramesOnce(wire, buffer)
    /\ peer \subseteq sent
    /\ \A f \in InFlight : f.req \in sent /\ f.req \notin peer
    /\ current # NoRequest => \A q \in Requests : q # current => serial[q] < serial[current]

Failed(q) == result[q] \in {"ResponseTimeout", "Io", "BadFrame"}
OnTheWay(p) == p \in peer \/ \E f \in InFlight : f.req = p

\* What is left behind by a request that is over goes back to one that failed: the
\* request itself, or one before it whose late response it took for its own.
LeftInv ==
    \A p \in Requests : OnTheWay(p) =>
        \/ p = current
        \/ \E q \in Requests : serial[q] # 0 /\ serial[q] <= serial[p] /\ Failed(q)

LateInv == OnceInv /\ LeftInv /\ OneTransaction /\ MixupNeedsFailure

\* next_frame takes one frame; no other one answers the same request.
LEMMA NextFramesOnce ==
    ASSUME wire \in Seq(Frames), buffer \in Seq(Frames), FramesOnce(wire, buffer),
           NEW n \in NextFrames
    PROVE  /\ FramesOnce(n.wire, n.buffer)
           /\ FramesOnce(<<>>, n.buffer)
           /\ \A i \in DOMAIN n.wire : n.wire[i].req # n.frame.req
           /\ \A i \in DOMAIN n.buffer : n.buffer[i].req # n.frame.req
<1>0. DOMAIN <<>> = {}
    OBVIOUS
<1>1. CASE buffer # <<>>
    <2>1. PICK b : b = Tail(buffer)
        OBVIOUS
    <2>2. n.frame = Head(buffer) /\ n.buffer = b /\ n.wire = wire
        BY <1>1, <2>1 DEF NextFrames
    <2>3. /\ 1 \in DOMAIN buffer /\ Head(buffer) = buffer[1]
          /\ \A i \in DOMAIN b : i \in Nat /\ i + 1 \in DOMAIN buffer /\ b[i] = buffer[i + 1]
        BY <1>1, <2>1, PopFacts
    <2>4. \A i, j \in DOMAIN b : b[i].req = b[j].req => i = j
        <3> SUFFICES ASSUME NEW i \in DOMAIN b, NEW j \in DOMAIN b, b[i].req = b[j].req
                     PROVE  i = j
            OBVIOUS
        <3>1. i + 1 = j + 1
            BY <2>3 DEF FramesOnce
        <3>2. QED
            BY <2>3, <3>1
    <2>5. \A i \in DOMAIN b : b[i].req # Head(buffer).req
        <3> SUFFICES ASSUME NEW i \in DOMAIN b PROVE b[i].req # Head(buffer).req
            OBVIOUS
        <3>1. i + 1 # 1
            BY <2>3
        <3>2. QED
            BY <2>3, <3>1 DEF FramesOnce
    <2>6. \A i \in DOMAIN wire, j \in DOMAIN b : wire[i].req # b[j].req
        BY <2>3 DEF FramesOnce
    <2>7. \A i \in DOMAIN wire : wire[i].req # Head(buffer).req
        BY <2>3 DEF FramesOnce
    <2>8. QED
        BY <1>0, <2>2, <2>4, <2>5, <2>6, <2>7 DEF FramesOnce
<1>2. CASE buffer = <<>>
    <2>1. PICK k \in 1..Len(wire) :
            n = [frame |-> Head(wire), buffer |-> SubSeq(wire, 2, k),
                 wire |-> SubSeq(wire, k + 1, Len(wire))]
        BY <1>2 DEF NextFrames
    <2>2. PICK b, w : b = SubSeq(wire, 2, k) /\ w = SubSeq(wire, k + 1, Len(wire))
        OBVIOUS
    <2>3. wire # <<>> /\ 1 \in DOMAIN wire /\ Head(wire) = wire[1]
        BY <2>1
    <2>4. \A i \in DOMAIN b : i \in Nat /\ i # 0 /\ i < k /\ i + 1 \in DOMAIN wire /\ b[i] = wire[i + 1]
        BY <2>1, <2>2
    <2>5. \A i \in DOMAIN w : i \in Nat /\ i # 0 /\ i + k \in DOMAIN wire /\ w[i] = wire[i + k]
        BY <2>1, <2>2
    <2>6. \A i, j \in DOMAIN b : b[i].req = b[j].req => i = j
        <3> SUFFICES ASSUME NEW i \in DOMAIN b, NEW j \in DOMAIN b, b[i].req = b[j].req
                     PROVE  i = j
            OBVIOUS
        <3>1. i + 1 = j + 1
            BY <2>4 DEF FramesOnce
        <3>2. QED
            BY <2>4, <3>1
    <2>7. \A i, j \in DOMAIN w : w[i].req = w[j].req => i = j
        <3> SUFFICES ASSUME NEW i \in DOMAIN w, NEW j \in DOMAIN w, w[i].req = w[j].req
                     PROVE  i = j
            OBVIOUS
        <3>1. i + k = j + k
            BY <2>5 DEF FramesOnce
        <3>2. QED
            BY <2>5, <3>1
    <2>8. \A i \in DOMAIN w, j \in DOMAIN b : w[i].req # b[j].req
        <3> SUFFICES ASSUME NEW i \in DOMAIN w, NEW j \in DOMAIN b PROVE w[i].req # b[j].req
            OBVIOUS
        <3>1. i + k # j + 1
            BY <2>4, <2>5
        <3>2. QED
            BY <2>4, <2>5, <3>1 DEF FramesOnce
    <2>9. \A i \in DOMAIN b : b[i].req # Head(wire).req
        <3> SUFFICES ASSUME NEW i \in DOMAIN b PROVE b[i].req # Head(wire).req
            OBVIOUS
        <3>1. i + 1 # 1
            BY <2>4
        <3>2. QED
            BY <2>3, <2>4, <3>1 DEF FramesOnce
    <2>10. \A i \in DOMAIN w : w[i].req # Head(wire).req
        <3> SUFFICES ASSUME NEW i \in DOMAIN w PROVE w[i].req # Head(wire).req
            OBVIOUS
        <3>1. i + k # 1
            BY <2>5
        <3>2. QED
            BY <2>3, <2>5, <3>1 DEF FramesOnce
    <2>11. n.frame = Head(wire) /\ n.buffer = b /\ n.wire = w
        BY <2>1, <2>2
    <2>12. QED
        BY <1>0, <2>6, <2>7, <2>8, <2>9, <2>10, <2>11 DEF FramesOnce
<1>3. QED
    BY <1>1, <1>2

\* A step that issues no id, takes no response and brings nothing new on the way:
\* the request it gives up failed, or left nothing behind.
LEMMA LateQuiet ==
    ASSUME LoopTypeOK, LateInv, UNCHANGED <<serial, answer, sent>>,
           FramesOnce(wire, buffer)', peer' \subseteq peer, InFlight' \subseteq InFlight,
           \A r \in Requests : result[r] \in Outcomes => result'[r] = result[r],
           \A r \in Requests : result'[r] = "Ok" => result[r] = "Ok",
           current' \in {current, NoRequest},
           \A p \in Requests : OnTheWay(p)' /\ p = current /\ p # current' =>
                serial[p] # 0 /\ Failed(p)',
           Mbap => \A p \in peer' : p = current /\ p # current' => result'[p] = "ResponseTimeout"
    PROVE  LateInv'
<1> USE DEF LateInv
<1>1. OnceInv'
    BY DEF OnceInv
<1>2. /\ \A q \in Requests : Failed(q) => Failed(q)'
      /\ \A p \in Requests : OnTheWay(p)' => OnTheWay(p)
      /\ \A q \in Requests : serial[q] \in Nat
    BY DEF Failed, OnTheWay, Outcomes, LoopTypeOK
<1>3. LeftInv'
    <2> SUFFICES ASSUME NEW p \in Requests, OnTheWay(p)', p # current'
                 PROVE  \E q \in Requests : serial[q] # 0 /\ serial[q] <= serial[p] /\ Failed(q)'
        BY DEF LeftInv
    <2>1. CASE p = current
        <3>1. serial[p] # 0 /\ Failed(p)' /\ serial[p] <= serial[p]
            BY <1>2, <2>1
        <3>2. QED
            BY <3>1
    <2>2. CASE p # current
        BY <1>2, <2>2 DEF LeftInv
    <2>3. QED
        BY <2>1, <2>2
<1>4. OneTransaction'
    <2> SUFFICES ASSUME Mbap, NEW p \in peer', p # current'
                 PROVE  result'[p] = "ResponseTimeout" \/ answer[p] \notin {p, NoRequest}
        BY DEF OneTransaction
    <2>1. CASE p = current
        BY <2>1
    <2>2. CASE p # current
        BY <2>2 DEF OneTransaction, LoopTypeOK, Outcomes
    <2>3. QED
        BY <2>1, <2>2
<1>5. MixupNeedsFailure'
    BY <1>2 DEF MixupNeedsFailure, Failed
<1>6. QED
    BY <1>1, <1>3, <1>4, <1>5

\* A request is taken from the queue: it was not sent, and is not on its way.
LEMMA LateIssue ==
    ASSUME LoopTypeOK, PendingOwned, TxInv, SentInv, LateInv, StartRequest
    PROVE  LateInv'
<1> USE DEF LateInv
<1>1. PICK r \in Requests :
        /\ Receive(r)
        /\ TakeTxId(r)
        /\ IF r \in Unformattable
           THEN Complete(r, "Internal") /\ UNCHANGED current
           ELSE current' = r /\ UNCHANGED result
    BY DEF StartRequest
<1>2. /\ current = NoRequest /\ UNCHANGED <<peer, wire, buffer, sent, answer>>
      /\ r # NoRequest
    BY CommandsDisjoint DEF StartRequest, Idle, link, Commands
<1>3. result[r] = "pending" /\ r # current
    BY <1>1, OwnedPop
<1>4. r \notin sent
    BY <1>3 DEF SentInv
<1>5. /\ serial' = [serial EXCEPT ![r] = issued + 1]
      /\ serial'[r] = issued + 1
      /\ \A q \in Requests : q # r => serial'[q] = serial[q]
    BY <1>1 DEF TakeTxId, LoopTypeOK
<1>6. /\ current' \in {r, NoRequest}
      /\ \A q \in Requests : q # r => result'[q] = result[q]
      /\ result'[r] \in {"pending", "Internal"}
    BY <1>1, <1>2, <1>3 DEF Complete, LoopTypeOK
<1>7. InFlight' = InFlight
    BY <1>2 DEF InFlight
<1>8. \A p \in Requests : OnTheWay(p)' => OnTheWay(p) /\ p # r
    BY <1>2, <1>4, <1>7 DEF OnTheWay, OnceInv
<1>9. OnceInv'
    <2>1. \A q \in Requests : q # r => serial'[q] < serial'[r]
        <3>1. \A q \in Requests : serial[q] \in Nat /\ serial[q] <= issued /\ issued \in Nat
            BY DEF TxInv, SerialInv, LoopTypeOK
        <3>2. QED
            BY <1>5, <3>1
    <2>2. QED
        BY <1>2, <1>6, <1>7, <2>1 DEF OnceInv
<1>10. \A q \in Requests : Failed(q) => q # r /\ Failed(q)' /\ serial'[q] = serial[q]
    BY <1>3, <1>5, <1>6 DEF Failed
<1>11. LeftInv'
    BY <1>2, <1>5, <1>8, <1>10, CommandsDisjoint DEF LeftInv, Commands
<1>12. OneTransaction'
    <2>1. \A p \in peer : p # r /\ p \in Requests /\ p # NoRequest
        BY <1>4, CommandsDisjoint DEF OnceInv, LoopTypeOK, Commands
    <2>2. QED
        BY <1>2, <1>6, <2>1 DEF OneTransaction
<1>13. MixupNeedsFailure'
    <2>1. \A x \in Requests : result'[x] = "Ok" => x # r /\ result[x] = "Ok" /\ serial'[x] = serial[x]
        BY <1>5, <1>6
    <2>2. QED
        BY <1>2, <1>10, <2>1 DEF MixupNeedsFailure, Failed
<1>14. QED
    BY <1>9, <1>11, <1>12, <1>13

\* The request in execution is written: for the first time.
LEMMA LateWrite ==
    ASSUME LoopTypeOK, PendingOwned, SentInv, LateInv, WriteRequest
    PROVE  LateInv'
<1> USE DEF LateInv
<1>1. /\ current \in Requests /\ ~written /\ current # NoRequest
      /\ peer' = peer \cup {current} /\ sent' = sent \cup {current}
      /\ UNCHANGED <<current, result, wire, buffer, serial, answer>>
    BY DEF WriteRequest, Executing, LoopTypeOK
<1>2. current \notin sent
    BY <1>1 DEF SentInv, PendingOwned, Holds
<1>3. InFlight' = InFlight
    BY <1>1 DEF InFlight
<1>4. OnceInv'
    BY <1>1, <1>2, <1>3 DEF OnceInv
<1>5. \A p \in Requests : OnTheWay(p)' => OnTheWay(p) \/ p = current
    BY <1>1, <1>3 DEF OnTheWay
<1>6. LeftInv'
    BY <1>1, <1>5 DEF LeftInv, Failed
<1>7. OneTransaction' /\ MixupNeedsFailure'
    BY <1>1 DEF OneTransaction, MixupNeedsFailure
<1>8. QED
    BY <1>4, <1>6, <1>7

\* The device answers: what it held is on the wire, or lost.
LEMMA LatePeer ==
    ASSUME LoopTypeOK, LateInv, PeerAnswers
    PROVE  LateInv'
<1> USE DEF LateInv
<1>1. PICK r \in peer, body \in Bodies :
        /\ peer' = peer \ {r}
        /\ wire' = IF loop = "run"
                   THEN Append(wire, [req |-> r, tx |-> txOf[r], body |-> body])
                   ELSE wire
    BY DEF PeerAnswers
<1>2. UNCHANGED <<current, result, buffer, serial, answer, sent>>
    BY DEF PeerAnswers, history
<1>3. PICK f : f = [req |-> r, tx |-> txOf[r], body |-> body]
    OBVIOUS
<1>4. f \in Frames /\ f.req = r
    BY <1>3 DEF Frames, LoopTypeOK
<1>5. wire' = wire \/ wire' = Append(wire, f)
    BY <1>1, <1>3
<1>6. /\ \A i \in DOMAIN wire' :
            \/ i \in DOMAIN wire /\ wire'[i] = wire[i]
            \/ i = Len(wire) + 1 /\ wire'[i] = f
    <2>1. wire \in Seq(Frames)
        BY DEF LoopTypeOK
    <2>2. CASE wire' = wire
        BY <2>2
    <2>3. CASE wire' = Append(wire, f)
        BY <1>4, <2>1, <2>3, PushFacts
    <2>4. QED
        BY <1>5, <2>2, <2>3
<1>7. \A i \in DOMAIN wire : wire[i].req # r
    BY DEF OnceInv, InFlight
<1>8. \A i \in DOMAIN buffer : buffer[i].req # r
    BY DEF OnceInv, InFlight
<1>9. FramesOnce(wire, buffer)'
    <2>1. \A i, j \in DOMAIN wire' : wire'[i].req = wire'[j].req => i = j
        BY <1>4, <1>6, <1>7 DEF OnceInv, FramesOnce
    <2>2. \A i \in DOMAIN wire', j \in DOMAIN buffer : wire'[i].req # buffer[j].req
        BY <1>4, <1>6, <1>8 DEF OnceInv, FramesOnce
    <2>3. QED
        BY <1>2, <2>1, <2>2 DEF OnceInv, FramesOnce
<1>10. \A g \in InFlight' : g \in InFlight \/ g = f
    BY <1>2, <1>6 DEF InFlight
<1>11. OnceInv'
    BY <1>1, <1>2, <1>4, <1>9, <1>10 DEF OnceInv
<1>12. \A p \in Requests : OnTheWay(p)' => OnTheWay(p)
    BY <1>1, <1>4, <1>10 DEF OnTheWay
<1>13. LeftInv'
    BY <1>2, <1>12 DEF LeftInv, Failed
<1>14. OneTransaction' /\ MixupNeedsFailure'
    BY <1>1, <1>2 DEF OneTransaction, MixupNeedsFailure
<1>15. QED
    BY <1>11, <1>13, <1>14

\* A response completes the request in execution: its own, after which nothing of
\* it is on its way, or one that a failed request left behind.
LEMMA LateAnswer ==
    ASSUME LoopTypeOK, PendingOwned, TxInv, LateInv, HandleResponse
    PROVE  LateInv'
<1> USE DEF LateInv
<1>1. PICK n \in NextFrames :
        /\ buffer' = n.buffer /\ wire' = n.wire
        /\ Complete(current, handle_response(current, n.frame))
        /\ answer' = [answer EXCEPT ![current] = n.frame.req]
    BY DEF HandleResponse
<1>2. /\ current \in Requests /\ current # NoRequest /\ current' = NoRequest
      /\ UNCHANGED <<peer, serial, sent>>
    BY DEF HandleResponse, Executing, LoopTypeOK
<1>3. wire \in Seq(Frames) /\ buffer \in Seq(Frames) /\ FramesOnce(wire, buffer)
    BY DEF LoopTypeOK, OnceInv
<1>4. /\ n.frame \in Frames /\ n.frame \in InFlight
      /\ \A i \in DOMAIN n.buffer : n.buffer[i] \in InFlight /\ n.buffer[i].req # n.frame.req
      /\ \A i \in DOMAIN n.wire : n.wire[i] \in InFlight /\ n.wire[i].req # n.frame.req
      /\ FramesOnce(n.wire, n.buffer)
    BY <1>3, NextFramesType, NextFramesInFlight, NextFramesOnce
<1>5. PICK p : p = n.frame.req
    OBVIOUS
<1>6. /\ InFlight' \subseteq InFlight
      /\ \A f \in InFlight' : f.req # p
      /\ p \in Requests /\ OnTheWay(p) /\ p \notin peer /\ p # NoRequest
    BY <1>1, <1>4, <1>5, CommandsDisjoint DEF InFlight, OnTheWay, Frames, OnceInv, Commands
<1>7. result[current] = "pending"
    BY <1>2 DEF PendingOwned, Holds
<1>8. /\ result'[current] \in Outcomes
      /\ \A x \in Requests : x # current => result'[x] = result[x]
    BY <1>1, <1>2, <1>7, ResponseType DEF Complete, LoopTypeOK
<1>9. /\ answer'[current] = p
      /\ \A x \in Requests : x # current => answer'[x] = answer[x]
    BY <1>1, <1>2, <1>5 DEF LoopTypeOK
<1>10. OnceInv'
    BY <1>1, <1>2, <1>4, <1>6 DEF OnceInv
<1>11. \A q \in Requests : Failed(q) => q # current /\ Failed(q)'
    BY <1>7, <1>8 DEF Failed
\* The failed request that a response of another request comes from
<1>12. p # current => \E q \in Requests :
            serial[q] # 0 /\ serial[q] < serial[current] /\ Failed(q)
    <2> SUFFICES ASSUME p # current
                 PROVE  \E q \in Requests :
                            serial[q] # 0 /\ serial[q] < serial[current] /\ Failed(q)
        OBVIOUS
    <2>1. PICK q \in Requests : serial[q] # 0 /\ serial[q] <= serial[p] /\ Failed(q)
        BY <1>6 DEF LeftInv
    <2>2. serial[q] < serial[current]
        BY <1>2, <1>11, <2>1 DEF OnceInv
    <2>3. QED
        BY <2>1, <2>2
<1>13. \A x \in Requests : OnTheWay(x)' => OnTheWay(x) /\ x # p
    BY <1>2, <1>6 DEF OnTheWay
<1>14. LeftInv'
    <2> SUFFICES ASSUME NEW x \in Requests, OnTheWay(x)'
                 PROVE  \E q \in Requests : serial[q] # 0 /\ serial[q] <= serial[x] /\ Failed(q)'
        BY <1>2 DEF LeftInv
    <2>1. CASE x = current
        <3>1. PICK q \in Requests : serial[q] # 0 /\ serial[q] < serial[current] /\ Failed(q)
            BY <1>12, <1>13, <2>1
        <3>2. serial[q] \in Nat /\ serial[current] \in Nat
            BY <1>2 DEF LoopTypeOK
        <3>3. QED
            BY <1>11, <2>1, <3>1, <3>2
    <2>2. CASE x # current
        BY <1>11, <1>13, <2>2 DEF LeftInv
    <2>3. QED
        BY <2>1, <2>2
<1>15. OneTransaction'
    <2> SUFFICES ASSUME Mbap, NEW x \in peer
                 PROVE  result'[x] = "ResponseTimeout" \/ answer'[x] \notin {x, NoRequest}
        BY <1>2 DEF OneTransaction
    <2>1. CASE x = current
        BY <1>6, <1>9, <2>1
    <2>2. CASE x # current
        BY <1>8, <1>9, <2>2 DEF OneTransaction, LoopTypeOK
    <2>3. QED
        BY <2>1, <2>2
<1>16. MixupNeedsFailure'
    <2> SUFFICES ASSUME NEW x \in Requests, result'[x] = "Ok", answer'[x] # x
                 PROVE  \E q \in Requests : serial[q] # 0 /\ serial[q] < serial[x] /\ Failed(q)'
        BY <1>2 DEF MixupNeedsFailure, Failed
    <2>1. CASE x = current
        BY <1>9, <1>11, <1>12, <2>1
    <2>2. CASE x # current
        <3>1. PICK q \in Requests : serial[q] # 0 /\ serial[q] < serial[x] /\ Failed(q)
            BY <1>8, <1>9, <2>2 DEF MixupNeedsFailure, Failed
        <3>2. QED
            BY <1>11, <3>1
    <2>3. QED
        BY <2>1, <2>2
<1>17. QED
    BY <1>10, <1>14, <1>15, <1>16


\* A step that leaves the request in execution and what is on its way alone, or
\* throws away what the host has received
LEMMA LateStill ==
    ASSUME LoopTypeOK, LateInv, UNCHANGED <<serial, answer, sent, current, buffer>>,
           peer' \subseteq peer, wire' = wire \/ wire' = <<>>,
           \A r \in Requests : result[r] \in Outcomes => result'[r] = result[r],
           \A r \in Requests : result'[r] = "Ok" => result[r] = "Ok"
    PROVE  LateInv'
<1>1. FramesOnce(wire, buffer)'
    <2>1. FramesOnce(wire, buffer)
        BY DEF LateInv, OnceInv
    <2>2. wire' = wire \/ DOMAIN wire' = {}
        OBVIOUS
    <2>3. QED
        BY <2>1, <2>2 DEF FramesOnce
<1>2. InFlight' \subseteq InFlight
    BY DEF InFlight
<1>3. QED
    BY <1>1, <1>2, LateQuiet

\* A request is written once and answered at most once, and what a request leaves on
\* its way goes back to one that failed (run_one_request, execute_request).
THEOREM LateInvariant == LoopSpec => []LateInv
<1>1. LoopInit => LateInv
    <2> SUFFICES ASSUME LoopInit PROVE LateInv
        OBVIOUS
    <2>1. /\ DOMAIN wire = {} /\ DOMAIN buffer = {} /\ peer = {} /\ current = NoRequest
          /\ \A r \in Requests : result[r] = "unsubmitted"
        BY DEF LoopInit
    <2>2. InFlight = {}
        BY <2>1 DEF InFlight
    <2>3. OnceInv /\ LeftInv
        BY <2>1, <2>2 DEF OnceInv, FramesOnce, LeftInv, OnTheWay
    <2>4. OneTransaction /\ MixupNeedsFailure
        BY <2>1 DEF OneTransaction, MixupNeedsFailure
    <2>5. QED
        BY <2>3, <2>4 DEF LateInv
<1>2. LoopTypeOK /\ PendingOwned /\ TxInv /\ SentInv /\ LateInv /\ [LoopNext]_loopVars => LateInv'
    <2> SUFFICES ASSUME LoopTypeOK, PendingOwned, TxInv, SentInv, LateInv, [LoopNext]_loopVars
                 PROVE  LateInv'
        OBVIOUS
    <2>0. "unsubmitted" \notin Outcomes /\ "pending" \notin Outcomes
        BY DEF Outcomes
    <2>1. CASE Api
        <3>1. UNCHANGED <<serial, answer, sent, current, peer, wire, buffer>>
            BY <2>1 DEF Api, Submit, TrySubmit, SendSetting, DropChannel, apiUnchanged,
                link, history
        <3>2. \/ result' = result
              \/ \E r \in Requests, o \in {"pending", "BadRequest", "Shutdown"} :
                    result[r] = "unsubmitted" /\ result' = [result EXCEPT ![r] = o]
            BY <2>1 DEF Api, Submit, TrySubmit, SendSetting, DropChannel
        <3>3. /\ \A r \in Requests : result[r] \in Outcomes => result'[r] = result[r]
              /\ \A r \in Requests : result'[r] = "Ok" => result[r] = "Ok"
            BY <2>0, <3>2 DEF LoopTypeOK
        <3>4. QED
            BY <3>1, <3>3, LateStill
    <2>2. CASE FailNextRequest
        <3>1. PICK r \in Requests : Complete(r, "NoConnection")
            BY <2>2 DEF FailNextRequest
        <3>2. UNCHANGED <<serial, answer, sent, current, peer, wire, buffer>>
            BY <2>2 DEF FailNextRequest, link, history
        <3>3. /\ \A x \in Requests : result[x] \in Outcomes => result'[x] = result[x]
              /\ \A x \in Requests : result'[x] = "Ok" => result[x] = "Ok"
            BY <2>0, <3>1 DEF Complete, LoopTypeOK
        <3>4. QED
            BY <3>2, <3>3, LateStill
    <2>3. CASE FailNextSetting \/ WaitForEnabledDone \/ Cancel \/ \E m \in Calls : Call(m)
        <3>1. UNCHANGED <<serial, answer, sent, current, result, peer, wire, buffer>>
            BY <2>3 DEF FailNextSetting, WaitForEnabledDone, Cancel, Call, link, history
        <3>2. QED
            BY <3>1, LateStill
    <2>4. CASE ReceiveClosed \/ PollSetting
        <3>1. /\ UNCHANGED <<serial, answer, sent, result, buffer, current>>
              /\ wire' = wire \/ wire' = <<>>
              /\ peer' \subseteq peer
            BY <2>4 DEF ReceiveClosed, PollSetting, EndSession, Idle, history
        <3>2. QED
            BY <3>1, LateStill
    <2>5. CASE StartRequest
        BY <2>5, LateIssue
    <2>6. CASE WriteRequest
        BY <2>6, LateWrite
    <2>7. CASE DropUnexpected \/ SkipFrame
        <3>1. UNCHANGED <<serial, answer, sent, result, current, peer>>
            BY <2>7 DEF DropUnexpected, SkipFrame, history
        <3>2. PICK n \in NextFrames : buffer' = n.buffer /\ wire' = n.wire
            BY <2>7 DEF DropUnexpected, SkipFrame
        <3>3. wire \in Seq(Frames) /\ buffer \in Seq(Frames) /\ FramesOnce(wire, buffer)
            BY DEF LoopTypeOK, LateInv, OnceInv
        <3>4. FramesOnce(wire, buffer)'
            BY <3>2, <3>3, NextFramesOnce
        <3>5. InFlight' \subseteq InFlight
            <4>1. /\ \A i \in DOMAIN buffer' : buffer'[i] \in InFlight
                  /\ \A i \in DOMAIN wire' : wire'[i] \in InFlight
                BY <3>2, <3>3, NextFramesInFlight
            <4>2. QED
                BY <4>1 DEF InFlight
        <3>6. QED
            BY <3>1, <3>4, <3>5, LateQuiet
    <2>8. CASE HandleResponse
        BY <2>8, LateAnswer
    <2>9. CASE ResponseTimeout \/ ReadBadFrame \/ IoFails
        <3>1. /\ UNCHANGED <<serial, answer, sent>>
              /\ current' = NoRequest
              /\ peer' \subseteq peer
              /\ wire' = wire \/ wire' = <<>>
            BY <2>9 DEF ResponseTimeout, ReadBadFrame, IoFails, EndSession, link, history
        <3>2. wire \in Seq(Frames) /\ buffer \in Seq(Frames) /\ FramesOnce(wire, buffer)
            BY DEF LoopTypeOK, LateInv, OnceInv
        <3>3. \/ buffer' = buffer
              \/ wire' = <<>> /\ \E n \in NextFrames : buffer' = n.buffer
            BY <2>9 DEF ResponseTimeout, ReadBadFrame, IoFails, link, EndSession
        <3>4. FramesOnce(wire, buffer)' /\ InFlight' \subseteq InFlight
            <4>0. wire' = wire \/ DOMAIN wire' = {}
                BY <3>1
            <4>1. CASE buffer' = buffer
                BY <3>2, <4>0, <4>1 DEF FramesOnce, InFlight
            <4>2. CASE wire' = <<>> /\ \E n \in NextFrames : buffer' = n.buffer
                <5>1. PICK n \in NextFrames : buffer' = n.buffer
                    BY <4>2
                <5>2. FramesOnce(wire, buffer)'
                    BY <3>2, <4>2, <5>1, NextFramesOnce
                <5>3. \A i \in DOMAIN buffer' : buffer'[i] \in InFlight
                    BY <3>2, <5>1, NextFramesInFlight
                <5>4. DOMAIN wire' = {}
                    BY <4>2
                <5>5. QED
                    BY <5>2, <5>3, <5>4 DEF InFlight
            <4>3. QED
                BY <3>3, <4>1, <4>2
        <3>5. PICK o \in {"ResponseTimeout", "Io", "BadFrame"} :
                FailCurrent(o) /\ (o = "ResponseTimeout" \/ (Mbap => peer' = {}))
            BY <2>9 DEF ResponseTimeout, ReadBadFrame, IoFails, FailCurrent, Executing, EndSession
        <3>6. current # NoRequest => current \in Requests /\ result[current] = "pending"
            BY DEF LoopTypeOK, PendingOwned, Holds
        <3>7. /\ \A x \in Requests : result[x] \in Outcomes => result'[x] = result[x]
              /\ \A x \in Requests : result'[x] = "Ok" => result[x] = "Ok"
              /\ current # NoRequest => result'[current] = o
            BY <2>0, <3>5, <3>6 DEF FailCurrent, Complete, LoopTypeOK
        <3>8. /\ \A p \in Requests : p = current => serial[p] # 0 /\ Failed(p)'
              /\ Mbap => \A p \in peer' : p = current => result'[p] = "ResponseTimeout"
            <4>1. \A p \in Requests : p # NoRequest
                BY CommandsDisjoint DEF Commands
            <4>2. current # NoRequest => serial[current] # 0
                BY DEF TxInv, SerialInv
            <4>3. \A p \in peer' : p \in Requests
                BY <3>1 DEF LoopTypeOK
            <4>4. QED
                BY <3>5, <3>7, <4>1, <4>2, <4>3 DEF Failed
        <3>9. QED
            BY <3>1, <3>4, <3>7, <3>8, LateQuiet
    <2>10. CASE PeerAnswers
        BY <2>10, LatePeer
    <2>11. CASE Drop
        <3>1. /\ UNCHANGED <<serial, answer, sent>>
              /\ current' = NoRequest /\ peer' = {} /\ wire' = <<>> /\ buffer' = <<>>
            BY <2>11 DEF Drop, history
        <3>2. DOMAIN wire' = {} /\ DOMAIN buffer' = {}
            BY <3>1
        <3>3. InFlight' = {} /\ FramesOnce(wire, buffer)' /\ \A p \in Requests : ~OnTheWay(p)'
            BY <3>1, <3>2 DEF InFlight, FramesOnce, OnTheWay
        <3>4. \A x \in Requests :
                result'[x] = IF Holds(x) /\ result[x] = "pending" THEN "Shutdown" ELSE result[x]
            BY <2>11 DEF Drop
        <3>5. /\ \A x \in Requests : result[x] \in Outcomes => result'[x] = result[x]
              /\ \A x \in Requests : result'[x] = "Ok" => result[x] = "Ok"
            BY <2>0, <3>4
        <3>6. QED
            BY <3>1, <3>3, <3>5, LateQuiet
    <2>12. CASE UNCHANGED loopVars
        <3>1. UNCHANGED <<serial, answer, sent, current, result, peer, wire, buffer>>
            BY <2>12 DEF loopVars, link, history
        <3>2. QED
            BY <3>1, LateStill
    <2>13. QED
        BY <2>1, <2>2, <2>3, <2>4, <2>5, <2>6, <2>7, <2>8, <2>9, <2>10, <2>11, <2>12
           DEF LoopNext, LoopStep, Owner
<1>3. QED
    BY <1>1, <1>2, TypeCorrect, Ownership, TxInvariant, ServiceSteps, PTL DEF LoopSpec

\* On MBAP the device holds at most the request in execution, requests that timed
\* out, and requests that were completed by another response of the same id:
\* run_one_request returns before the next request is written, and a connection
\* that ends takes what was in flight with it.
THEOREM TransactionsAreSingle == LoopSpec => []OneTransaction
<1>1. LateInv => OneTransaction
    BY DEF LateInv
<1>2. QED
    BY <1>1, LateInvariant, PTL

\* Without transaction ids, a request takes the response of another one only after
\* a request before it timed out or failed (execute_request on a serial line).
THEOREM MixupsNeedFailures == LoopSpec => []MixupNeedsFailure
<1>1. LateInv => MixupNeedsFailure
    BY DEF LateInv
<1>2. QED
    BY <1>1, LateInvariant, PTL
=============================================================================
