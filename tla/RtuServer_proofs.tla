-------------------------- MODULE RtuServer_proofs --------------------------
(***************************************************************************)
(* Theorems about the sessions of servers that share their handlers         *)
(* (ServerSession) as the RTU server and a TCP server beside it run them     *)
(* (RtuServer): for any sessions, units, number of points and denials.       *)
(***************************************************************************)
EXTENDS RtuServer, TLAPS, WellFoundedInduction

-----------------------------------------------------------------------------
(* The inductive invariant *)

SessionTypeOK ==
    /\ table \in [Units -> [1..Points -> Values]]
    /\ lock \in [Units -> Sessions \cup {Free}]
    /\ pc \in [Sessions -> PCs]
    /\ request \in [Sessions -> Requests]
    /\ todo \in [Sessions -> SUBSET Units]
    /\ values \in [Sessions -> Seq(Values)]
    /\ at \in [Sessions -> 0..Points]
    /\ reply \in [Sessions -> [type: ReplyTypes, values: Seq(Values)]]
    /\ executed \in [Sessions -> [Units -> Nat]]
    /\ replies \in [Sessions -> Nat]

\* What a session that executes has found in its frame.
BusyInv ==
    \A s \in Sessions : pc[s] \in {"locking", "executing"} =>
        /\ todo[s] # {}
        /\ request[s].kind \in {"read", "write"}
        /\ Authorized(s, request[s])
        /\ request[s].dest.broadcast => request[s].kind = "write"
        /\ ~request[s].dest.broadcast => todo[s] = {request[s].dest.unit}

\* A mutex is held by the session that executes on its handler, and by no other.
MutexInv ==
    \A s \in Sessions, u \in Units :
        lock[u] = s <=> pc[s] = "executing" /\ u = Handler(s)

\* The points of S hold one value.
Uniform(points, S) == \A a, b \in S : points[a] = points[b]

\* A handler nobody holds is between two writes; one that is read stays so; one
\* that is written holds the new value up to where the write is.
PointsInv ==
    /\ \A u \in Units : lock[u] = Free => Uniform(table[u], 1..Points)
    /\ \A s \in Sessions :
        /\ pc[s] # "executing" => values[s] = <<>> /\ at[s] = 0
        /\ pc[s] = "executing" /\ request[s].kind = "read" =>
            /\ at[s] = 0 /\ Len(values[s]) <= Points
            /\ Uniform(table[Handler(s)], 1..Points)
            /\ \A i \in DOMAIN values[s] : values[s][i] = table[Handler(s)][i]
        /\ pc[s] = "executing" /\ request[s].kind = "write" =>
            /\ values[s] = <<>>
            /\ \A a \in 1..at[s] : table[Handler(s)][a] = s
            /\ Uniform(table[Handler(s)], (at[s] + 1)..Points)

\* The handlers that have not been asked yet
Remaining(s) ==
    IF pc[s] = "locking" THEN todo[s]
    ELSE IF pc[s] = "executing" THEN todo[s] \ {Handler(s)} ELSE {}

CountInv ==
    \A s \in Sessions : pc[s] # "ended" =>
        \A u \in Units :
            executed[s][u] = IF Addressed(s, u) /\ u \notin Remaining(s) THEN 1 ELSE 0

\* No reply was written before the one that is being written, and that one is due.
ReplyInv ==
    \A s \in Sessions :
        /\ pc[s] \in {"locking", "executing", "writing"} => replies[s] = 0
        /\ pc[s] = "writing" =>
            /\ ~request[s].dest.broadcast
            /\ request[s].kind \in {"read", "write"} /\ Authorized(s, request[s])
                    => request[s].dest.unit \in Units

SessionInv ==
    /\ SessionTypeOK /\ BusyInv /\ MutexInv /\ PointsInv /\ CountInv /\ ReplyInv
    /\ NoTornRead /\ AnsweredOnce

-----------------------------------------------------------------------------
(* Lemmas *)

\* The next handler to be asked is one of those that remain.
LEMMA MinFacts ==
    ASSUME NEW S \in SUBSET Nat, S # {}
    PROVE  Min(S) \in S
<1>1. \E x \in S : \A y \in S : x <= y
    <2>1. PICK x \in S : \A y \in S : ~(<<y, x>> \in OpToRel(<, Nat))
        BY NatLessThanWellFounded, WFMin, Zenon
    <2>2. \A y \in S : ~(y < x)
        BY <2>1 DEF OpToRel
    <2>3. QED
        BY <2>2
<1>2. QED
    BY <1>1 DEF Min

\* The handler a session executes on is one of those it has to.
LEMMA HandlerFacts ==
    ASSUME SessionTypeOK, NEW s \in Sessions, todo[s] # {}
    PROVE  Handler(s) \in todo[s] /\ Handler(s) \in Units
BY MinFacts, SessionAssumption DEF SessionTypeOK, Handler

\* A session that starts holds no mutex.
LEMMA StartPreserves ==
    ASSUME SessionInv, NEW s \in Sessions, Start(s)
    PROVE  SessionInv'
<1> USE DEF SessionInv
<1>1. /\ pc[s] = "ended" /\ pc' = [pc EXCEPT ![s] = "idle"]
      /\ request' = [request EXCEPT ![s] = NoRequest]
      /\ executed' = [executed EXCEPT ![s] = [u \in Units |-> 0]]
      /\ replies' = [replies EXCEPT ![s] = 0]
      /\ UNCHANGED <<table, lock, todo, values, at, reply>>
    BY DEF Start, Goto
<1>2. SessionTypeOK'
    <2>1. NoRequest \in Requests
        BY DEF NoRequest, Requests, UnitIds
    <2>2. QED
        BY <1>1, <2>1 DEF SessionTypeOK, PCs
<1>3. /\ \A x \in Sessions : x # s => /\ pc'[x] = pc[x] /\ request'[x] = request[x]
                                      /\ executed'[x] = executed[x] /\ replies'[x] = replies[x]
      /\ pc'[s] = "idle" /\ request'[s] = NoRequest /\ replies'[s] = 0
      /\ \A u \in Units : executed'[s][u] = 0
      /\ \A x \in Sessions : Handler(x)' = Handler(x)
    BY <1>1 DEF SessionTypeOK, Handler
<1>4. BusyInv'
    BY <1>1, <1>3 DEF BusyInv, Authorized
<1>5. MutexInv'
    BY <1>1, <1>3 DEF MutexInv
<1>6. PointsInv'
    BY <1>1, <1>3 DEF PointsInv, Uniform
<1>7. CountInv'
    BY <1>1, <1>3 DEF CountInv, Addressed, Remaining, NoRequest, Authorized
<1>8. ReplyInv' /\ NoTornRead' /\ AnsweredOnce'
    BY <1>1, <1>3 DEF ReplyInv, NoTornRead, AnsweredOnce, NoRequest, Authorized
<1>9. QED
    BY <1>2, <1>4, <1>5, <1>6, <1>7, <1>8

\* A session that ends while it waits has no handler half written.
LEMMA EndPreserves ==
    ASSUME SessionInv, NEW s \in Sessions, End(s)
    PROVE  SessionInv'
<1> USE DEF SessionInv
<1>1. /\ pc[s] = "idle" /\ pc' = [pc EXCEPT ![s] = "ended"]
      /\ UNCHANGED <<table, lock, request, todo, values, at, reply, executed, replies>>
    BY DEF End, Goto
<1>2. SessionTypeOK'
    BY <1>1 DEF SessionTypeOK, PCs
<1>3. /\ \A x \in Sessions : x # s => pc'[x] = pc[x]
      /\ pc'[s] = "ended"
      /\ \A x \in Sessions : Handler(x)' = Handler(x)
    BY <1>1 DEF SessionTypeOK, Handler
<1>4. BusyInv' /\ MutexInv'
    BY <1>1, <1>3 DEF BusyInv, Authorized, MutexInv
<1>5. PointsInv'
    BY <1>1, <1>3 DEF PointsInv, Uniform
<1>6. CountInv'
    BY <1>1, <1>3 DEF CountInv, Addressed, Remaining, Authorized
<1>7. ReplyInv' /\ NoTornRead' /\ AnsweredOnce'
    BY <1>1, <1>3 DEF ReplyInv, NoTornRead, AnsweredOnce, Authorized
<1>8. QED
    BY <1>2, <1>4, <1>5, <1>6, <1>7

\* A frame is answered at once, left alone, or given to its handlers.
LEMMA DispatchFacts ==
    ASSUME SessionTypeOK, NEW s \in Sessions, pc[s] = "idle",
           NEW d \in Destinations(s), NEW k \in Kinds(s),
           Dispatch(s, [dest |-> d, kind |-> k])
    PROVE  LET r == [dest |-> d, kind |-> k] IN
           /\ r \in Requests
           /\ \/ /\ UNCHANGED <<pc, reply, todo>>
                 /\ \/ k = "empty" /\ ~d.broadcast
                    \/ k \in {"unknown", "malformed"} /\ d.broadcast
                    \/ k \in {"read", "write"} /\ ~Authorized(s, r) /\ d.broadcast
              \/ /\ ~d.broadcast
                 /\ k \in {"unknown", "malformed"} \/ ~Authorized(s, r)
                 /\ pc' = [pc EXCEPT ![s] = "writing"] /\ UNCHANGED todo
                 /\ \E code \in ReplyTypes :
                        reply' = [reply EXCEPT ![s] = [type |-> code, values |-> <<>>]]
              \/ /\ k \in {"read", "write"} /\ Authorized(s, r)
                 /\ todo' = [todo EXCEPT ![s] = Targets(r)] /\ UNCHANGED reply
                 /\ \/ Targets(r) = {} /\ UNCHANGED pc
                    \/ Targets(r) # {} /\ pc' = [pc EXCEPT ![s] = "locking"]
<1> DEFINE r == [dest |-> d, kind |-> k]
<1>1. r \in Requests /\ r.dest = d /\ r.kind = k
    <2>1. d \in [broadcast: BOOLEAN, unit: UnitIds]
        <3>1. CASE s \in RtuSessions
            <4>1. CASE d \in [broadcast: {FALSE}, unit: (Units \cup Others) \ {0}]
                BY <4>1 DEF UnitIds
            <4>2. CASE d = [broadcast |-> TRUE, unit |-> 0]
                BY <4>2 DEF UnitIds
            <4>3. QED
                BY <3>1, <4>1, <4>2 DEF Destinations
        <3>2. CASE s \notin RtuSessions
            BY <3>2 DEF Destinations, UnitIds
        <3>3. QED
            BY <3>1, <3>2
    <2>2. QED
        BY <2>1 DEF Kinds, Requests
<1>2. k = "empty" => ~d.broadcast
    BY DEF Kinds, Destinations
<1>3. k \in {"empty", "unknown", "malformed", "read", "write"}
    BY DEF Kinds
<1>4. CASE k = "empty"
    BY <1>1, <1>2, <1>4 DEF Dispatch
<1>5. CASE k = "unknown"
    BY <1>1, <1>5 DEF Dispatch, reply_with_error, Exception, Goto, ReplyTypes
<1>6. CASE k = "malformed"
    BY <1>1, <1>6 DEF Dispatch, reply_with_error, Exception, Goto, ReplyTypes
<1>7. CASE k \in {"read", "write"} /\ ~Authorized(s, r)
    BY <1>1, <1>7 DEF Dispatch, reply_with_error, Exception, Goto, ReplyTypes
<1>8. CASE k \in {"read", "write"} /\ Authorized(s, r)
    BY <1>1, <1>8 DEF Dispatch, Goto
<1>9. QED
    BY <1>3, <1>4, <1>5, <1>6, <1>7, <1>8

\* A new request starts the counts over; what needs no handler is answered at once.
LEMMA HandleFramePreserves ==
    ASSUME SessionInv, NEW s \in Sessions, HandleFrame(s)
    PROVE  SessionInv'
<1> USE DEF SessionInv
<1>1. PICK d \in Destinations(s), k \in Kinds(s) :
        /\ request' = [request EXCEPT ![s] = [dest |-> d, kind |-> k]]
        /\ Dispatch(s, [dest |-> d, kind |-> k])
    BY DEF HandleFrame
<1> DEFINE r == [dest |-> d, kind |-> k]
<1>2. /\ pc[s] = "idle"
      /\ executed' = [executed EXCEPT ![s] = [u \in Units |-> 0]]
      /\ replies' = [replies EXCEPT ![s] = 0]
      /\ UNCHANGED <<table, lock, values, at>>
    BY DEF HandleFrame
<1>3. /\ r \in Requests /\ r.dest = d /\ r.kind = k
      /\ Targets(r) \in SUBSET Units
    BY <1>1, <1>2, DispatchFacts DEF Targets
<1>outcome.
      \/ /\ UNCHANGED <<pc, reply, todo>>
         /\ \/ k = "empty" /\ ~d.broadcast
            \/ k \in {"unknown", "malformed"} /\ d.broadcast
            \/ k \in {"read", "write"} /\ ~Authorized(s, r) /\ d.broadcast
      \/ /\ ~d.broadcast
         /\ k \in {"unknown", "malformed"} \/ ~Authorized(s, r)
         /\ pc' = [pc EXCEPT ![s] = "writing"] /\ UNCHANGED todo
         /\ \E code \in ReplyTypes :
                reply' = [reply EXCEPT ![s] = [type |-> code, values |-> <<>>]]
      \/ /\ k \in {"read", "write"} /\ Authorized(s, r)
         /\ todo' = [todo EXCEPT ![s] = Targets(r)] /\ UNCHANGED reply
         /\ \/ Targets(r) = {} /\ UNCHANGED pc
            \/ Targets(r) # {} /\ pc' = [pc EXCEPT ![s] = "locking"]
    BY <1>1, <1>2, DispatchFacts
<1> HIDE DEF r
<1>4. SessionTypeOK'
    <2>1. request' \in [Sessions -> Requests]
        BY <1>1, <1>3 DEF SessionTypeOK, r
    <2>2. /\ executed' \in [Sessions -> [Units -> Nat]]
          /\ replies' \in [Sessions -> Nat]
        BY <1>2 DEF SessionTypeOK
    <2>3. /\ pc' \in [Sessions -> PCs]
          /\ todo' \in [Sessions -> SUBSET Units]
        <3>1. \/ UNCHANGED pc
              \/ pc' = [pc EXCEPT ![s] = "writing"]
              \/ pc' = [pc EXCEPT ![s] = "locking"]
            BY <1>outcome
        <3>2. UNCHANGED todo \/ todo' = [todo EXCEPT ![s] = Targets(r)]
            BY <1>outcome
        <3>3. pc' \in [Sessions -> PCs]
            BY <3>1 DEF SessionTypeOK, PCs
        <3>4. QED
            BY <1>3, <3>2, <3>3 DEF SessionTypeOK
    <2>4. reply' \in [Sessions -> [type: ReplyTypes, values: Seq(Values)]]
        <3>1. CASE UNCHANGED reply
            BY <3>1 DEF SessionTypeOK
        <3>2. CASE \E code \in ReplyTypes :
                reply' = [reply EXCEPT ![s] = [type |-> code, values |-> <<>>]]
            BY <3>2 DEF SessionTypeOK
        <3>3. QED
            BY <1>1, <1>2, <3>1, <3>2, <1>outcome
    <2>5. QED
        BY <1>2, <2>1, <2>2, <2>3, <2>4 DEF SessionTypeOK
<1>5. /\ \A x \in Sessions : x # s =>
            /\ pc'[x] = pc[x] /\ request'[x] = request[x] /\ todo'[x] = todo[x]
            /\ reply'[x] = reply[x]
            /\ executed'[x] = executed[x] /\ replies'[x] = replies[x]
            /\ Handler(x)' = Handler(x)
      /\ request'[s] = r /\ replies'[s] = 0
      /\ \A u \in Units : executed'[s][u] = 0
    BY <1>outcome, <1>1, <1>2 DEF SessionTypeOK, Handler, r
<1>6. /\ pc'[s] \in {"idle", "writing", "locking"}
      /\ pc'[s] = "idle" =>
            \/ k = "empty" /\ ~d.broadcast
            \/ k \in {"unknown", "malformed"} /\ d.broadcast
            \/ k \in {"read", "write"} /\ ~Authorized(s, r) /\ d.broadcast
            \/ k \in {"read", "write"} /\ Authorized(s, r) /\ Targets(r) = {}
      /\ pc'[s] = "writing" =>
            ~d.broadcast /\ (k \in {"unknown", "malformed"} \/ ~Authorized(s, r))
      /\ pc'[s] = "locking" =>
            /\ todo'[s] = Targets(r) /\ Targets(r) # {}
            /\ k \in {"read", "write"} /\ Authorized(s, r)
      /\ reply'[s] = reply[s] \/ reply'[s].values = <<>>
    BY <1>outcome, <1>1, <1>2 DEF SessionTypeOK
<1>7. BusyInv'
    BY <1>3, <1>5, <1>6 DEF BusyInv, Authorized, Targets
<1>8. MutexInv'
    BY <1>2, <1>5, <1>6 DEF MutexInv
<1>9. PointsInv'
    BY <1>2, <1>5, <1>6 DEF PointsInv, Uniform
<1>10. CountInv'
    <2>1. \A u \in Units : pc'[s] \in {"idle", "writing"} => ~Addressed(s, u)'
        BY <1>3, <1>5, <1>6 DEF Addressed, Authorized, Targets
    <2>2. \A u \in Units : pc'[s] = "locking" => (Addressed(s, u)' <=> u \in todo'[s])
        BY <1>3, <1>5, <1>6 DEF Addressed, Authorized, Targets
    <2>3. \A x \in Sessions : x # s => \A u \in Units :
            (Addressed(x, u)' <=> Addressed(x, u)) /\ Remaining(x)' = Remaining(x)
        BY <1>5 DEF Addressed, Authorized, Remaining
    <2>4. \A x \in Sessions : x # s => (pc'[x] # "ended" => \A u \in Units :
            executed'[x][u] = IF Addressed(x, u)' /\ u \notin Remaining(x)' THEN 1 ELSE 0)
        BY <1>5, <2>3 DEF CountInv
    <2>5. \A u \in Units :
            executed'[s][u] = IF Addressed(s, u)' /\ u \notin Remaining(s)' THEN 1 ELSE 0
        BY <1>5, <1>6, <2>1, <2>2 DEF Remaining
    <2>6. QED
        BY <2>4, <2>5 DEF CountInv
<1>11. ReplyInv'
    BY <1>3, <1>5, <1>6 DEF ReplyInv, Authorized
<1>12. NoTornRead'
    BY <1>5, <1>6 DEF NoTornRead
<1>13. AnsweredOnce'
    BY <1>3, <1>5, <1>6 DEF AnsweredOnce, Authorized, Targets
<1>14. QED
    BY <1>4, <1>7, <1>8, <1>9, <1>10, <1>11, <1>12, <1>13

\* A mutex that is acquired was free, so the handler is between two writes.
LEMMA LockHandlerPreserves ==
    ASSUME SessionInv, NEW s \in Sessions, LockHandler(s)
    PROVE  SessionInv'
<1> USE DEF SessionInv
<1> DEFINE h == Handler(s)
<1>1. /\ pc[s] = "locking" /\ pc' = [pc EXCEPT ![s] = "executing"]
      /\ lock[h] = Free /\ lock' = [lock EXCEPT ![h] = s]
      /\ executed' = [executed EXCEPT ![s][h] = @ + 1]
      /\ UNCHANGED <<table, request, todo, values, at, reply, replies>>
    BY DEF LockHandler, Goto
<1>2. h \in todo[s] /\ h \in Units
    BY <1>1, HandlerFacts DEF BusyInv
<1>3. \A x \in Sessions : Handler(x)' = Handler(x)
    BY <1>1 DEF Handler
<1> HIDE DEF h
<1>4. SessionTypeOK'
    BY <1>1, <1>2 DEF SessionTypeOK, PCs
<1>5. /\ \A x \in Sessions : x # s => pc'[x] = pc[x] /\ executed'[x] = executed[x]
      /\ pc'[s] = "executing" /\ lock'[h] = s
      /\ \A u \in Units : u # h => lock'[u] = lock[u] /\ executed'[s][u] = executed[s][u]
      /\ executed'[s][h] = executed[s][h] + 1
    BY <1>1, <1>2 DEF SessionTypeOK
<1>6. BusyInv'
    BY <1>1, <1>5 DEF BusyInv, Authorized
<1>7. MutexInv'
    BY <1>1, <1>2, <1>3, <1>5, FreeAssumption DEF MutexInv, h
<1>8. PointsInv'
    <2>1. \A u \in Units : lock'[u] = Free => Uniform(table[u], 1..Points)
        BY <1>1, <1>2, <1>5, FreeAssumption DEF PointsInv
    <2>2. Uniform(table[h], 1..Points) /\ values[s] = <<>> /\ at[s] = 0
        BY <1>1, <1>2 DEF PointsInv
    <2>3. Uniform(table[h], (at[s] + 1)..Points)
        BY <2>2, SessionAssumption DEF Uniform
    <2>4. Len(values[s]) = 0
        BY <2>2
    <2>5. QED
        BY <1>1, <1>3, <1>5, <2>1, <2>2, <2>3, <2>4, SessionAssumption DEF PointsInv, Uniform, h
<1>9. CountInv'
    <2>1. \A x \in Sessions, u \in Units : Addressed(x, u)' <=> Addressed(x, u)
        BY <1>1 DEF Addressed, Authorized
    <2>2. \A x \in Sessions : x # s => Remaining(x)' = Remaining(x)
        BY <1>1, <1>3, <1>5 DEF Remaining
    <2>3. Remaining(s) = todo[s] /\ Remaining(s)' = todo[s] \ {h}
        BY <1>1, <1>3, <1>5 DEF Remaining, h
    <2>4. Addressed(s, h)
        BY <1>1, <1>2 DEF BusyInv, Addressed
    <2>5. QED
        BY <1>1, <1>2, <1>5, <2>1, <2>2, <2>3, <2>4 DEF CountInv
<1>10. ReplyInv' /\ NoTornRead' /\ AnsweredOnce'
    BY <1>1, <1>5 DEF ReplyInv, NoTornRead, AnsweredOnce, Authorized
<1>11. QED
    BY <1>4, <1>6, <1>7, <1>8, <1>9, <1>10

\* The points that were read are those the handler still holds.
LEMMA GetValuePreserves ==
    ASSUME SessionInv, NEW s \in Sessions, GetValue(s)
    PROVE  SessionInv'
<1> USE DEF SessionInv
<1> DEFINE h == Handler(s)
<1> DEFINE v == table[h][Len(values[s]) + 1]
<1>1. /\ pc[s] = "executing" /\ request[s].kind = "read"
      /\ Len(values[s]) < Points
      /\ values' = [values EXCEPT ![s] = Append(@, v)]
      /\ UNCHANGED <<table, lock, pc, request, todo, at, reply, executed, replies>>
    BY DEF GetValue
<1>2. h \in todo[s] /\ h \in Units
    BY <1>1, HandlerFacts DEF BusyInv
<1>3. \A x \in Sessions : Handler(x)' = Handler(x)
    BY <1>1 DEF Handler
<1> HIDE DEF h
<1>4. values[s] \in Seq(Values) /\ Len(values[s]) + 1 \in 1..Points
    BY <1>1, SessionAssumption DEF SessionTypeOK
<1>5. v \in Values
    <2>1. table[h] \in [1..Points -> Values]
        BY <1>2 DEF SessionTypeOK
    <2>2. QED
        BY <1>4, <2>1
<1>6. /\ values'[s] = Append(values[s], v)
      /\ \A x \in Sessions : x # s => values'[x] = values[x]
    BY <1>1 DEF SessionTypeOK
<1>7. SessionTypeOK'
    <2>1. Append(values[s], v) \in Seq(Values)
        BY <1>4, <1>5
    <2>2. values' \in [Sessions -> Seq(Values)]
        BY <1>1, <2>1 DEF SessionTypeOK
    <2>3. QED
        BY <1>1, <2>2 DEF SessionTypeOK
<1>8. BusyInv' /\ MutexInv'
    BY <1>1, <1>3 DEF BusyInv, Authorized, MutexInv
<1>9. PointsInv'
    <2>1. /\ at[s] = 0 /\ Uniform(table[h], 1..Points)
          /\ \A i \in DOMAIN values[s] : values[s][i] = table[h][i]
        BY <1>1 DEF PointsInv, h
    <2>2. /\ Len(values'[s]) <= Points
          /\ \A i \in DOMAIN values'[s] : values'[s][i] = table[h][i]
        BY <1>4, <1>5, <1>6, <2>1, SessionAssumption
    <2>3. \A x \in Sessions : x # s =>
            /\ pc[x] # "executing" => values'[x] = <<>> /\ at[x] = 0
            /\ pc[x] = "executing" /\ request[x].kind = "read" =>
                /\ at[x] = 0 /\ Len(values'[x]) <= Points
                /\ Uniform(table[Handler(x)], 1..Points)
                /\ \A i \in DOMAIN values'[x] : values'[x][i] = table[Handler(x)][i]
            /\ pc[x] = "executing" /\ request[x].kind = "write" =>
                /\ values'[x] = <<>>
                /\ \A a \in 1..at[x] : table[Handler(x)][a] = x
                /\ Uniform(table[Handler(x)], (at[x] + 1)..Points)
        BY <1>6 DEF PointsInv
    <2>4. QED
        BY <1>1, <1>3, <2>1, <2>2, <2>3 DEF PointsInv, Uniform, h
<1>10. CountInv'
    BY <1>1, <1>3 DEF CountInv, Addressed, Authorized, Remaining
<1>11. ReplyInv' /\ NoTornRead' /\ AnsweredOnce'
    BY <1>1 DEF ReplyInv, NoTornRead, AnsweredOnce, Authorized
<1>12. QED
    BY <1>7, <1>8, <1>9, <1>10, <1>11

\* A write goes on from where it is; the last point makes the handler uniform.
LEMMA SetValuePreserves ==
    ASSUME SessionInv, NEW s \in Sessions, SetValue(s)
    PROVE  SessionInv'
<1> USE DEF SessionInv
<1> DEFINE h == Handler(s)
<1>1. /\ pc[s] = "executing" /\ request[s].kind = "write"
      /\ at[s] < Points /\ at' = [at EXCEPT ![s] = @ + 1]
      /\ table' = [table EXCEPT ![h][at[s] + 1] = s]
      /\ UNCHANGED <<lock, pc, request, todo, values, reply, executed, replies>>
    BY DEF SetValue
<1>2. h \in todo[s] /\ h \in Units /\ lock[h] = s
    BY <1>1, HandlerFacts DEF BusyInv, MutexInv
<1>3. \A x \in Sessions : Handler(x)' = Handler(x)
    BY <1>1 DEF Handler
<1> HIDE DEF h
<1>4. at[s] \in Nat /\ at[s] + 1 \in 1..Points /\ at'[s] = at[s] + 1
    BY <1>1, SessionAssumption DEF SessionTypeOK
<1>5. /\ \A u \in Units : u # h => table'[u] = table[u]
      /\ table'[h] = [table[h] EXCEPT ![at[s] + 1] = s]
      /\ \A x \in Sessions : x # s => at'[x] = at[x]
    BY <1>1, <1>2 DEF SessionTypeOK
<1>6. \A a \in 1..Points : table'[h][a] = IF a = at[s] + 1 THEN s ELSE table[h][a]
    <2>1. table[h] \in [1..Points -> Values]
        BY <1>2 DEF SessionTypeOK
    <2>2. QED
        BY <1>4, <1>5, <2>1
<1>7. SessionTypeOK'
    <2>1. at' \in [Sessions -> 0..Points]
        BY <1>1, <1>4, SessionAssumption DEF SessionTypeOK
    <2>2. table' \in [Units -> [1..Points -> Values]]
        BY <1>1, <1>2, <1>4 DEF SessionTypeOK, Values
    <2>3. QED
        BY <1>1, <2>1, <2>2 DEF SessionTypeOK
<1>8. BusyInv' /\ MutexInv'
    BY <1>1, <1>3 DEF BusyInv, Authorized, MutexInv
<1>9. PointsInv'
    <2>1. \A u \in Units : lock[u] = Free => Uniform(table'[u], 1..Points)
        BY <1>2, <1>5, FreeAssumption DEF PointsInv, Uniform
    <2>2. \A x \in Sessions : x # s /\ pc[x] = "executing" =>
            Handler(x) \in Units /\ Handler(x) # h
        BY <1>2, HandlerFacts DEF BusyInv, MutexInv
    <2>3. \A x \in Sessions : x # s =>
            /\ pc[x] # "executing" => values[x] = <<>> /\ at'[x] = 0
            /\ pc[x] = "executing" => table'[Handler(x)] = table[Handler(x)]
        BY <1>5, <2>2 DEF PointsInv
    <2>4. /\ values[s] = <<>>
          /\ \A a \in 1..at[s] : table[h][a] = s
          /\ Uniform(table[h], (at[s] + 1)..Points)
        BY <1>1 DEF PointsInv, h
    <2>5. \A a \in 1..at'[s] : table'[h][a] = s
        BY <1>4, <1>6, <2>4, SessionAssumption
    <2>6. Uniform(table'[h], (at'[s] + 1)..Points)
        BY <1>4, <1>6, <2>4, SessionAssumption DEF Uniform
    <2>7. \A x \in Sessions : x # s =>
            /\ pc[x] = "executing" /\ request[x].kind = "read" =>
                /\ at'[x] = 0 /\ Len(values[x]) <= Points
                /\ Uniform(table'[Handler(x)], 1..Points)
                /\ \A i \in DOMAIN values[x] : values[x][i] = table'[Handler(x)][i]
            /\ pc[x] = "executing" /\ request[x].kind = "write" =>
                /\ values[x] = <<>>
                /\ \A a \in 1..at'[x] : table'[Handler(x)][a] = x
                /\ Uniform(table'[Handler(x)], (at'[x] + 1)..Points)
        BY <1>5, <2>3 DEF PointsInv
    <2>8. QED
        BY <1>1, <1>3, <2>1, <2>3, <2>4, <2>5, <2>6, <2>7 DEF PointsInv, Uniform, h
<1>10. CountInv'
    BY <1>1, <1>3 DEF CountInv, Addressed, Authorized, Remaining
<1>11. ReplyInv' /\ NoTornRead' /\ AnsweredOnce'
    BY <1>1 DEF ReplyInv, NoTornRead, AnsweredOnce, Authorized
<1>12. QED
    BY <1>7, <1>8, <1>9, <1>10, <1>11

\* A handler that returns leaves its points as some write left them, and what it
\* returns was read from such points.
LEMMA ResultFacts ==
    ASSUME SessionInv, NEW s \in Sessions, pc[s] = "executing", NEW result \in Results(s)
    PROVE  /\ Uniform(table[Handler(s)], 1..Points)
           /\ result \in [type: ReplyTypes, values: Seq(Values)]
           /\ \A i, j \in DOMAIN result.values : result.values[i] = result.values[j]
<1> USE DEF SessionInv
<1>1. /\ request[s].kind \in {"read", "write"}
      /\ values[s] \in Seq(Values) /\ at[s] \in 0..Points
    BY DEF BusyInv, SessionTypeOK
<1>2. \/ Len(values[s]) = Points /\ result = Data(values[s])
      \/ at[s] = Points /\ result = Echo
      \/ at[s] = 0 /\ result = Exception(HandlerCode)
    BY DEF Results
<1>3. result \in [type: ReplyTypes, values: Seq(Values)]
    <2>1. <<>> \in Seq(Values)
        OBVIOUS
    <2>2. \A v \in Seq(Values) : Data(v) \in [type: ReplyTypes, values: Seq(Values)]
        BY DEF Data, ReplyTypes
    <2>3. Echo \in [type: ReplyTypes, values: Seq(Values)]
        BY <2>1 DEF Echo, ReplyTypes
    <2>4. Exception(HandlerCode) \in [type: ReplyTypes, values: Seq(Values)]
        BY <2>1 DEF Exception, HandlerCode, ReplyTypes
    <2>5. QED
        BY <1>1, <1>2, <2>2, <2>3, <2>4
<1>4. CASE request[s].kind = "read"
    <2>1. /\ Uniform(table[Handler(s)], 1..Points)
          /\ Len(values[s]) <= Points
          /\ \A i \in DOMAIN values[s] : values[s][i] = table[Handler(s)][i]
        BY <1>4 DEF PointsInv
    <2>2. DOMAIN values[s] \subseteq 1..Points
        BY <1>1, <2>1, SessionAssumption
    <2>3. \A i, j \in DOMAIN values[s] : values[s][i] = values[s][j]
        BY <2>1, <2>2 DEF Uniform
    <2>4. result.values = values[s] \/ result.values = <<>>
        BY <1>2 DEF Data, Echo, Exception
    <2>5. QED
        BY <1>3, <2>1, <2>3, <2>4
<1>5. CASE request[s].kind = "write"
    <2>1. /\ values[s] = <<>>
          /\ \A a \in 1..at[s] : table[Handler(s)][a] = s
          /\ Uniform(table[Handler(s)], (at[s] + 1)..Points)
        BY <1>5 DEF PointsInv
    <2>2. at[s] \in {0, Points} /\ result.values = <<>>
        BY <1>2, <2>1, SessionAssumption DEF Echo, Exception
    <2>3. Uniform(table[Handler(s)], 1..Points)
        BY <2>1, <2>2 DEF Uniform
    <2>4. QED
        BY <1>3, <2>2, <2>3
<1>6. QED
    BY <1>1, <1>4, <1>5

\* The handler is released; the next one is asked, or the reply is due.
LEMMA ExecutedPreserves ==
    ASSUME SessionInv, NEW s \in Sessions, Executed(s)
    PROVE  SessionInv'
<1> USE DEF SessionInv
<1> DEFINE h == Handler(s)
<1>1. /\ pc[s] = "executing"
      /\ lock' = [lock EXCEPT ![h] = Free]
      /\ todo' = [todo EXCEPT ![s] = @ \ {h}]
      /\ values' = [values EXCEPT ![s] = <<>>]
      /\ at' = [at EXCEPT ![s] = 0]
      /\ UNCHANGED <<table, request, executed, replies>>
    BY DEF Executed
<1>2. PICK result \in Results(s) :
        IF request[s].dest.broadcast
        THEN /\ pc' = [pc EXCEPT ![s] = IF todo[s] = {h} THEN "idle" ELSE "locking"]
             /\ UNCHANGED reply
        ELSE /\ reply' = [reply EXCEPT ![s] = result]
             /\ pc' = [pc EXCEPT ![s] = "writing"]
    BY DEF Executed, Goto
<1>3. h \in todo[s] /\ h \in Units /\ lock[h] = s /\ todo[s] \subseteq Units
    BY <1>1, HandlerFacts DEF BusyInv, MutexInv, SessionTypeOK
<1>4. /\ Uniform(table[h], 1..Points)
      /\ result \in [type: ReplyTypes, values: Seq(Values)]
      /\ \A i, j \in DOMAIN result.values : result.values[i] = result.values[j]
    BY <1>1, ResultFacts
<1>5. \A x \in Sessions : x # s => Handler(x)' = Handler(x)
    BY <1>1 DEF Handler, SessionTypeOK
<1>6. SessionTypeOK'
    <2>1. /\ lock' \in [Units -> Sessions \cup {Free}]
          /\ todo' \in [Sessions -> SUBSET Units]
          /\ values' \in [Sessions -> Seq(Values)]
          /\ at' \in [Sessions -> 0..Points]
        <3>1. lock' \in [Units -> Sessions \cup {Free}] /\ todo' \in [Sessions -> SUBSET Units]
            BY <1>1 DEF SessionTypeOK
        <3>2. values' \in [Sessions -> Seq(Values)]
            BY <1>1 DEF SessionTypeOK
        <3>3. at' \in [Sessions -> 0..Points]
            BY <1>1, SessionAssumption DEF SessionTypeOK
        <3>4. QED
            BY <3>1, <3>2, <3>3
    <2>2. pc' \in [Sessions -> PCs]
        BY <1>2 DEF SessionTypeOK, PCs
    <2>3. reply' \in [Sessions -> [type: ReplyTypes, values: Seq(Values)]]
        BY <1>2, <1>4 DEF SessionTypeOK
    <2>4. QED
        BY <1>1, <2>1, <2>2, <2>3 DEF SessionTypeOK
<1>7. /\ \A x \in Sessions : x # s => /\ pc'[x] = pc[x] /\ todo'[x] = todo[x]
                                      /\ values'[x] = values[x] /\ at'[x] = at[x]
                                      /\ reply'[x] = reply[x]
      /\ todo'[s] = todo[s] \ {h} /\ values'[s] = <<>> /\ at'[s] = 0
      /\ lock'[h] = Free
      /\ \A u \in Units : u # h => lock'[u] = lock[u]
    BY <1>1, <1>2, <1>3 DEF SessionTypeOK
<1>8. /\ pc'[s] \in {"idle", "locking", "writing"}
      /\ pc'[s] \in {"idle", "locking"} => request[s].dest.broadcast /\ reply'[s] = reply[s]
      /\ pc'[s] = "idle" => todo[s] = {h}
      /\ pc'[s] = "locking" => todo[s] # {h}
      /\ pc'[s] = "writing" => ~request[s].dest.broadcast /\ reply'[s] = result
    BY <1>2 DEF SessionTypeOK
<1> HIDE DEF h
<1>9. /\ request[s].kind \in {"read", "write"} /\ Authorized(s, request[s])
      /\ request[s].dest.broadcast => request[s].kind = "write"
      /\ ~request[s].dest.broadcast => todo[s] = {request[s].dest.unit}
    BY <1>1 DEF BusyInv
<1>10. BusyInv'
    BY <1>1, <1>3, <1>7, <1>8, <1>9 DEF BusyInv, Authorized
<1>11. MutexInv'
    BY <1>1, <1>3, <1>5, <1>7, <1>8, FreeAssumption DEF MutexInv, h
<1>12. PointsInv'
    <2>1. \A u \in Units : lock'[u] = Free => Uniform(table[u], 1..Points)
        BY <1>4, <1>7 DEF PointsInv, h
    <2>2. QED
        BY <1>1, <1>5, <1>7, <1>8, <2>1 DEF PointsInv, Uniform
<1>13. CountInv'
    <2>1. \A x \in Sessions, u \in Units : Addressed(x, u)' <=> Addressed(x, u)
        BY <1>1 DEF Addressed, Authorized
    <2>2. \A x \in Sessions : x # s => Remaining(x)' = Remaining(x)
        BY <1>5, <1>7 DEF Remaining
    <2>3. Remaining(s)' = Remaining(s)
        BY <1>1, <1>3, <1>7, <1>8, <1>9 DEF Remaining, h
    <2>4. QED
        BY <1>1, <1>7, <1>8, <2>1, <2>2, <2>3 DEF CountInv
<1>14. ReplyInv'
    BY <1>1, <1>3, <1>7, <1>8, <1>9 DEF ReplyInv, Authorized
<1>15. NoTornRead'
    BY <1>4, <1>7, <1>8 DEF NoTornRead
<1>16. AnsweredOnce'
    BY <1>1, <1>7, <1>8 DEF ReplyInv, AnsweredOnce, Authorized
<1>17. QED
    BY <1>6, <1>10, <1>11, <1>12, <1>13, <1>14, <1>15, <1>16

\* The one reply that is due is written.
LEMMA WriteReplyPreserves ==
    ASSUME SessionInv, NEW s \in Sessions, WriteReply(s)
    PROVE  SessionInv'
<1> USE DEF SessionInv
<1>1. /\ pc[s] = "writing" /\ pc' = [pc EXCEPT ![s] = "idle"]
      /\ reply' = [reply EXCEPT ![s] = NoReply]
      /\ replies' = [replies EXCEPT ![s] = @ + 1]
      /\ UNCHANGED <<table, lock, request, todo, values, at, executed>>
    BY DEF WriteReply, Goto
<1>2. SessionTypeOK'
    BY <1>1 DEF SessionTypeOK, PCs, NoReply, ReplyTypes
<1>3. /\ \A x \in Sessions : x # s => /\ pc'[x] = pc[x] /\ reply'[x] = reply[x]
                                      /\ replies'[x] = replies[x]
      /\ pc'[s] = "idle" /\ reply'[s].values = <<>>
      /\ replies[s] = 0 /\ replies'[s] = 1
      /\ \A x \in Sessions : Handler(x)' = Handler(x)
    BY <1>1 DEF SessionTypeOK, Handler, NoReply, ReplyInv
<1>4. BusyInv' /\ MutexInv'
    BY <1>1, <1>3 DEF BusyInv, Authorized, MutexInv
<1>5. PointsInv'
    BY <1>1, <1>3 DEF PointsInv, Uniform
<1>6. CountInv'
    BY <1>1, <1>3 DEF CountInv, Addressed, Remaining, Authorized
<1>7. ReplyInv' /\ NoTornRead'
    BY <1>1, <1>3 DEF ReplyInv, NoTornRead, Authorized
<1>8. AnsweredOnce'
    BY <1>1, <1>3 DEF ReplyInv, AnsweredOnce, Authorized
<1>9. QED
    BY <1>2, <1>4, <1>5, <1>6, <1>7, <1>8

\* A reply that cannot be written ends the session.
LEMMA WriteFailsPreserves ==
    ASSUME SessionInv, NEW s \in Sessions, WriteFails(s)
    PROVE  SessionInv'
<1> USE DEF SessionInv
<1>1. /\ pc[s] = "writing" /\ pc' = [pc EXCEPT ![s] = "ended"]
      /\ reply' = [reply EXCEPT ![s] = NoReply]
      /\ UNCHANGED <<table, lock, request, todo, values, at, executed, replies>>
    BY DEF WriteFails, Goto
<1>2. SessionTypeOK'
    BY <1>1 DEF SessionTypeOK, PCs, NoReply, ReplyTypes
<1>3. /\ \A x \in Sessions : x # s => pc'[x] = pc[x] /\ reply'[x] = reply[x]
      /\ pc'[s] = "ended" /\ reply'[s].values = <<>>
      /\ \A x \in Sessions : Handler(x)' = Handler(x)
    BY <1>1 DEF SessionTypeOK, Handler, NoReply
<1>4. BusyInv' /\ MutexInv'
    BY <1>1, <1>3 DEF BusyInv, Authorized, MutexInv
<1>5. PointsInv'
    BY <1>1, <1>3 DEF PointsInv, Uniform
<1>6. CountInv'
    BY <1>1, <1>3 DEF CountInv, Addressed, Remaining, Authorized
<1>7. ReplyInv' /\ NoTornRead' /\ AnsweredOnce'
    BY <1>1, <1>3 DEF ReplyInv, NoTornRead, AnsweredOnce, Authorized
<1>8. QED
    BY <1>2, <1>4, <1>5, <1>6, <1>7

\* The task that owns the port leaves the sessions' state alone.
LEMMA UnchangedPreserves ==
    ASSUME SessionInv, UNCHANGED sessionVars
    PROVE  SessionInv'
<1> USE DEF SessionInv, sessionVars
<1>1. SessionTypeOK' /\ BusyInv' /\ MutexInv'
    BY DEF SessionTypeOK, BusyInv, Authorized, MutexInv, Handler
<1>2. PointsInv' /\ CountInv'
    BY DEF PointsInv, Uniform, CountInv, Addressed, Remaining, Authorized, Handler
<1>3. ReplyInv' /\ NoTornRead' /\ AnsweredOnce'
    BY DEF ReplyInv, NoTornRead, AnsweredOnce, Authorized
<1>4. QED
    BY <1>1, <1>2, <1>3

-----------------------------------------------------------------------------
(* Theorems *)

\* Every step of a session, and of the task that owns the serial port, preserves
\* the invariant.
THEOREM SessionInvariant == Spec => []SessionInv
<1>1. Init => SessionInv
    <2> SUFFICES ASSUME Init PROVE SessionInv
        OBVIOUS
    <2> USE DEF Init, SessionInit
    <2>1. SessionTypeOK
        BY SessionAssumption
        DEF SessionTypeOK, Values, PCs, NoRequest, Requests, UnitIds, NoReply, ReplyTypes
    <2>2. BusyInv /\ MutexInv /\ CountInv
        BY FreeAssumption DEF BusyInv, MutexInv, CountInv
    <2>3. PointsInv
        BY DEF PointsInv, Uniform
    <2>4. ReplyInv /\ NoTornRead /\ AnsweredOnce
        BY DEF ReplyInv, NoTornRead, AnsweredOnce, NoReply
    <2>5. QED
        BY <2>1, <2>2, <2>3, <2>4 DEF SessionInv
<1>2. SessionInv /\ [Next]_vars => SessionInv'
    <2> SUFFICES ASSUME SessionInv, [Next]_vars PROVE SessionInv'
        OBVIOUS
    <2>1. CASE UNCHANGED vars
        BY <2>1, UnchangedPreserves DEF vars
    <2>2. CASE SetDecodeLevel \/ DropHandle \/ OpenFails \/ SessionFailed \/ ReceiveSetting \/ WakeUp
        BY <2>2, UnchangedPreserves
        DEF SetDecodeLevel, DropHandle, OpenFails, SessionFailed, ReceiveSetting, WakeUp
    <2>3. CASE OpenOk
        BY <2>3, StartPreserves, SessionAssumption, RtuAssumption DEF OpenOk
    <2>4. CASE ReceiveClosed
        BY <2>4, EndPreserves, UnchangedPreserves, SessionAssumption, RtuAssumption
        DEF ReceiveClosed
    <2>5. CASE \E s \in Sessions : (SessionStep(s) \/ End(s)) /\ UNCHANGED taskVars
        <3> SUFFICES ASSUME NEW s \in Sessions, SessionStep(s) \/ End(s)
                     PROVE  SessionInv'
            BY <2>5
        <3>1. CASE HandleFrame(s) \/ End(s)
            BY <3>1, HandleFramePreserves, EndPreserves
        <3>2. CASE LockHandler(s) \/ GetValue(s)
            BY <3>2, LockHandlerPreserves, GetValuePreserves
        <3>3. CASE SetValue(s) \/ Executed(s)
            BY <3>3, SetValuePreserves, ExecutedPreserves
        <3>4. CASE WriteReply(s) \/ WriteFails(s)
            BY <3>4, WriteReplyPreserves, WriteFailsPreserves
        <3>5. QED
            BY <3>1, <3>2, <3>3, <3>4 DEF SessionStep, ExecuteStep
    <2>6. CASE \E s \in Sessions \ {Port} : Start(s) /\ UNCHANGED taskVars
        BY <2>6, StartPreserves
    <2>7. QED
        BY <2>1, <2>2, <2>3, <2>4, <2>5, <2>6 DEF Next, TaskStep
<1>3. QED
    BY <1>1, <1>2, PTL DEF Spec

\* A reply holds what its handler held at one moment, however many sessions read
\* and write the handler's points one by one (the guard of handler.lock() lives
\* as long as get_reply).
THEOREM NoTornReadAlways == Spec => []NoTornRead
<1>1. SessionInv => NoTornRead
    BY DEF SessionInv
<1>2. QED
    BY <1>1, SessionInvariant, PTL

\* A request that is done with was executed once by each handler it was addressed
\* to, and by no other (handle_frame).
THEOREM ExecutedOnceAlways == Spec => []ExecutedOnce
<1>1. SessionInv => ExecutedOnce
    BY DEF SessionInv, CountInv, Remaining, ExecutedOnce
<1>2. QED
    BY <1>1, SessionInvariant, PTL

\* A session that goes on has answered each request for one of its units once, and
\* no broadcast (reply_with_error_generic, handle_frame).
THEOREM AnsweredOnceAlways == Spec => []AnsweredOnce
<1>1. SessionInv => AnsweredOnce
    BY DEF SessionInv
<1>2. QED
    BY <1>1, SessionInvariant, PTL
=============================================================================
