----------------------------- MODULE Ffi_proofs -----------------------------
(***************************************************************************)
(* Theorems about the bindings (Ffi over FfiServer): for any threads,         *)
(* servers, units, endpoints, requests and queue sizes, and with callbacks    *)
(* that call the API to any depth.                                           *)
(***************************************************************************)
EXTENDS Ffi, TLAPS, SequenceTheorems

-----------------------------------------------------------------------------
(* The inductive invariant *)

Reading == {"read", "write", "lock for read", "lock for write"}
Ops == Callbacks \cup Reading \cup {"locking", "setting"}
Frames == [op: Ops, on: Servers \cup Handlers \cup Requests, unit: Units \cup {None}]
Maps == [Units -> Handlers \cup {None}]
Databases == [1..Points -> Values \cup {Absent}]
ServerRecords ==
    [state: {"none", "up", "destroyed"}, kind: Kinds \cup {None}, filter: Filters,
     given: Filters, map: Maps]

ServerTypeOK ==
    /\ endpoints \in Maps
    /\ made \subseteq Handlers
    /\ servers \in [Servers -> ServerRecords]
    /\ db \in [Handlers -> Databases]
    /\ lock \in [Handlers -> Callers \cup {None}]
    /\ values \in [Servers -> Seq(Values \cup {Absent})]
    /\ call \in [Callers -> Seq(Frames)]
    /\ committed \in [Handlers -> Databases]

\* The endpoint a frame works on, where the servers are as in svrs
WorksOn(f, svrs) == IF f.op = "configure" THEN f.on ELSE svrs[f.on].map[f.unit]

\* The calls that hold the mutex of an endpoint, and those that work on one
Locked == {"read", "update", "write"}
Working == Locked \cup {"locking", "lock for read", "lock for write"}

\* What a call has been given: a configure its endpoint, a call that works on a
\* server's database a unit that is in the map of a server that was created; the
\* sessions work for their own server.
GoodFrame(f, c, svrs, mk) ==
    /\ f.op = "configure" => f.on \in mk /\ f.unit \in Units
    /\ f.op \in Working =>
        /\ f.on \in Servers /\ f.unit \in Units
        /\ svrs[f.on].state # "none"
        /\ svrs[f.on].map[f.unit] \in mk
    /\ f.op \in Reading => c = f.on
    /\ f.op = "callback" => f.on \in Requests
    /\ f.op = "setting" => f.on \in Servers

FramesInv ==
    \A c \in Callers : \A i \in 1..Len(call[c]) :
        /\ GoodFrame(call[c][i], c, servers, made)
        /\ i # Len(call[c]) => call[c][i].op \in Callbacks

\* What is in a map was made, and an endpoint that is configured is in no map.
MapsInv ==
    /\ \A u \in Units : endpoints[u] \in made \cup {None}
    /\ \A s \in Servers, u \in Units : servers[s].map[u] \in made \cup {None}
    /\ \A c \in Callers : \A i \in 1..Len(call[c]) : call[c][i].op = "configure" =>
        /\ \A u \in Units : endpoints[u] # call[c][i].on
        /\ \A s \in Servers, u \in Units : servers[s].map[u] # call[c][i].on
        /\ \A d \in Callers : \A j \in 1..Len(call[d]) :
            call[d][j].op = "configure" => d = c /\ j = i

\* A call that holds a mutex is the only one that does.
MutexInv ==
    \A c \in Callers : \A i \in 1..Len(call[c]) : call[c][i].op \in Locked =>
        /\ lock[WorksOn(call[c][i], servers)] = c
        /\ \A j \in 1..Len(call[c]) :
            /\ call[c][j].op \in Locked
            /\ WorksOn(call[c][j], servers) = WorksOn(call[c][i], servers)
            => j = i

\* Only a transaction that is not over makes a database differ from the committed one.
CommittedInv ==
    \A h \in Handlers :
        \/ db[h] = committed[h]
        \/ \E c \in Callers : \E i \in 1..Len(call[c]) :
            call[c][i].op \in Transactions /\ WorksOn(call[c][i], servers) = h

\* A session has values only while it reads.
ValuesInv ==
    \A s \in Servers : ~In(s, {"read"}) => values[s] = <<>>

ServerInv ==
    /\ ServerTypeOK
    /\ FramesInv
    /\ MapsInv
    /\ MutexInv
    /\ CommittedInv
    /\ ValuesInv
    /\ ReadsCommitted

Commands == Requests \cup {Setting}

ClientTypeOK ==
    /\ queue \in Seq(Commands)
    /\ returned \in [Requests -> Results]
    /\ called \in [Requests -> Nat]

\* A request that is in the queue was accepted, and is there once.
QueueInv ==
    /\ \A i \in 1..Len(queue) : queue[i] \in Requests => returned[queue[i]] = "Ok"
    /\ \A i, j \in 1..Len(queue) : queue[i] \in Requests /\ queue[i] = queue[j] => i = j

ClientInv ==
    /\ ClientTypeOK
    /\ QueueInv
    /\ CalledBackOnce

-----------------------------------------------------------------------------
(* Stacks *)

\* A caller in no call has no frame.
LEMMA EmptyFacts ==
    /\ 1..Len(<<>>) = {}
    /\ \A S : <<>> \in Seq(S)
OBVIOUS

\* A call pushes one frame on the stack.
LEMMA PushFacts ==
    ASSUME NEW S, NEW q \in Seq(S), NEW f \in S
    PROVE  /\ Append(q, f) \in Seq(S)
           /\ Append(q, f) # <<>>
           /\ Len(q) \in Nat /\ Len(Append(q, f)) = Len(q) + 1
           /\ Last(Append(q, f)) = f
           /\ \A i \in 1..Len(Append(q, f)) :
                \/ i \in 1..Len(q) /\ i # Len(Append(q, f)) /\ Append(q, f)[i] = q[i]
                \/ i = Len(Append(q, f)) /\ i \notin 1..Len(q) /\ Append(q, f)[i] = f
           /\ \A i \in 1..Len(q) : i \in 1..Len(Append(q, f)) /\ Append(q, f)[i] = q[i]
<1>1. PICK n \in Nat : n = Len(q)
    OBVIOUS
<1>2. PICK p : p = Append(q, f)
    OBVIOUS
<1>3. /\ p \in Seq(S) /\ p # <<>> /\ Len(p) = n + 1
      /\ \A i \in 1..n : p[i] = q[i]
      /\ p[n + 1] = f
    BY <1>1, <1>2, AppendProperties
<1>4. \A i \in 1..(n + 1) : i \in 1..n \/ (i = n + 1 /\ i \notin 1..n)
    BY <1>1
<1>5. \A i \in 1..n : i \in 1..(n + 1) /\ i # n + 1
    BY <1>1
<1>6. QED
    BY <1>1, <1>2, <1>3, <1>4, <1>5 DEF Last

\* A return takes the top frame off the stack.
LEMMA PopFacts ==
    ASSUME NEW S, NEW q \in Seq(S), q # <<>>
    PROVE  /\ Front(q) \in Seq(S)
           /\ Len(q) \in 1..Len(q) /\ Last(q) = q[Len(q)] /\ Last(q) \in S
           /\ Len(Front(q)) \in Nat /\ Len(Front(q)) + 1 = Len(q)
           /\ \A i \in 1..Len(Front(q)) :
                i \in 1..Len(q) /\ i # Len(q) /\ Front(q)[i] = q[i]
           /\ \A i \in 1..Len(q) : i # Len(q) => i \in 1..Len(Front(q))
<1>1. PICK n \in Nat : n = Len(q)
    OBVIOUS
<1>2. n # 0
    BY <1>1, EmptySeq
<1>3. \A i \in 1..n : q[i] \in S
    BY <1>1
<1>4. PICK m \in Nat : m + 1 = n
    BY <1>2
<1>5. PICK p : p = SubSeq(q, 1, m)
    OBVIOUS
<1>6. /\ p \in Seq(S)
      /\ Len(p) = IF 1 <= m THEN m - 1 + 1 ELSE 0
      /\ \A i \in 1..(m - 1 + 1) : p[i] = q[1 + i - 1]
    <2>1. \A i \in 1..m : q[i] \in S
        BY <1>3, <1>4
    <2>2. 1 \in Int /\ m \in Int
        OBVIOUS
    <2>3. QED
        BY <1>5, <2>1, <2>2, SubSeqProperties
<1>7. Len(p) = m /\ \A i \in 1..m : p[i] = q[i]
    BY <1>6
<1>8. Front(q) = p
    BY <1>1, <1>4, <1>5 DEF Front
<1>9. n \in 1..n /\ \A i \in 1..m : i \in 1..n /\ i # n
    BY <1>4
<1>10. \A i \in 1..n : i # n => i \in 1..m
    BY <1>4
<1>11. QED
    BY <1>1, <1>3, <1>4, <1>6, <1>7, <1>8, <1>9, <1>10 DEF Last

\* A call that goes on changes the top frame only.
LEMMA SwapFacts ==
    ASSUME NEW S, NEW q \in Seq(S), q # <<>>, NEW f \in S
    PROVE  /\ Append(Front(q), f) \in Seq(S)
           /\ Append(Front(q), f) # <<>>
           /\ Len(Append(Front(q), f)) = Len(q)
           /\ Last(Append(Front(q), f)) = f
           /\ Append(Front(q), f)[Len(q)] = f
           /\ \A i \in 1..Len(q) : i # Len(q) => Append(Front(q), f)[i] = q[i]
<1>1. PICK p : p = Front(q)
    OBVIOUS
<1>2. p \in Seq(S) /\ Len(p) + 1 = Len(q) /\ \A i \in 1..Len(p) : p[i] = q[i]
    BY <1>1, PopFacts
<1>3. \A i \in 1..Len(q) : i # Len(q) => i \in 1..Len(p)
    BY <1>1, PopFacts
<1>4. /\ Append(p, f) \in Seq(S) /\ Append(p, f) # <<>>
      /\ Len(Append(p, f)) = Len(p) + 1
      /\ \A i \in 1..Len(p) : Append(p, f)[i] = p[i]
      /\ Append(p, f)[Len(p) + 1] = f
    BY <1>2, AppendProperties
<1>5. QED
    BY <1>1, <1>2, <1>3, <1>4 DEF Last


-----------------------------------------------------------------------------
(* What the invariant says of one call *)

\* The top frame of a stack is one of its frames, and as good as they are.
LEMMA TopFacts ==
    ASSUME ServerInv, NEW c \in Callers, call[c] # <<>>
    PROVE  /\ call[c] \in Seq(Frames)
           /\ Len(call[c]) \in 1..Len(call[c])
           /\ Top(c) = call[c][Len(call[c])] /\ Top(c) \in Frames
           /\ GoodFrame(Top(c), c, servers, made)
           /\ Handler(c) = WorksOn(Top(c), servers)
<1>1. call[c] \in Seq(Frames)
    BY DEF ServerInv, ServerTypeOK
<1>2. /\ Len(call[c]) \in 1..Len(call[c])
      /\ Top(c) = call[c][Len(call[c])] /\ Top(c) \in Frames
    BY <1>1, PopFacts DEF Top
<1>3. QED
    BY <1>1, <1>2 DEF ServerInv, FramesInv, Handler, WorksOn

\* A call that works on a database works on an endpoint that was made.
LEMMA WorkedOn ==
    ASSUME ServerInv, NEW f \in Frames, NEW c \in Callers, GoodFrame(f, c, servers, made),
           f.op \in Working \cup {"configure"}
    PROVE  WorksOn(f, servers) \in made /\ WorksOn(f, servers) \in Handlers
<1>1. made \subseteq Handlers
    BY DEF ServerInv, ServerTypeOK
<1>2. WorksOn(f, servers) \in made
    BY DEF GoodFrame, WorksOn, Working, Locked
<1>3. QED
    BY <1>1, <1>2

\* Nobody else works under the mutex that a call holds.
LEMMA HolderAlone ==
    ASSUME ServerInv, NEW c \in Callers, In(c, Locked),
           NEW d \in Callers, NEW i \in 1..Len(call[d]), call[d][i].op \in Locked,
           WorksOn(call[d][i], servers) = Handler(c)
    PROVE  d = c /\ i = Len(call[c])
<1>1. /\ Len(call[c]) \in 1..Len(call[c]) /\ Top(c) = call[c][Len(call[c])]
      /\ Handler(c) = WorksOn(Top(c), servers)
    BY TopFacts DEF In
<1>2. /\ lock[WorksOn(Top(c), servers)] = c
      /\ \A j \in 1..Len(call[c]) :
            /\ call[c][j].op \in Locked
            /\ WorksOn(call[c][j], servers) = WorksOn(Top(c), servers)
            => j = Len(call[c])
    BY <1>1 DEF In, ServerInv, MutexInv
<1>3. lock[WorksOn(call[d][i], servers)] = d
    BY DEF ServerInv, MutexInv
<1>4. QED
    BY <1>1, <1>2, <1>3

\* No transaction is under way on a database that is read.
LEMMA ReaderAlone ==
    ASSUME ServerInv, NEW s \in Servers, In(s, {"read"}),
           NEW d \in Callers, NEW i \in 1..Len(call[d]), call[d][i].op \in Transactions
    PROVE  WorksOn(call[d][i], servers) # Handler(s)
<1>1. s \in Callers
    BY DEF Callers
<1>2. /\ Len(call[s]) \in 1..Len(call[s]) /\ Top(s) = call[s][Len(call[s])]
      /\ Handler(s) = WorksOn(Top(s), servers) /\ Top(s).op = "read"
      /\ GoodFrame(Top(s), s, servers, made)
    BY <1>1, TopFacts DEF In
<1>3. CASE call[d][i].op = "configure"
    <2>1. \A t \in Servers, u \in Units : servers[t].map[u] # call[d][i].on
        BY <1>3 DEF ServerInv, MapsInv
    <2>2. Top(s).on \in Servers /\ Top(s).unit \in Units
        BY <1>2 DEF GoodFrame, Working, Locked
    <2>3. QED
        BY <1>2, <1>3, <2>1, <2>2 DEF WorksOn
<1>4. CASE call[d][i].op # "configure"
    <2>1. call[d][i].op \in Locked /\ call[d][i].op # "read" /\ In(s, Locked)
        BY <1>2, <1>4 DEF Transactions, Locked, In
    <2>2. SUFFICES ASSUME WorksOn(call[d][i], servers) = Handler(s) PROVE FALSE
        OBVIOUS
    <2>3. d = s /\ i = Len(call[s])
        BY <1>1, <2>1, <2>2, HolderAlone
    <2>4. QED
        BY <1>2, <2>1, <2>3
<1>5. QED
    BY <1>3, <1>4

\* What a session reads is committed.
LEMMA ReadsWhatIsCommitted ==
    ASSUME ServerInv, NEW s \in Servers, In(s, {"read"})
    PROVE  Handler(s) \in Handlers /\ db[Handler(s)] = committed[Handler(s)]
<1>1. s \in Callers
    BY DEF Callers
<1>2. /\ Top(s) \in Frames /\ Handler(s) = WorksOn(Top(s), servers) /\ Top(s).op = "read"
      /\ GoodFrame(Top(s), s, servers, made)
    BY <1>1, TopFacts DEF In
<1>3. Handler(s) \in Handlers
    BY <1>1, <1>2, WorkedOn DEF Working, Locked
<1>4. QED
    BY <1>3, ReaderAlone DEF ServerInv, CommittedInv


-----------------------------------------------------------------------------
(* The steps of the server half *)

dbVars == <<db, lock, values, committed>>

\* The map may be emptied, nothing else that matters here changes.
LEMMA QuietPreserves ==
    ASSUME ServerInv, UNCHANGED <<made, servers, call, dbVars>>,
           endpoints' = endpoints \/ endpoints' = NoEndpoints
    PROVE  ServerInv'
<1> USE DEF ServerInv, dbVars
<1>1. ServerTypeOK'
    BY DEF ServerTypeOK, NoEndpoints, Maps
<1>2. FramesInv'
    BY DEF FramesInv
<1>3. MapsInv'
    <2>1. \A u \in Units : endpoints'[u] \in {endpoints[u], None}
        BY DEF NoEndpoints
    <2>2. \A c \in Callers : \A i \in 1..Len(call[c]) : call[c][i].op = "configure" =>
            call[c][i].on # None
        <3>1. None \notin made
            BY FfiServerAssumption DEF ServerTypeOK
        <3>2. QED
            BY <3>1 DEF FramesInv, GoodFrame
    <2>3. /\ \A u \in Units : endpoints'[u] \in made' \cup {None}
          /\ \A s \in Servers, u \in Units : servers'[s].map[u] \in made' \cup {None}
        BY <2>1 DEF MapsInv
    <2>4. QED
        BY <2>1, <2>2, <2>3 DEF MapsInv
<1>4. MutexInv' /\ CommittedInv'
    BY DEF MutexInv, CommittedInv
<1>5. ValuesInv' /\ ReadsCommitted'
    BY DEF ValuesInv, ReadsCommitted, In, Top, Handler
<1>6. QED
    BY <1>1, <1>2, <1>3, <1>4, <1>5

\* A server is created or destroyed: no call works for a server that does not
\* exist, and nothing is configured while one is created.
LEMMA ServersPreserve ==
    ASSUME ServerInv, NEW s \in Servers, NEW rec \in ServerRecords,
           UNCHANGED <<made, call, dbVars>>,
           servers' = [servers EXCEPT ![s] = rec],
           rec.state # "none",
           \/ rec.map = servers[s].map /\ UNCHANGED endpoints
           \/ rec.map = endpoints /\ endpoints' = NoEndpoints /\ MapUnused
              /\ servers[s].state = "none"
    PROVE  ServerInv'
<1> USE DEF ServerInv, dbVars
<1>1. ServerTypeOK'
    BY DEF ServerTypeOK, NoEndpoints, Maps
<1>2. /\ servers'[s] = rec
      /\ \A t \in Servers : t # s => servers'[t] = servers[t]
    BY DEF ServerTypeOK
<1>3. \A t \in Servers : servers[t].state # "none" =>
            servers'[t].state # "none" /\ servers'[t].map = servers[t].map
    BY <1>2
<1>4. \A c \in Callers : \A i \in 1..Len(call[c]) :
            /\ GoodFrame(call[c][i], c, servers', made)
            /\ call[c][i].op \in Working \cup {"configure"} =>
                  WorksOn(call[c][i], servers') = WorksOn(call[c][i], servers)
    <2> SUFFICES ASSUME NEW c \in Callers, NEW i \in 1..Len(call[c])
                 PROVE  /\ GoodFrame(call[c][i], c, servers', made)
                        /\ call[c][i].op \in Working \cup {"configure"} =>
                              WorksOn(call[c][i], servers') = WorksOn(call[c][i], servers)
        OBVIOUS
    <2>1. GoodFrame(call[c][i], c, servers, made)
        BY DEF FramesInv
    <2>2. QED
        BY <1>3, <2>1 DEF GoodFrame, WorksOn
<1>5. FramesInv'
    BY <1>4 DEF FramesInv
<1>6. MapsInv'
    <2>1. CASE rec.map = servers[s].map /\ UNCHANGED endpoints
        <3>1. \A t \in Servers, u \in Units : servers'[t].map[u] = servers[t].map[u]
            BY <1>2, <2>1
        <3>2. QED
            BY <2>1, <3>1 DEF MapsInv
    <2>2. CASE rec.map = endpoints /\ endpoints' = NoEndpoints /\ MapUnused
        <3>1. \A t \in Servers, u \in Units : servers'[t].map[u] \in {servers[t].map[u], endpoints[u]}
            BY <1>2, <2>2
        <3>2. \A u \in Units : endpoints'[u] = None
            BY <2>2 DEF NoEndpoints
        <3>3. \A c \in Callers : \A i \in 1..Len(call[c]) : call[c][i].op # "configure"
            <4>1. \A c \in Callers : DOMAIN call[c] = 1..Len(call[c])
                BY DEF ServerTypeOK
            <4>2. QED
                BY <2>2, <4>1 DEF MapUnused
        <3>4. /\ \A u \in Units : endpoints'[u] \in made' \cup {None}
              /\ \A t \in Servers, u \in Units : servers'[t].map[u] \in made' \cup {None}
            BY <3>1, <3>2 DEF MapsInv
        <3>5. QED
            BY <3>3, <3>4 DEF MapsInv
    <2>3. QED
        BY <2>1, <2>2
<1>7. MutexInv'
    <2> DEFINE W(c, i) == WorksOn(call[c][i], servers)
    <2> DEFINE N(c, i) == WorksOn(call[c][i], servers')
    <2> DEFINE Own(c, i) == call[c][i].op \in Locked
    <2>1. \A c \in Callers : \A i \in 1..Len(call[c]) : Own(c, i) => N(c, i) = W(c, i)
        BY <1>4 DEF Working
    <2>2. \A c \in Callers : \A i \in 1..Len(call[c]) : Own(c, i) =>
            /\ lock[W(c, i)] = c
            /\ \A j \in 1..Len(call[c]) : Own(c, j) /\ W(c, j) = W(c, i) => j = i
        BY DEF MutexInv
    <2>3. (MutexInv)' <=> \A c \in Callers : \A i \in 1..Len(call[c]) : Own(c, i) =>
            /\ lock[N(c, i)] = c
            /\ \A j \in 1..Len(call[c]) : Own(c, j) /\ N(c, j) = N(c, i) => j = i
        BY DEF MutexInv
    <2> HIDE DEF W, N, Own
    <2>4. QED
        BY <2>1, <2>2, <2>3
<1>8. CommittedInv'
    <2>1. Transactions \subseteq Working \cup {"configure"}
        BY DEF Transactions, Working, Locked
    <2>2. QED
        BY <1>4, <2>1, ZenonT(60) DEF CommittedInv
<1>9. \A t \in Servers : In(t, {"read"}) => Handler(t)' = Handler(t)
    <2> SUFFICES ASSUME NEW t \in Servers, In(t, {"read"}) PROVE Handler(t)' = Handler(t)
        OBVIOUS
    <2>1. t \in Callers
        BY DEF Callers
    <2>2. /\ Len(call[t]) \in 1..Len(call[t]) /\ Top(t) = call[t][Len(call[t])]
          /\ Handler(t) = WorksOn(Top(t), servers) /\ Top(t).op = "read"
        BY <2>1, TopFacts DEF In
    <2>3. Handler(t)' = WorksOn(Top(t), servers')
        BY DEF Handler, WorksOn, Top
    <2>4. QED
        BY <1>4, <2>1, <2>2, <2>3 DEF Working, Locked
<1>10. ValuesInv' /\ ReadsCommitted'
    BY <1>9 DEF ValuesInv, ReadsCommitted, In, Top
<1>11. QED
    BY <1>1, <1>5, <1>6, <1>7, <1>8, <1>10

\* A call that holds no mutex begins: of a thread, or within a callback.
LEMMA PushPreserves ==
    ASSUME ServerInv, NEW c \in Callers, NEW f \in Frames, Push(c, f),
           call[c] = <<>> \/ In(c, Callbacks),
           UNCHANGED <<endpoints, servers, dbVars>>,
           made \subseteq made', made' \subseteq Handlers,
           GoodFrame(f, c, servers, made'), f.op \notin Locked,
           f.op = "configure" => f.on \notin made /\ f.on # None /\ MapUnused
    PROVE  ServerInv'
<1> USE DEF ServerInv, dbVars
<1>1. call \in [Callers -> Seq(Frames)] /\ call[c] \in Seq(Frames)
    BY DEF ServerTypeOK
<1>2. PICK q : q = Append(call[c], f)
    OBVIOUS
<1>3. call' = [call EXCEPT ![c] = q]
    BY <1>2 DEF Push
<1>4. /\ q \in Seq(Frames) /\ q # <<>> /\ Last(q) = f
      /\ \A i \in 1..Len(q) :
            \/ i \in 1..Len(call[c]) /\ i # Len(q) /\ q[i] = call[c][i]
            \/ i = Len(q) /\ i \notin 1..Len(call[c]) /\ q[i] = f
      /\ \A i \in 1..Len(call[c]) : i \in 1..Len(q) /\ q[i] = call[c][i]
    BY <1>1, <1>2, PushFacts
<1>5. /\ call'[c] = q
      /\ \A d \in Callers : d # c => call'[d] = call[d]
    BY <1>1, <1>3
<1>6. ServerTypeOK'
    BY <1>1, <1>3, <1>4 DEF ServerTypeOK
\* Every frame of the next state was there before, or is f on top of c.
<1>7. \A d \in Callers : \A i \in 1..Len(call'[d]) :
            \/ i \in 1..Len(call[d]) /\ call'[d][i] = call[d][i]
               /\ (d = c => i # Len(call'[d]))
            \/ d = c /\ i = Len(q) /\ i \notin 1..Len(call[d]) /\ call'[d][i] = f
    BY <1>4, <1>5
<1>8. FramesInv'
    <2> SUFFICES ASSUME NEW d \in Callers, NEW i \in 1..Len(call'[d])
                 PROVE  /\ GoodFrame(call'[d][i], d, servers', made')
                        /\ i # Len(call'[d]) => call'[d][i].op \in Callbacks
        BY DEF FramesInv
    <2>1. CASE d = c /\ i = Len(q) /\ call'[d][i] = f
        BY <1>5, <2>1
    <2>2. CASE i \in 1..Len(call[d]) /\ call'[d][i] = call[d][i]
        <3>1. GoodFrame(call[d][i], d, servers, made)
            BY <2>2 DEF FramesInv
        <3>2. GoodFrame(call[d][i], d, servers, made')
            BY <3>1 DEF GoodFrame
        <3>3. i # Len(call[d]) => call[d][i].op \in Callbacks
            BY <2>2 DEF FramesInv
        <3>4. CASE d # c
            BY <1>5, <2>2, <3>2, <3>3, <3>4
        <3>5. CASE d = c
            <4>1. i = Len(call[c]) => call[c][i].op \in Callbacks
                <5>1. call[c] # <<>>
                    BY <2>2, <3>5, <1>1, EmptySeq
                <5>2. QED
                    BY <5>1 DEF In, Top, Last
            <4>2. QED
                BY <2>2, <3>2, <3>3, <3>5, <4>1
        <3>6. QED
            BY <3>4, <3>5
    <2>3. QED
        BY <1>7, <2>1, <2>2
<1>9. MapsInv'
    <2>1. /\ \A u \in Units : endpoints'[u] \in made' \cup {None}
          /\ \A s \in Servers, u \in Units : servers'[s].map[u] \in made' \cup {None}
        BY DEF MapsInv
    <2>2. CASE f.op # "configure"
        <3>1. \A d \in Callers : \A i \in 1..Len(call'[d]) : call'[d][i].op = "configure" =>
                i \in 1..Len(call[d]) /\ call[d][i].op = "configure" /\ call'[d][i].on = call[d][i].on
            BY <1>7, <2>2
        <3>2. QED
            BY <2>1, <3>1 DEF MapsInv
    <2>3. CASE f.op = "configure"
        <3>1. \A d \in Callers : \A i \in 1..Len(call[d]) : call[d][i].op # "configure"
            <4>1. \A d \in Callers : DOMAIN call[d] = 1..Len(call[d])
                BY <1>1
            <4>2. QED
                BY <2>3, <4>1 DEF MapUnused
        <3>2. \A d \in Callers : \A i \in 1..Len(call'[d]) : call'[d][i].op = "configure" =>
                d = c /\ i = Len(q) /\ call'[d][i] = f
            BY <1>7, <3>1
        <3>3. /\ \A u \in Units : endpoints[u] # f.on
              /\ \A s \in Servers, u \in Units : servers[s].map[u] # f.on
            BY <2>3 DEF MapsInv
        <3>4. QED
            BY <2>1, <3>2, <3>3 DEF MapsInv
    <2>4. QED
        BY <2>2, <2>3
<1>10. MutexInv'
    <2>1. \A d \in Callers : \A i \in 1..Len(call'[d]) : call'[d][i].op \in Locked =>
            i \in 1..Len(call[d]) /\ call'[d][i] = call[d][i]
        BY <1>7
    <2>2. QED
        BY <2>1 DEF MutexInv
<1>11. CommittedInv'
    <2>1. \A d \in Callers : \A i \in 1..Len(call[d]) :
            i \in 1..Len(call'[d]) /\ call'[d][i] = call[d][i]
        BY <1>4, <1>5
    <2>2. QED
        BY <2>1 DEF CommittedInv
<1>12. ValuesInv' /\ ReadsCommitted'
    <2> SUFFICES ASSUME NEW s \in Servers
                 PROVE  /\ ~In(s, {"read"})' => values[s] = <<>>
                        /\ In(s, {"read"})' => \A i \in DOMAIN values[s] :
                              values[s][i] = committed[Handler(s)'][i]
        BY DEF ValuesInv, ReadsCommitted
    <2>0. s \in Callers
        BY DEF Callers
    <2>1. CASE s # c
        BY <1>5, <2>0, <2>1, ZenonT(60) DEF ValuesInv, ReadsCommitted, In, Top, Handler
    <2>2. CASE s = c
        <3>1. ~In(s, {"read"})
            BY <2>2 DEF In, Callbacks, Transactions
        <3>2. ~In(s, {"read"})'
            BY <1>4, <1>5, <2>2 DEF In, Top, Locked
        <3>3. QED
            BY <3>1, <3>2 DEF ValuesInv
    <2>3. QED
        BY <2>1, <2>2
<1>13. QED
    BY <1>6, <1>8, <1>9, <1>10, <1>11, <1>12


\* The frames that remain when c returns from a call
LEMMA PopFrames ==
    ASSUME ServerInv, NEW c \in Callers, call[c] # <<>>, Pop(c)
    PROVE  /\ call' \in [Callers -> Seq(Frames)]
           /\ \A d \in Callers : \A i \in 1..Len(call'[d]) :
                /\ i \in 1..Len(call[d]) /\ call'[d][i] = call[d][i]
                /\ d = c => i # Len(call[c]) /\ call[d][i].op \in Callbacks
                /\ d # c => (i = Len(call'[d]) <=> i = Len(call[d]))
           /\ \A d \in Callers : \A i \in 1..Len(call[d]) :
                (d = c /\ i = Len(call[c])) \/ (i \in 1..Len(call'[d]) /\ call'[d][i] = call[d][i])
           /\ \A d \in Callers : d # c => call'[d] = call[d]
           /\ ~In(c, {"read"})'
<1>1. call \in [Callers -> Seq(Frames)] /\ call[c] \in Seq(Frames)
    BY DEF ServerInv, ServerTypeOK
<1>2. PICK q : q = Front(call[c])
    OBVIOUS
<1>3. call' = [call EXCEPT ![c] = q]
    BY <1>2 DEF Pop
<1>4. /\ q \in Seq(Frames)
      /\ \A i \in 1..Len(q) : i \in 1..Len(call[c]) /\ i # Len(call[c]) /\ q[i] = call[c][i]
      /\ \A i \in 1..Len(call[c]) : i # Len(call[c]) => i \in 1..Len(q)
    BY <1>1, <1>2, PopFacts
<1>5. /\ call'[c] = q
      /\ \A d \in Callers : d # c => call'[d] = call[d]
    BY <1>1, <1>3
<1>6. \A i \in 1..Len(q) : q[i].op \in Callbacks
    BY <1>4 DEF ServerInv, FramesInv
<1>7. ~In(c, {"read"})'
    <2>1. SUFFICES ASSUME q # <<>> PROVE Last(q).op # "read"
        BY <1>5 DEF In, Top
    <2>2. Len(q) \in 1..Len(q) /\ Last(q) = q[Len(q)]
        BY <1>4, <2>1, PopFacts
    <2>3. QED
        BY <1>6, <2>2 DEF Callbacks, Transactions
<1>8. call' \in [Callers -> Seq(Frames)]
    BY <1>1, <1>3, <1>4
<1>9. \A d \in Callers : \A i \in 1..Len(call'[d]) :
        /\ i \in 1..Len(call[d]) /\ call'[d][i] = call[d][i]
        /\ d = c => i # Len(call[c]) /\ call[d][i].op \in Callbacks
        /\ d # c => (i = Len(call'[d]) <=> i = Len(call[d]))
    BY <1>4, <1>5, <1>6
<1>10. QED
    BY <1>4, <1>5, <1>7, <1>8, <1>9

\* What a return keeps, whatever the call did before it: nothing is made.
LEMMA PopKeeps ==
    ASSUME ServerInv, NEW c \in Callers, call[c] # <<>>, Pop(c), UNCHANGED <<made, servers>>
    PROVE  /\ FramesInv'
           /\ UNCHANGED endpoints => MapsInv'
           /\ \A s \in Servers : s # c =>
                /\ In(s, {"read"})' = In(s, {"read"})
                /\ Handler(s)' = Handler(s)
<1>1. FramesInv'
    BY PopFrames DEF ServerInv, FramesInv
<1>2. UNCHANGED endpoints => MapsInv'
    <2> SUFFICES ASSUME UNCHANGED endpoints PROVE MapsInv'
        OBVIOUS
    <2>1. \A d \in Callers : \A i \in 1..Len(call'[d]) :
            i \in 1..Len(call[d]) /\ call'[d][i] = call[d][i]
        BY PopFrames
    <2>2. QED
        BY <2>1 DEF ServerInv, MapsInv
<1>3. \A s \in Servers : s # c => call'[s] = call[s]
    BY PopFrames DEF Callers
<1>4. QED
    BY <1>1, <1>2, <1>3 DEF In, Top, Handler

\* A call that holds no mutex and made no transaction returns.
LEMMA PopPreserves ==
    ASSUME ServerInv, NEW c \in Callers, In(c, {"setting", "callback"}), Pop(c),
           UNCHANGED <<endpoints, made, servers, dbVars>>
    PROVE  ServerInv'
<1> USE DEF ServerInv, dbVars
<1>0. call[c] # <<>>
    BY DEF In
<1>1. Top(c) = call[c][Len(call[c])] /\ Top(c).op \in {"setting", "callback"}
    BY <1>0, TopFacts DEF In
<1>2. ServerTypeOK'
    BY <1>0, PopFrames DEF ServerTypeOK
<1>3. FramesInv' /\ MapsInv'
    BY <1>0, PopKeeps
<1>4. MutexInv'
    <2>1. \A d \in Callers : \A i \in 1..Len(call'[d]) :
            i \in 1..Len(call[d]) /\ call'[d][i] = call[d][i]
        BY <1>0, PopFrames
    <2>2. QED
        BY <2>1 DEF MutexInv
<1>5. CommittedInv'
    <2>1. \A d \in Callers : \A i \in 1..Len(call[d]) : call[d][i].op \in Transactions =>
            i \in 1..Len(call'[d]) /\ call'[d][i] = call[d][i]
        BY <1>0, <1>1, PopFrames DEF Transactions
    <2>2. QED
        BY <2>1 DEF CommittedInv
<1>6. ValuesInv' /\ ReadsCommitted'
    <2>1. c \in Servers => values[c] = <<>> /\ ~In(c, {"read"})'
        BY <1>0, <1>1, PopFrames DEF ValuesInv, In
    <2>2. QED
        BY <1>0, <2>1, PopKeeps DEF ValuesInv, ReadsCommitted
<1>7. QED
    BY <1>2, <1>3, <1>4, <1>5, <1>6

\* configure returns: its endpoint is in the map, and in no other.
LEMMA ConfiguredPreserves ==
    ASSUME ServerInv, NEW c \in Callers, Configured(c)
    PROVE  ServerInv'
<1> USE DEF ServerInv, dbVars
<1>0. call[c] # <<>> /\ Pop(c) /\ Top(c).op = "configure"
    BY DEF In, Configured
<1>1. PICK h, u : h = Top(c).on /\ u = Top(c).unit
    OBVIOUS
<1>2. /\ endpoints' = [endpoints EXCEPT ![u] = h]
      /\ committed' = [committed EXCEPT ![h] = db[h]]
      /\ UNCHANGED <<made, servers, db, lock, values>>
    BY <1>1 DEF Configured
<1>3. /\ Len(call[c]) \in 1..Len(call[c]) /\ Top(c) = call[c][Len(call[c])]
      /\ h \in made /\ u \in Units /\ h \in Handlers
    <2>1. GoodFrame(Top(c), c, servers, made)
        BY <1>0, TopFacts
    <2>2. QED
        BY <1>0, <1>1, <2>1, TopFacts DEF GoodFrame, ServerTypeOK
<1>4. ServerTypeOK'
    <2>1. endpoints' \in Maps
        BY <1>2, <1>3 DEF ServerTypeOK, Maps
    <2>2. committed' \in [Handlers -> Databases]
        BY <1>2, <1>3 DEF ServerTypeOK
    <2>3. QED
        BY <1>0, <1>2, <2>1, <2>2, PopFrames DEF ServerTypeOK
<1>5. FramesInv'
    BY <1>0, <1>2, PopKeeps
<1>6. MapsInv'
    <2>1. \A d \in Callers : \A i \in 1..Len(call[d]) : call[d][i].op = "configure" =>
            d = c /\ i = Len(call[c])
        BY <1>0, <1>3 DEF MapsInv
    <2>2. \A d \in Callers : \A i \in 1..Len(call'[d]) : call'[d][i].op # "configure"
        BY <1>0, <2>1, PopFrames
    <2>3. \A v \in Units : endpoints'[v] \in {endpoints[v], h}
        BY <1>2, <1>3 DEF ServerTypeOK, Maps
    <2>4. QED
        BY <1>2, <1>3, <2>2, <2>3 DEF MapsInv
<1>7. MutexInv'
    <2>1. \A d \in Callers : \A i \in 1..Len(call'[d]) :
            i \in 1..Len(call[d]) /\ call'[d][i] = call[d][i]
        BY <1>0, PopFrames
    <2>2. QED
        BY <1>2, <2>1 DEF MutexInv
<1>8. \A g \in Handlers : g # h => committed'[g] = committed[g]
    BY <1>2 DEF ServerTypeOK
<1>9. CommittedInv'
    <2> SUFFICES ASSUME NEW g \in Handlers, db[g] # committed'[g]
                 PROVE  \E d \in Callers : \E i \in 1..Len(call'[d]) :
                            call'[d][i].op \in Transactions /\ WorksOn(call'[d][i], servers) = g
        BY <1>2 DEF CommittedInv
    <2>1. g # h /\ db[g] # committed[g]
        BY <1>2, <1>3, <1>8 DEF ServerTypeOK
    <2>2. PICK d \in Callers : \E i \in 1..Len(call[d]) :
                call[d][i].op \in Transactions /\ WorksOn(call[d][i], servers) = g
        BY <2>1 DEF CommittedInv
    <2>2a. PICK i \in 1..Len(call[d]) :
                call[d][i].op \in Transactions /\ WorksOn(call[d][i], servers) = g
        BY <2>2
    <2>3. ~(d = c /\ i = Len(call[c]))
        BY <1>0, <1>1, <1>3, <2>1, <2>2a DEF WorksOn
    <2>4. QED
        BY <1>0, <2>2a, <2>3, PopFrames
<1>10. ValuesInv' /\ ReadsCommitted'
    <2>1. c \in Servers => values[c] = <<>> /\ ~In(c, {"read"})'
        BY <1>0, PopFrames DEF ValuesInv, In
    <2>2. \A s \in Servers : In(s, {"read"}) => Handler(s) # h /\ Handler(s) \in Handlers
        BY <1>0, <1>1, <1>3, ReaderAlone, ReadsWhatIsCommitted DEF WorksOn, Transactions
    <2>3. QED
        BY <1>0, <1>2, <1>8, <2>1, <2>2, PopKeeps DEF ValuesInv, ReadsCommitted
<1>11. QED
    BY <1>4, <1>5, <1>6, <1>7, <1>9, <1>10


\* A call that holds a mutex releases it and returns: the others keep theirs.
LEMMA UnlockFacts ==
    ASSUME ServerInv, NEW c \in Callers, In(c, Locked), Pop(c),
           lock' = [lock EXCEPT ![Handler(c)] = None],
           UNCHANGED <<made, servers, endpoints>>
    PROVE  /\ call[c] # <<>> /\ Handler(c) \in Handlers
           /\ Top(c) = call[c][Len(call[c])]
           /\ WorksOn(Top(c), servers) = Handler(c)
           /\ lock' \in [Handlers -> Callers \cup {None}]
           /\ MutexInv'
<1> USE DEF ServerInv
<1>0. call[c] # <<>> /\ Top(c).op \in Locked
    BY DEF In
<1>1. PICK h : h = Handler(c)
    OBVIOUS
<1>2. /\ Top(c) \in Frames /\ Top(c) = call[c][Len(call[c])]
      /\ GoodFrame(Top(c), c, servers, made) /\ WorksOn(Top(c), servers) = h
    BY <1>0, <1>1, TopFacts
<1>3. h \in Handlers
    BY <1>0, <1>2, WorkedOn DEF Working
<1>4. lock' \in [Handlers -> Callers \cup {None}]
    BY <1>1, <1>3 DEF ServerTypeOK
<1>5. MutexInv'
    <2>1. \A d \in Callers : \A i \in 1..Len(call'[d]) :
            /\ i \in 1..Len(call[d]) /\ call'[d][i] = call[d][i]
            /\ ~(d = c /\ i = Len(call[c]))
        BY <1>0, PopFrames
    <2>2. \A d \in Callers : \A i \in 1..Len(call'[d]) : call[d][i].op \in Locked =>
            lock'[WorksOn(call[d][i], servers)] = lock[WorksOn(call[d][i], servers)]
        <3> SUFFICES ASSUME NEW d \in Callers, NEW i \in 1..Len(call'[d]), call[d][i].op \in Locked
                     PROVE  lock'[WorksOn(call[d][i], servers)] = lock[WorksOn(call[d][i], servers)]
            OBVIOUS
        <3>1. i \in 1..Len(call[d]) /\ ~(d = c /\ i = Len(call[c]))
            BY <2>1
        <3>2. WorksOn(call[d][i], servers) # h
            BY <1>0, <1>1, <3>1, HolderAlone
        <3>3. WorksOn(call[d][i], servers) \in Handlers
            <4>1. call[d][i] \in Frames /\ GoodFrame(call[d][i], d, servers, made)
                BY <3>1 DEF ServerTypeOK, FramesInv
            <4>2. QED
                BY <4>1, WorkedOn DEF Working
        <3>4. QED
            BY <1>1, <3>2, <3>3 DEF ServerTypeOK
    <2>3. QED
        BY <2>1, <2>2 DEF MutexInv
<1>6. QED
    BY <1>0, <1>1, <1>2, <1>3, <1>4, <1>5

\* The transaction that held the database ends: its database is the committed one.
LEMMA ReleasePreserves ==
    ASSUME ServerInv, NEW c \in Callers, Release(c)
    PROVE  ServerInv'
<1> USE DEF ServerInv, dbVars
<1>0. /\ Pop(c) /\ Top(c).op \in {"update", "write"} /\ In(c, Locked)
      /\ lock' = [lock EXCEPT ![Handler(c)] = None]
      /\ UNCHANGED <<made, servers, endpoints, db, values>>
    BY DEF In, Release, Locked
<1>1. PICK h : h = Handler(c)
    OBVIOUS
<1>2. committed' = [committed EXCEPT ![h] = db[h]]
    BY <1>1 DEF Release
<1>3. /\ call[c] # <<>> /\ h \in Handlers
      /\ Top(c) = call[c][Len(call[c])] /\ WorksOn(Top(c), servers) = h
      /\ lock' \in [Handlers -> Callers \cup {None}]
      /\ MutexInv'
    BY <1>0, <1>1, UnlockFacts
<1>4. ServerTypeOK'
    <2>1. committed' \in [Handlers -> Databases]
        BY <1>2, <1>3 DEF ServerTypeOK
    <2>2. QED
        BY <1>0, <1>3, <2>1, PopFrames DEF ServerTypeOK
<1>5. FramesInv' /\ MapsInv'
    BY <1>0, <1>3, PopKeeps
<1>6. \A g \in Handlers : g # h => committed'[g] = committed[g]
    BY <1>2 DEF ServerTypeOK
<1>7. CommittedInv'
    <2> SUFFICES ASSUME NEW g \in Handlers, db[g] # committed'[g]
                 PROVE  \E d \in Callers : \E i \in 1..Len(call'[d]) :
                            call'[d][i].op \in Transactions /\ WorksOn(call'[d][i], servers) = g
        BY <1>0 DEF CommittedInv
    <2>1. g # h /\ db[g] # committed[g]
        BY <1>2, <1>3, <1>6 DEF ServerTypeOK
    <2>2. PICK d \in Callers : \E i \in 1..Len(call[d]) :
                call[d][i].op \in Transactions /\ WorksOn(call[d][i], servers) = g
        BY <2>1 DEF CommittedInv
    <2>3. PICK i \in 1..Len(call[d]) :
                call[d][i].op \in Transactions /\ WorksOn(call[d][i], servers) = g
        BY <2>2
    <2>4. ~(d = c /\ i = Len(call[c]))
        BY <1>3, <2>1, <2>3
    <2>5. QED
        BY <1>0, <1>3, <2>3, <2>4, PopFrames
<1>8. ValuesInv' /\ ReadsCommitted'
    <2>1. c \in Servers => values[c] = <<>> /\ ~In(c, {"read"})'
        BY <1>0, <1>3, PopFrames DEF ValuesInv, In
    <2>2. \A s \in Servers : In(s, {"read"}) => Handler(s) # h /\ Handler(s) \in Handlers
        <3> SUFFICES ASSUME NEW s \in Servers, In(s, {"read"})
                     PROVE  Handler(s) # h /\ Handler(s) \in Handlers
            OBVIOUS
        <3>1. Len(call[c]) \in 1..Len(call[c])
            BY <1>3, TopFacts
        <3>2. QED
            BY <1>0, <1>3, <3>1, ReaderAlone, ReadsWhatIsCommitted DEF Transactions
    <2>3. QED
        BY <1>0, <1>3, <1>6, <2>1, <2>2, PopKeeps DEF ValuesInv, ReadsCommitted
<1>9. QED
    BY <1>3, <1>4, <1>5, <1>7, <1>8

\* The reply is complete: the session drops the values and the mutex.
LEMMA ReadDonePreserves ==
    ASSUME ServerInv, NEW s \in Servers, ReadDone(s)
    PROVE  ServerInv'
<1> USE DEF ServerInv, dbVars
<1>0. /\ s \in Callers /\ Pop(s) /\ Top(s).op = "read" /\ In(s, Locked)
      /\ lock' = [lock EXCEPT ![Handler(s)] = None]
      /\ values' = [values EXCEPT ![s] = <<>>]
      /\ UNCHANGED <<made, servers, endpoints, db, committed>>
    BY DEF In, ReadDone, Locked, Callers
<1>1. /\ call[s] # <<>>
      /\ Top(s) = call[s][Len(call[s])]
      /\ lock' \in [Handlers -> Callers \cup {None}]
      /\ MutexInv'
    BY <1>0, UnlockFacts
<1>2. ServerTypeOK'
    <2>1. <<>> \in Seq(Values \cup {Absent})
        OBVIOUS
    <2>2. values' \in [Servers -> Seq(Values \cup {Absent})]
        BY <1>0, <2>1 DEF ServerTypeOK
    <2>3. call' \in [Callers -> Seq(Frames)]
        BY <1>0, <1>1, PopFrames
    <2>4. QED
        BY <1>0, <1>1, <2>2, <2>3 DEF ServerTypeOK
<1>3. FramesInv' /\ MapsInv'
    BY <1>0, <1>1, PopKeeps
<1>4. CommittedInv'
    <2>1. \A d \in Callers : \A i \in 1..Len(call[d]) : call[d][i].op \in Transactions =>
            i \in 1..Len(call'[d]) /\ call'[d][i] = call[d][i]
        BY <1>0, <1>1, PopFrames DEF Transactions
    <2>2. QED
        BY <1>0, <2>1 DEF CommittedInv
<1>5. ValuesInv' /\ ReadsCommitted'
    <2>1. values'[s] = <<>> /\ ~In(s, {"read"})'
        BY <1>0, <1>1, PopFrames DEF ServerTypeOK
    <2>2. \A t \in Servers : t # s => values'[t] = values[t]
        BY <1>0 DEF ServerTypeOK
    <2>3. QED
        BY <1>0, <1>1, <2>1, <2>2, PopKeeps DEF ValuesInv, ReadsCommitted
<1>6. QED
    BY <1>1, <1>2, <1>3, <1>4, <1>5

\* The operations of a transaction change the database it works on, and no other.
LEMMA DatabaseOpPreserves ==
    ASSUME ServerInv, NEW c \in Callers, NEW old, NEW new, new \subseteq Values \cup {Absent},
           DatabaseOp(c, old, new)
    PROVE  ServerInv'
<1> USE DEF ServerInv, dbVars
<1>1. PICK h : h = Handler(c)
    OBVIOUS
<1>2. PICK a \in 1..Points, v \in new : db' = [db EXCEPT ![h][a] = v]
    BY <1>1 DEF DatabaseOp
<1>3. /\ call[c] # <<>> /\ Top(c).op \in Transactions
      /\ UNCHANGED <<made, servers, endpoints, call, lock, values, committed>>
    BY DEF DatabaseOp, In
<1>4. /\ Len(call[c]) \in 1..Len(call[c])
      /\ Top(c) \in Frames /\ Top(c) = call[c][Len(call[c])]
      /\ GoodFrame(Top(c), c, servers, made) /\ WorksOn(Top(c), servers) = h
    BY <1>1, <1>3, TopFacts
<1>5. h \in Handlers
    BY <1>3, <1>4, WorkedOn DEF Transactions, Working, Locked
<1>6. /\ db' \in [Handlers -> Databases]
      /\ \A g \in Handlers : g # h => db'[g] = db[g]
    BY <1>2, <1>5 DEF ServerTypeOK, Databases
<1>7. ServerTypeOK'
    BY <1>3, <1>6 DEF ServerTypeOK
<1>8. FramesInv' /\ MapsInv'
    BY <1>3 DEF FramesInv, MapsInv
<1>9. MutexInv'
    BY <1>3 DEF MutexInv
<1>10. CommittedInv'
    <2> SUFFICES ASSUME NEW g \in Handlers, db'[g] # committed[g]
                 PROVE  \E d \in Callers : \E i \in 1..Len(call[d]) :
                            call[d][i].op \in Transactions /\ WorksOn(call[d][i], servers) = g
        BY <1>3 DEF CommittedInv
    <2>1. CASE g = h
        BY <1>3, <1>4, <2>1
    <2>2. CASE g # h
        BY <1>6, <2>2 DEF CommittedInv
    <2>3. QED
        BY <2>1, <2>2
<1>11. ValuesInv' /\ ReadsCommitted'
    BY <1>3 DEF ValuesInv, ReadsCommitted, In, Top, Handler
<1>12. QED
    BY <1>7, <1>8, <1>9, <1>10, <1>11

\* The value that is read is the committed one: no transaction can be under way
\* while the session has the mutex.
LEMMA ReadPointPreserves ==
    ASSUME ServerInv, NEW s \in Servers, ReadPoint(s)
    PROVE  ServerInv'
<1> USE DEF ServerInv, dbVars
<1>1. PICK n \in Nat : n = Len(values[s])
    BY DEF ServerTypeOK
<1>2. /\ In(s, {"read"}) /\ n < Points
      /\ UNCHANGED <<made, servers, endpoints, call, lock, db, committed>>
    BY <1>1 DEF ReadPoint
<1>3. PICK x : x = db[Handler(s)][n + 1]
    OBVIOUS
<1>4. values' = [values EXCEPT ![s] = Append(values[s], x)]
    BY <1>1, <1>3 DEF ReadPoint
<1>5. Handler(s) \in Handlers /\ db[Handler(s)] = committed[Handler(s)]
    BY <1>2, ReadsWhatIsCommitted
<1>6. x \in Values \cup {Absent}
    <2>1. n + 1 \in 1..Points
        BY <1>2, FfiServerAssumption
    <2>2. QED
        BY <1>3, <1>5, <2>1 DEF ServerTypeOK, Databases
<1>7. PICK vs : vs = Append(values[s], x)
    OBVIOUS
<1>8. /\ vs \in Seq(Values \cup {Absent}) /\ Len(vs) = n + 1
      /\ \A i \in 1..n : vs[i] = values[s][i]
      /\ vs[n + 1] = x
    <2>1. values[s] \in Seq(Values \cup {Absent})
        BY DEF ServerTypeOK
    <2>2. QED
        BY <1>1, <1>6, <1>7, <2>1, AppendProperties
<1>9. /\ values' \in [Servers -> Seq(Values \cup {Absent})]
      /\ values'[s] = vs
      /\ \A t \in Servers : t # s => values'[t] = values[t]
    BY <1>4, <1>7, <1>8 DEF ServerTypeOK
<1>10. ServerTypeOK'
    BY <1>2, <1>9 DEF ServerTypeOK
<1>11. FramesInv' /\ MapsInv'
    BY <1>2 DEF FramesInv, MapsInv
<1>12. MutexInv' /\ CommittedInv'
    BY <1>2 DEF MutexInv, CommittedInv
<1>13. \A i \in DOMAIN vs : vs[i] = committed[Handler(s)][i]
    <2>1. DOMAIN vs = 1..(n + 1) /\ DOMAIN values[s] = 1..n
        BY <1>1, <1>8 DEF ServerTypeOK
    <2>2. \A i \in 1..n : values[s][i] = committed[Handler(s)][i]
        BY <1>2, <2>1 DEF ReadsCommitted
    <2>3. \A i \in 1..(n + 1) : i \in 1..n \/ i = n + 1
        OBVIOUS
    <2>4. QED
        BY <1>3, <1>5, <1>8, <2>1, <2>2, <2>3
<1>14. ValuesInv' /\ ReadsCommitted'
    <2>1. \A t \in Servers : In(t, {"read"})' = In(t, {"read"}) /\ Handler(t)' = Handler(t)
        BY <1>2 DEF In, Top, Handler
    <2>2. QED
        BY <1>2, <1>9, <1>13, <2>1 DEF ValuesInv, ReadsCommitted
<1>15. QED
    BY <1>10, <1>11, <1>12, <1>14


\* The call that waits for a mutex, and the one that has it
Locks(from, to) ==
    \/ from = "locking" /\ to = "update"
    \/ from = "lock for read" /\ to = "read"
    \/ from = "lock for write" /\ to = "write"

\* handler.lock() returns: nobody held the mutex.
LEMMA AcquirePreserves ==
    ASSUME ServerInv, NEW c \in Callers, NEW from, NEW to, Acquire(c, from, to),
           Locks(from, to)
    PROVE  ServerInv'
<1> USE DEF ServerInv
<1>1. PICK h : h = Handler(c)
    OBVIOUS
<1>2. PICK g : g = Frame(to, Top(c).on, Top(c).unit)
    OBVIOUS
<1>3. PICK q : q = Append(Front(call[c]), g)
    OBVIOUS
<1>4. /\ call[c] # <<>> /\ Top(c).op = from
      /\ lock[h] = None /\ lock' = [lock EXCEPT ![h] = c]
      /\ call' = [call EXCEPT ![c] = q]
      /\ UNCHANGED <<endpoints, made, servers, db, values, committed>>
    BY <1>1, <1>2, <1>3 DEF Acquire, In
<1>5. /\ call[c] \in Seq(Frames)
      /\ Len(call[c]) \in 1..Len(call[c])
      /\ Top(c) \in Frames /\ Top(c) = call[c][Len(call[c])]
      /\ GoodFrame(Top(c), c, servers, made) /\ WorksOn(Top(c), servers) = h
    BY <1>1, <1>4, TopFacts
<1>6. from \in Working /\ to \in Locked /\ to # "configure" /\ from # "configure"
    BY DEF Locks, Working, Locked
<1>7. h \in made /\ h \in Handlers
    BY <1>4, <1>5, <1>6, WorkedOn
<1>8. /\ g \in Frames /\ g.op = to /\ g.on = Top(c).on /\ g.unit = Top(c).unit
      /\ WorksOn(g, servers) = h
      /\ GoodFrame(g, c, servers, made)
    <2>1. to \in Ops
        BY DEF Locks, Ops, Reading, Callbacks, Transactions
    <2>2. g \in Frames /\ g.op = to /\ g.on = Top(c).on /\ g.unit = Top(c).unit
        BY <1>2, <1>5, <2>1 DEF Frame, Frames
    <2>3. WorksOn(g, servers) = h
        BY <1>4, <1>5, <1>6, <2>2 DEF WorksOn
    <2>4. Top(c).on \in Servers /\ Top(c).unit \in Units /\ servers[Top(c).on].state # "none"
          /\ servers[Top(c).on].map[Top(c).unit] \in made
        BY <1>4, <1>5, <1>6 DEF GoodFrame
    <2>5. to \in Reading => c = Top(c).on
        BY <1>4, <1>5 DEF Locks, GoodFrame, Reading
    <2>6. to \notin {"configure", "callback", "setting"}
        BY DEF Locks
    <2>7. GoodFrame(g, c, servers, made)
        BY <2>2, <2>4, <2>5, <2>6 DEF GoodFrame
    <2>8. QED
        BY <2>2, <2>3, <2>7
<1>9. /\ q \in Seq(Frames) /\ q # <<>> /\ Len(q) = Len(call[c]) /\ Last(q) = g
      /\ q[Len(call[c])] = g
      /\ \A i \in 1..Len(call[c]) : i # Len(call[c]) => q[i] = call[c][i]
    BY <1>3, <1>4, <1>5, <1>8, SwapFacts
<1>10. /\ call'[c] = q
       /\ \A d \in Callers : d # c => call'[d] = call[d]
       /\ call' \in [Callers -> Seq(Frames)]
    BY <1>4, <1>9 DEF ServerTypeOK
<1>11. \A d \in Callers :
        /\ Len(call'[d]) = Len(call[d])
        /\ \A i \in 1..Len(call[d]) :
            \/ call'[d][i] = call[d][i] /\ ~(d = c /\ i = Len(call[c]))
            \/ d = c /\ i = Len(call[c]) /\ call'[d][i] = g
    BY <1>9, <1>10
<1>12. ServerTypeOK'
    <2>1. lock' \in [Handlers -> Callers \cup {None}]
        BY <1>4 DEF ServerTypeOK
    <2>2. QED
        BY <1>4, <1>10, <2>1 DEF ServerTypeOK
<1>13. FramesInv'
    BY <1>4, <1>8, <1>11 DEF FramesInv
<1>14. MapsInv'
    <2>1. \A d \in Callers : \A i \in 1..Len(call[d]) : call'[d][i].op = "configure" =>
            call'[d][i] = call[d][i]
        BY <1>6, <1>8, <1>11
    <2>2. QED
        BY <1>4, <1>11, <2>1 DEF MapsInv
<1>15. None \notin Callers
    BY FfiServerAssumption
<1>16. \A d \in Callers : \A i \in 1..Len(call[d]) :
        call[d][i].op \in Locked => WorksOn(call[d][i], servers) # h
    BY <1>4, <1>15 DEF MutexInv
<1>17. MutexInv'
    <2>1. \A d \in Callers : \A i \in 1..Len(call[d]) : call[d][i].op \in Locked =>
            lock'[WorksOn(call[d][i], servers)] = d
        <3> SUFFICES ASSUME NEW d \in Callers, NEW i \in 1..Len(call[d]), call[d][i].op \in Locked
                     PROVE  lock'[WorksOn(call[d][i], servers)] = d
            OBVIOUS
        <3>1. WorksOn(call[d][i], servers) \in Handlers
            <4>1. call[d][i] \in Frames /\ GoodFrame(call[d][i], d, servers, made)
                BY DEF ServerTypeOK, FramesInv
            <4>2. QED
                BY <4>1, WorkedOn DEF Working
        <3>2. QED
            BY <1>4, <1>16, <3>1 DEF ServerTypeOK, MutexInv
    <2>2. lock'[h] = c
        BY <1>4, <1>7 DEF ServerTypeOK
    <2> SUFFICES ASSUME NEW d \in Callers, NEW i \in 1..Len(call[d]), call'[d][i].op \in Locked
                 PROVE  /\ lock'[WorksOn(call'[d][i], servers)] = d
                        /\ \A j \in 1..Len(call[d]) :
                            /\ call'[d][j].op \in Locked
                            /\ WorksOn(call'[d][j], servers) = WorksOn(call'[d][i], servers)
                            => j = i
        BY <1>4, <1>11 DEF MutexInv
    <2>3. CASE d = c /\ i = Len(call[c]) /\ call'[d][i] = g
        <3>1. \A j \in 1..Len(call[c]) :
                /\ call'[c][j].op \in Locked
                /\ WorksOn(call'[c][j], servers) = h
                => j = Len(call[c])
            BY <1>11, <1>16
        <3>2. QED
            BY <1>8, <2>2, <2>3, <3>1
    <2>4. CASE call'[d][i] = call[d][i] /\ ~(d = c /\ i = Len(call[c]))
        <3>1. lock'[WorksOn(call'[d][i], servers)] = d /\ WorksOn(call'[d][i], servers) # h
            BY <1>16, <2>1, <2>4
        <3>2. \A j \in 1..Len(call[d]) :
                /\ call[d][j].op \in Locked
                /\ WorksOn(call[d][j], servers) = WorksOn(call[d][i], servers)
                => j = i
            BY <2>4 DEF MutexInv
        <3>3. QED
            BY <1>8, <1>11, <2>4, <3>1, <3>2
    <2>5. QED
        BY <1>11, <2>3, <2>4
<1>18. CommittedInv'
    <2>1. \A d \in Callers : \A i \in 1..Len(call[d]) : call[d][i].op \in Transactions =>
            i \in 1..Len(call'[d]) /\ call'[d][i] = call[d][i]
        BY <1>4, <1>5, <1>11 DEF Locks, Transactions
    <2>2. QED
        BY <1>4, <2>1 DEF CommittedInv
<1>19. ValuesInv' /\ ReadsCommitted'
    <2> SUFFICES ASSUME NEW s \in Servers
                 PROVE  /\ ~In(s, {"read"})' => values[s] = <<>>
                        /\ In(s, {"read"})' => \A i \in DOMAIN values[s] :
                              values[s][i] = committed[Handler(s)'][i]
        BY <1>4 DEF ValuesInv, ReadsCommitted
    <2>0. s \in Callers
        BY DEF Callers
    <2>1. CASE s # c
        BY <1>4, <1>10, <2>0, <2>1 DEF ValuesInv, ReadsCommitted, In, Top, Handler
    <2>2. CASE s = c
        <3>1. values[s] = <<>>
            BY <1>4, <2>2 DEF Locks, In, ValuesInv
        <3>2. QED
            BY <3>1
    <2>3. QED
        BY <2>1, <2>2
<1>20. QED
    BY <1>12, <1>13, <1>14, <1>17, <1>18, <1>19

-----------------------------------------------------------------------------
(* The calls of the API *)

\* The API is called by a thread outside of any call, or from a callback.
LEMMA CallsFacts ==
    ASSUME NEW c \in Callers, Calls(c)
    PROVE  call[c] = <<>> \/ In(c, Callbacks)
BY DEF Calls

\* A server takes the endpoints of the device map, all of which were made.
LEMMA CreateServerPreserves ==
    ASSUME ServerInv, NEW c \in Callers, NEW s \in Servers, NEW kind,
           NEW given \in Filters, NEW filter \in Filters,
           CreateServer(c, s, kind, given, filter)
    PROVE  ServerInv'
<1>1. /\ endpoints' = NoEndpoints /\ MapUnused /\ servers[s].state = "none"
      /\ kind \in Kinds
      /\ UNCHANGED <<made, call, dbVars>>
    BY DEF CreateServer, dbVars
<1>2. CASE UNCHANGED servers
    BY <1>1, <1>2, QuietPreserves
<1>3. CASE servers' = [servers EXCEPT ![s] =
                 [state |-> "up", kind |-> kind, map |-> endpoints, given |-> given,
                  filter |-> filter]]
    <2>1. PICK rec : rec = [state |-> "up", kind |-> kind, map |-> endpoints, given |-> given,
                            filter |-> filter]
        OBVIOUS
    <2>2. rec \in ServerRecords /\ rec.state # "none" /\ rec.map = endpoints
        <3>1. endpoints \in Maps
            BY DEF ServerInv, ServerTypeOK
        <3>2. QED
            BY <1>1, <2>1, <3>1 DEF ServerRecords
    <2>3. QED
        BY <1>1, <1>3, <2>1, <2>2, ServersPreserve
<1>4. QED
    BY <1>2, <1>3 DEF CreateServer

\* A server is destroyed when no update or setting of it is under way.
LEMMA DestroyServerPreserves ==
    ASSUME ServerInv, NEW c \in Callers, NEW s \in Servers, server_destroy(c, s)
    PROVE  ServerInv'
<1>1. PICK rec : rec = [servers[s] EXCEPT !.state = "destroyed"]
    OBVIOUS
<1>2. /\ servers' = [servers EXCEPT ![s] = rec]
      /\ UNCHANGED <<made, call, endpoints, dbVars>>
    BY <1>1 DEF server_destroy, dbVars
<1>3. servers[s] \in ServerRecords
    BY DEF ServerInv, ServerTypeOK
<1>4. rec \in ServerRecords /\ rec.state # "none" /\ rec.map = servers[s].map
    BY <1>1, <1>3 DEF ServerRecords
<1>5. QED
    BY <1>2, <1>4, ServersPreserve

\* The frames that the API and the sessions push
LEMMA NewFrames ==
    ASSUME NEW op \in Ops, NEW on \in Servers \cup Handlers \cup Requests,
           NEW u \in Units \cup {None}
    PROVE  /\ Frame(op, on, u) \in Frames
           /\ Frame(op, on, u).op = op /\ Frame(op, on, u).on = on /\ Frame(op, on, u).unit = u
BY DEF Frame, Frames

\* An endpoint is configured before it is in a map, so that nobody reads it.
LEMMA AddEndpointPreserves ==
    ASSUME ServerInv, NEW c \in Callers, NEW u \in Units, device_map_add_endpoint(c, u)
    PROVE  ServerInv'
<1>1. PICK h \in Handlers \ made : made' = made \cup {h} /\ Push(c, Frame("configure", h, u))
    BY DEF device_map_add_endpoint
<1>2. Calls(c) /\ MapUnused /\ UNCHANGED <<endpoints, servers, dbVars>>
    BY DEF device_map_add_endpoint, dbVars
<1>3. PICK f : f = Frame("configure", h, u)
    OBVIOUS
<1>4. f \in Frames /\ f.op = "configure" /\ f.on = h /\ f.unit = u
    BY <1>3, NewFrames DEF Ops, Callbacks, Transactions
<1>5. GoodFrame(f, c, servers, made')
    BY <1>1, <1>4 DEF GoodFrame, Working, Locked, Reading
<1>6. made' \subseteq Handlers /\ made \subseteq made' /\ h # None
    BY <1>1, FfiServerAssumption DEF ServerInv, ServerTypeOK
<1>7. f.op \notin Locked
    BY <1>4 DEF Locked
<1>8. QED
    BY <1>1, <1>2, <1>3, <1>4, <1>5, <1>6, <1>7, CallsFacts, PushPreserves

\* A call of the application, or of a session, on a unit of a server's map
LEMMA WaitPreserves ==
    ASSUME ServerInv, NEW c \in Callers, NEW s \in Servers, NEW u \in Units,
           NEW op \in {"locking", "lock for read", "lock for write"},
           op # "locking" => c = s,
           call[c] = <<>> \/ In(c, Callbacks),
           servers[s].state = "up", servers[s].map[u] # None,
           Push(c, Frame(op, s, u)), UNCHANGED <<endpoints, made, servers, dbVars>>
    PROVE  ServerInv'
<1>1. PICK f : f = Frame(op, s, u)
    OBVIOUS
<1>2. f \in Frames /\ f.op = op /\ f.on = s /\ f.unit = u
    <2>1. op \in Ops /\ s \in Servers \cup Handlers \cup Requests /\ u \in Units \cup {None}
        BY DEF Ops, Reading
    <2>2. QED
        BY <1>1, <2>1 DEF Frame, Frames
<1>3. GoodFrame(f, c, servers, made')
    <2>1. servers[s].map[u] \in made
        BY DEF ServerInv, MapsInv
    <2>2. QED
        BY <1>2, <2>1 DEF GoodFrame, Reading
<1>4. made' \subseteq Handlers /\ made \subseteq made'
    BY DEF ServerInv, ServerTypeOK
<1>5. f.op \notin Locked /\ f.op # "configure"
    BY <1>2 DEF Locked
<1>6. QED
    BY <1>1, <1>2, <1>3, <1>4, <1>5, PushPreserves

\* A callback of the client, or a setting that is sent
LEMMA PlainPushPreserves ==
    ASSUME ServerInv, NEW c \in Callers, NEW op \in {"callback", "setting"}, NEW on,
           op = "callback" => on \in Requests, op = "setting" => on \in Servers,
           call[c] = <<>> \/ In(c, Callbacks),
           Push(c, Frame(op, on, None)), UNCHANGED <<endpoints, made, servers, dbVars>>
    PROVE  ServerInv'
<1>1. PICK f : f = Frame(op, on, None)
    OBVIOUS
<1>2. f \in Frames /\ f.op = op /\ f.on = on
    BY <1>1, NewFrames DEF Ops, Callbacks
<1>3. GoodFrame(f, c, servers, made')
    BY <1>2 DEF GoodFrame, Working, Locked, Reading
<1>4. made' \subseteq Handlers /\ made \subseteq made'
    BY DEF ServerInv, ServerTypeOK
<1>5. f.op \notin Locked /\ f.op # "configure"
    BY <1>2 DEF Locked
<1>6. QED
    BY <1>1, <1>2, <1>3, <1>4, <1>5, PushPreserves


\* Each function of the bindings' server half preserves the invariant.
LEMMA ApiStepPreserves ==
    ASSUME ServerInv, NEW c \in Callers, ApiStep(c)
    PROVE  ServerInv'
<1>1. ASSUME NEW u \in Units, device_map_add_endpoint(c, u) PROVE ServerInv'
    BY <1>1, AddEndpointPreserves
<1>2. CASE device_map_destroy(c) \/ runtime_destroy(c)
    BY <1>2, QuietPreserves DEF device_map_destroy, runtime_destroy, dbVars
<1>3. AnyAddress \in Filters
    BY DEF Filters
<1>4. ASSUME NEW s \in Servers, server_create_tcp(c, s) PROVE ServerInv'
    BY <1>4, CreateServerPreserves DEF server_create_tcp
<1>5. ASSUME NEW s \in Servers, server_create_rtu(c, s) PROVE ServerInv'
    BY <1>3, <1>5, CreateServerPreserves DEF server_create_rtu
<1>6. ASSUME NEW s \in Servers, server_create_tls_impl(c, s) PROVE ServerInv'
    BY <1>3, <1>6, CreateServerPreserves DEF server_create_tls_impl
<1>7. ASSUME NEW s \in Servers, server_destroy(c, s) PROVE ServerInv'
    BY <1>7, DestroyServerPreserves
<1>8. ASSUME NEW s \in Servers, server_set_decode_level(c, s) PROVE ServerInv'
    <2>1. /\ Calls(c) /\ Push(c, Frame("setting", s, None))
          /\ UNCHANGED <<endpoints, made, servers, dbVars>>
        BY <1>8 DEF server_set_decode_level, dbVars
    <2>2. QED
        BY <2>1, CallsFacts, PlainPushPreserves
<1>9. ASSUME NEW s \in Servers, NEW u \in Units, server_update_database(c, s, u) PROVE ServerInv'
    <2>1. /\ Calls(c) /\ Push(c, Frame("locking", s, u))
          /\ servers[s].state = "up" /\ servers[s].map[u] # None
          /\ UNCHANGED <<endpoints, made, servers, dbVars>>
        BY <1>9 DEF server_update_database, dbVars
    <2>2. QED
        BY <2>1, CallsFacts, WaitPreserves
<1>10. QED
    BY <1>1, <1>2, <1>4, <1>5, <1>6, <1>7, <1>8, <1>9 DEF ApiStep

\* Each step of the server half, of sessions and callbacks preserves it.
LEMMA ServerNextPreserves ==
    ASSUME ServerInv, ServerNext
    PROVE  ServerInv'
<1>1. ASSUME NEW c \in Callers, ApiStep(c) PROVE ServerInv'
    BY <1>1, ApiStepPreserves
<1>2. ASSUME NEW c \in Callers, InnerStep(c) PROVE ServerInv'
    <2>1. CASE Configured(c)
        BY <2>1, ConfiguredPreserves
    <2>2. CASE Release(c)
        BY <2>2, ReleasePreserves
    <2>3. CASE SettingSent(c)
        <3>1. In(c, {"setting", "callback"}) /\ Pop(c) /\ UNCHANGED <<endpoints, made, servers, dbVars>>
            BY <2>3 DEF SettingSent, In, dbVars
        <3>2. QED
            BY <3>1, PopPreserves
    <2>4. CASE Acquire(c, "locking", "update")
        <3>1. Locks("locking", "update")
            BY DEF Locks
        <3>2. QED
            BY <2>4, <3>1, AcquirePreserves
    <2>5. QED
        BY <1>2, <2>1, <2>2, <2>3, <2>4 DEF InnerStep
<1>3. ASSUME NEW c \in Callers, database_add(c) \/ database_update(c) \/ database_delete(c)
      PROVE  ServerInv'
    <2>1. /\ Values \subseteq Values \cup {Absent}
          /\ {Absent} \subseteq Values \cup {Absent}
        OBVIOUS
    <2>2. QED
        BY <1>3, <2>1, DatabaseOpPreserves DEF database_add, database_update, database_delete
<1>4. ASSUME NEW s \in Servers,
             \/ Connect(s) \/ Disconnect(s) \/ PeerReady(s)
             \/ ApplySetting(s) \/ RejectFrame(s)
      PROVE  ServerInv'
    BY <1>4, QuietPreserves DEF Connect, Disconnect, PeerReady, ApplySetting, RejectFrame, dbVars
<1>5. ASSUME NEW s \in Servers, ReceiveRequest(s) PROVE ServerInv'
    <2>1. PICK u \in Units, kind \in {"read", "write"} :
            /\ servers[s].map[u] # None
            /\ Push(s, Frame(IF kind = "read" THEN "lock for read" ELSE "lock for write", s, u))
        BY <1>5 DEF ReceiveRequest
    <2>2. PICK op \in {"lock for read", "lock for write"} :
            op = IF kind = "read" THEN "lock for read" ELSE "lock for write"
        OBVIOUS
    <2>3. /\ call[s] = <<>> /\ servers[s].state = "up"
          /\ UNCHANGED <<endpoints, made, servers, dbVars>>
        BY <1>5 DEF ReceiveRequest, Polls, Runs, dbVars
    <2>4. s \in Callers /\ op \in {"locking", "lock for read", "lock for write"}
        BY <2>2 DEF Callers
    <2>5. Push(s, Frame(op, s, u))
        BY <2>1, <2>2
    <2>6. QED
        BY <2>1, <2>3, <2>4, <2>5, WaitPreserves
<1>6. ASSUME NEW s \in Servers, SessionStep(s) PROVE ServerInv'
    <2>1. s \in Callers /\ Locks("lock for read", "read") /\ Locks("lock for write", "write")
        BY DEF Callers, Locks
    <2>2. CASE Acquire(s, "lock for read", "read") \/ Acquire(s, "lock for write", "write")
        BY <2>1, <2>2, AcquirePreserves
    <2>3. CASE ReadPoint(s) \/ ReadDone(s)
        BY <2>3, ReadPointPreserves, ReadDonePreserves
    <2>4. QED
        BY <1>6, <2>2, <2>3 DEF SessionStep
<1>7. QED
    BY <1>1, <1>2, <1>3, <1>4, <1>5, <1>6 DEF ServerNext

-----------------------------------------------------------------------------
(* The client half *)

\* The client half touches the stacks of its callers only.
LEMMA ClientNextPreservesServer ==
    ASSUME ServerInv, ClientInv, ClientNext
    PROVE  ServerInv'
<1> USE DEF rest, quiet, dbVars
<1>1. ASSUME NEW c \in Callers, NEW r \in Requests, InvalidRequest(c, r) \/ AcceptRequest(c, r)
      PROVE  ServerInv'
    BY <1>1, QuietPreserves DEF InvalidRequest, AcceptRequest
<1>2. ASSUME NEW c \in Callers, NEW r \in Requests, RefuseRequest(c, r) PROVE ServerInv'
    <2>1. /\ Calls(c) /\ Push(c, Frame("callback", r, None))
          /\ UNCHANGED <<endpoints, made, servers, dbVars>>
        BY <1>2 DEF RefuseRequest
    <2>2. QED
        BY <2>1, CallsFacts, PlainPushPreserves
<1>3. ASSUME NEW c \in Callers, CallbackReturns(c) PROVE ServerInv'
    <2>1. In(c, {"setting", "callback"}) /\ Pop(c) /\ UNCHANGED <<endpoints, made, servers, dbVars>>
        BY <1>3 DEF CallbackReturns, In
    <2>2. QED
        BY <2>1, PopPreserves
<1>4. ASSUME NEW c \in Callers, ChannelSetting(c) \/ client_channel_destroy(c) PROVE ServerInv'
    BY <1>4, QuietPreserves DEF ChannelSetting, client_channel_destroy
<1>5. CASE Complete
    <2>1. UNCHANGED <<endpoints, made, servers, dbVars>> /\ call[Task] = <<>> /\ queue # <<>>
        BY <1>5 DEF Complete
    <2>2. CASE UNCHANGED call
        BY <2>1, <2>2, QuietPreserves
    <2>3. CASE Head(queue) # Setting /\ Push(Task, Frame("callback", Head(queue), None))
        <3>1. Head(queue) \in Requests
            <4>1. queue \in Seq(Commands)
                BY DEF ClientInv, ClientTypeOK
            <4>2. QED
                BY <2>1, <2>3, <4>1 DEF Commands
        <3>2. Task \in Callers
            BY DEF Callers
        <3>3. QED
            BY <2>1, <2>3, <3>1, <3>2, PlainPushPreserves
    <2>4. QED
        BY <1>5, <2>2, <2>3 DEF Complete
<1>6. CASE TaskAwaits \/ TaskGoesOn
    BY <1>6, QuietPreserves DEF TaskAwaits, TaskGoesOn
<1>7. QED
    BY <1>1, <1>2, <1>3, <1>4, <1>5, <1>6 DEF ClientNext

\* What does not touch the queue and the calls keeps the client's invariant.
LEMMA ClientStutters ==
    ASSUME ClientInv, UNCHANGED <<queue, returned, called>>
    PROVE  ClientInv'
BY DEF ClientInv, ClientTypeOK, QueueInv, CalledBackOnce

\* A request that is refused, with its callback called or not
Refused(r) ==
    /\ returned[r] = "no call" /\ UNCHANGED queue
    /\ \/ returned' = [returned EXCEPT ![r] = "Invalid"] /\ UNCHANGED called
       \/ /\ returned' = [returned EXCEPT ![r] = "in call"]
          /\ called' = [called EXCEPT ![r] = @ + 1]

\* A request that is refused after its callback was wrapped is called back once.
LEMMA RefusedPreserves ==
    ASSUME ClientInv, NEW r \in Requests, Refused(r)
    PROVE  ClientInv'
<1> USE DEF ClientInv
<1>1. /\ returned \in [Requests -> Results] /\ called \in [Requests -> Nat]
    BY DEF ClientTypeOK
<1>2. ~Contains(queue, r)
    BY DEF Refused, QueueInv, Contains
<1>3. called[r] = 0 /\ UNCHANGED queue
    BY DEF Refused, CalledBackOnce
<1>4. \A t \in Requests : t # r => returned'[t] = returned[t] /\ called'[t] = called[t]
    BY <1>1 DEF Refused
<1>5. /\ \/ returned'[r] = "Invalid" /\ called'[r] = 0
         \/ returned'[r] = "in call" /\ called'[r] = 1
      /\ returned' \in [Requests -> Results] /\ called' \in [Requests -> Nat]
    <2>1. "Invalid" \in Results /\ "in call" \in Results
        BY DEF Results
    <2>2. CASE returned' = [returned EXCEPT ![r] = "Invalid"] /\ UNCHANGED called
        BY <1>1, <1>3, <2>1, <2>2
    <2>3. CASE /\ returned' = [returned EXCEPT ![r] = "in call"]
               /\ called' = [called EXCEPT ![r] = @ + 1]
        <3>1. returned'[r] = "in call" /\ returned' \in [Requests -> Results]
            BY <1>1, <2>1, <2>3
        <3>2. called' = [called EXCEPT ![r] = 1]
            <4>1. called[r] + 1 = 1
                BY <1>3
            <4>2. called' = [called EXCEPT ![r] = called[r] + 1]
                BY <2>3
            <4>3. QED
                BY <4>1, <4>2
        <3>2a. called'[r] = 1 /\ called' \in [Requests -> Nat]
            BY <1>1, <3>2
        <3>3. QED
            BY <3>1, <3>2a
    <2>4. QED
        BY <2>2, <2>3 DEF Refused
<1>6. ClientTypeOK'
    BY <1>3, <1>5 DEF ClientTypeOK
<1>7. QueueInv'
    <2>1. \A i \in 1..Len(queue) : queue[i] # r
        BY <1>2 DEF Contains
    <2>2. \A i \in 1..Len(queue) : queue[i] \in Requests => returned'[queue[i]] = "Ok"
        BY <1>4, <2>1 DEF QueueInv
    <2>3. QED
        BY <1>3, <2>2 DEF QueueInv
<1>8. CalledBackOnce'
    BY <1>2, <1>3, <1>4, <1>5 DEF CalledBackOnce
<1>9. QED
    BY <1>6, <1>7, <1>8

\* A command enters the queue.
Enqueued(x) ==
    /\ queue' = Append(queue, x) /\ UNCHANGED called
    /\ \/ x = Setting /\ UNCHANGED returned
       \/ /\ x \in Requests /\ returned[x] = "no call"
          /\ returned' = [returned EXCEPT ![x] = "Ok"]

\* A command enters the queue once, at its end.
LEMMA EnqueuedPreserves ==
    ASSUME ClientInv, NEW x \in Commands, Enqueued(x)
    PROVE  ClientInv'
<1> USE DEF ClientInv
<1>1. /\ queue \in Seq(Commands)
      /\ returned \in [Requests -> Results] /\ called \in [Requests -> Nat]
    BY DEF ClientTypeOK
<1>2. /\ queue' \in Seq(Commands)
      /\ \A i \in 1..Len(queue') :
            \/ i \in 1..Len(queue) /\ queue'[i] = queue[i]
            \/ i = Len(queue') /\ queue'[i] = x
      /\ \A i \in 1..Len(queue) : i \in 1..Len(queue') /\ queue'[i] = queue[i]
      /\ Len(queue') \in 1..Len(queue') /\ queue'[Len(queue')] = x
    <2>1. PICK q : q = Append(queue, x)
        OBVIOUS
    <2>2. q \in Seq(Commands) /\ q # <<>> /\ Last(q) = x
        BY <1>1, <2>1, PushFacts
    <2>3. Len(q) \in 1..Len(q) /\ q[Len(q)] = x
        BY <2>2, PopFacts
    <2>4. /\ \A i \in 1..Len(q) :
            \/ i \in 1..Len(queue) /\ q[i] = queue[i]
            \/ i = Len(q) /\ q[i] = x
          /\ \A i \in 1..Len(queue) : i \in 1..Len(q) /\ q[i] = queue[i]
        BY <1>1, <2>1, PushFacts
    <2>5. QED
        BY <2>1, <2>2, <2>3, <2>4 DEF Enqueued
<1>3. \A t \in Requests : t # x => returned'[t] = returned[t]
    BY <1>1 DEF Enqueued
<1>4. /\ x \in Requests => returned'[x] = "Ok" /\ called[x] = 0
      /\ returned' \in [Requests -> Results]
    BY <1>1, FfiAssumption DEF Enqueued, CalledBackOnce, Results
<1>5. x \in Requests => \A i \in 1..Len(queue) : queue[i] # x
    BY FfiAssumption DEF Enqueued, QueueInv
<1>6. ClientTypeOK'
    BY <1>1, <1>2, <1>4 DEF ClientTypeOK, Enqueued
<1>7. QueueInv'
    <2>0. /\ \A i \in 1..Len(queue) : queue[i] \in Requests => returned[queue[i]] = "Ok"
          /\ \A i, j \in 1..Len(queue) : queue[i] \in Requests /\ queue[i] = queue[j] => i = j
        BY DEF QueueInv
    <2>1. \A i \in 1..Len(queue') : queue'[i] \in Requests => returned'[queue'[i]] = "Ok"
        <3> SUFFICES ASSUME NEW i \in 1..Len(queue'), queue'[i] \in Requests
                     PROVE  returned'[queue'[i]] = "Ok"
            OBVIOUS
        <3>1. CASE queue'[i] = x
            BY <1>4, <3>1
        <3>2. CASE queue'[i] # x
            BY <1>2, <1>3, <2>0, <3>2
        <3>3. QED
            BY <3>1, <3>2
    <2>2. \A i, j \in 1..Len(queue') : queue'[i] \in Requests /\ queue'[i] = queue'[j] => i = j
        <3> SUFFICES ASSUME NEW i \in 1..Len(queue'), NEW j \in 1..Len(queue'),
                            queue'[i] \in Requests, queue'[i] = queue'[j]
                     PROVE  i = j
            OBVIOUS
        <3>1. CASE queue'[i] = x
            BY <1>2, <1>5, <3>1
        <3>2. CASE queue'[i] # x
            BY <1>2, <2>0, <3>2
        <3>3. QED
            BY <3>1, <3>2
    <2>3. QED
        BY <2>1, <2>2 DEF QueueInv
<1>8. CalledBackOnce'
    <2> SUFFICES ASSUME NEW r \in Requests
                 PROVE  called[r] = IF returned'[r] \in {"no call", "Invalid"} \/ Contains(queue', r)
                                    THEN 0 ELSE 1
        BY DEF CalledBackOnce, Enqueued
    <2>1. CASE r = x
        BY <1>2, <1>4, <2>1 DEF Contains
    <2>2. CASE r # x
        <3>1. Contains(queue', r) <=> Contains(queue, r)
            BY <1>2, <2>2 DEF Contains
        <3>2. QED
            BY <1>3, <2>2, <3>1 DEF CalledBackOnce
    <2>3. QED
        BY <2>1, <2>2
<1>9. QED
    BY <1>6, <1>7, <1>8


\* The task takes a command: its callback is called, unless it is a setting.
LEMMA CompletePreserves ==
    ASSUME ClientInv, Complete
    PROVE  ClientInv'
<1> USE DEF ClientInv
<1>1. /\ queue \in Seq(Commands)
      /\ returned \in [Requests -> Results] /\ called \in [Requests -> Nat]
      /\ queue # <<>> /\ queue' = Tail(queue) /\ UNCHANGED returned
    BY DEF ClientTypeOK, Complete
<1>2. PICK n \in Nat : n = Len(queue) /\ n # 0
    BY <1>1, EmptySeq
<1>3. PICK x, q : x = Head(queue) /\ q = Tail(queue)
    OBVIOUS
<1>4. PICK m \in Nat : m + 1 = n
    BY <1>2
<1>5. /\ x = queue[1] /\ x \in Commands /\ 1 \in 1..n
      /\ q \in Seq(Commands) /\ Len(q) = m
      /\ \A i \in 1..m : q[i] = queue[i + 1]
    <2>1. /\ q \in Seq(Commands) /\ Len(q) = n - 1
          /\ \A i \in 1..Len(q) : q[i] = queue[i + 1]
        BY <1>1, <1>2, <1>3, HeadTailProperties
    <2>2. Len(q) = m
        BY <1>4, <2>1
    <2>3. x = queue[1] /\ x \in Commands
        BY <1>1, <1>3, HeadTailProperties
    <2>4. 1 \in 1..n
        BY <1>2
    <2>5. QED
        BY <2>1, <2>2, <2>3, <2>4
<1>6. /\ \A i \in 1..m : i + 1 \in 1..n /\ i + 1 # 1
      /\ \A i \in 1..n : i = 1 \/ \E k \in 1..m : i = k + 1
    <2>1. \A i \in 1..m : i + 1 \in 1..n /\ i + 1 # 1
        BY <1>4
    <2>2. \A i \in 1..n : i # 1 => i - 1 \in 1..m /\ i = (i - 1) + 1
        BY <1>4
    <2>3. QED
        BY <2>1, <2>2
<1>7. /\ \A i \in 1..n : queue[i] \in Requests => returned[queue[i]] = "Ok"
      /\ \A i, j \in 1..n : queue[i] \in Requests /\ queue[i] = queue[j] => i = j
    BY <1>2 DEF QueueInv
<1>8. QueueInv'
    <2>1. \A i \in 1..m : q[i] \in Requests => returned[q[i]] = "Ok"
        <3> SUFFICES ASSUME NEW i \in 1..m, q[i] \in Requests PROVE returned[q[i]] = "Ok"
            OBVIOUS
        <3>1. PICK k \in 1..n : k = i + 1
            BY <1>6
        <3>2. queue[k] = q[i]
            BY <1>5, <3>1
        <3>3. QED
            BY <1>7, <3>2
    <2>2. \A i, j \in 1..m : q[i] \in Requests /\ q[i] = q[j] => i = j
        <3> SUFFICES ASSUME NEW i \in 1..m, NEW j \in 1..m, q[i] \in Requests, q[i] = q[j]
                     PROVE  i = j
            OBVIOUS
        <3>1. PICK k \in 1..n : k = i + 1
            BY <1>6
        <3>2. PICK l \in 1..n : l = j + 1
            BY <1>6
        <3>3. queue[k] = q[i] /\ queue[l] = q[j]
            BY <1>5, <3>1, <3>2
        <3>4. k = l
            BY <1>7, <3>3
        <3>5. QED
            BY <3>1, <3>2, <3>4
    <2>3. QED
        BY <1>1, <1>3, <1>5, <2>1, <2>2 DEF QueueInv
<1>9. \A r \in Requests : Contains(queue, r) <=> (r = x \/ Contains(q, r))
    <2> SUFFICES ASSUME NEW r \in Requests
                 PROVE  (\E i \in 1..n : queue[i] = r) <=> (r = x \/ \E i \in 1..m : q[i] = r)
        BY <1>2, <1>5 DEF Contains
    <2>1. ASSUME NEW i \in 1..n, queue[i] = r PROVE r = x \/ \E k \in 1..m : q[k] = r
        <3>1. CASE i = 1
            BY <1>5, <2>1, <3>1
        <3>2. CASE i # 1
            <4>1. PICK k \in 1..m : i = k + 1
                BY <1>6, <3>2
            <4>2. QED
                BY <1>5, <2>1, <4>1
        <3>3. QED
            BY <3>1, <3>2
    <2>2. ASSUME NEW i \in 1..m, q[i] = r PROVE \E k \in 1..n : queue[k] = r
        <3>1. PICK k \in 1..n : k = i + 1
            BY <1>6
        <3>2. queue[k] = r
            BY <1>5, <2>2, <3>1
        <3>3. QED
            BY <3>2
    <2>3. r = x => \E k \in 1..n : queue[k] = r
        BY <1>5
    <2>4. QED
        BY <2>1, <2>2, <2>3
<1>10. x \in Requests => ~Contains(q, x)
    <2> SUFFICES ASSUME x \in Requests, NEW i \in 1..m, q[i] = x PROVE FALSE
        BY <1>5 DEF Contains
    <2>1. i + 1 = 1
        BY <1>5, <1>6, <1>7
    <2>2. QED
        BY <1>6, <2>1
<1>11. /\ called' \in [Requests -> Nat]
       /\ \A r \in Requests : called'[r] = IF r = x THEN called[r] + 1 ELSE called[r]
    <2>1. CASE x = Setting
        BY <1>1, <1>3, <2>1, FfiAssumption DEF Complete
    <2>2. CASE x # Setting
        <3>1. called' = [called EXCEPT ![x] = @ + 1]
            BY <1>3, <2>2 DEF Complete
        <3>2. x \in Requests /\ called[x] + 1 \in Nat
            BY <1>1, <1>5, <2>2 DEF Commands
        <3>3. PICK k \in Nat : k = called[x] + 1
            BY <3>2
        <3>4. called' = [called EXCEPT ![x] = k]
            BY <3>1, <3>3
        <3>5. QED
            BY <1>1, <3>2, <3>3, <3>4
    <2>3. QED
        BY <2>1, <2>2
<1>12. ClientTypeOK'
    BY <1>1, <1>3, <1>5, <1>11 DEF ClientTypeOK
<1>13. CalledBackOnce'
    <2> SUFFICES ASSUME NEW r \in Requests
                 PROVE  called'[r] = IF returned[r] \in {"no call", "Invalid"} \/ Contains(q, r)
                                     THEN 0 ELSE 1
        BY <1>1, <1>3 DEF CalledBackOnce
    <2>1. called[r] = IF returned[r] \in {"no call", "Invalid"} \/ Contains(queue, r) THEN 0 ELSE 1
        BY DEF CalledBackOnce
    <2>2. CASE r = x
        <3>1. returned[r] = "Ok"
            BY <1>5, <1>7, <2>2
        <3>2. called[r] = 0 /\ ~Contains(q, r)
            BY <1>9, <1>10, <2>1, <2>2
        <3>3. called'[r] = 1
            BY <1>11, <2>2, <3>2
        <3>4. QED
            BY <3>1, <3>2, <3>3
    <2>3. CASE r # x
        BY <1>9, <1>11, <2>1, <2>3
    <2>4. QED
        BY <2>2, <2>3
<1>14. QED
    BY <1>8, <1>12, <1>13

\* A callback that returns ends the call of a refused request; none is called again.
LEMMA CallbackReturnsPreserves ==
    ASSUME ClientInv, NEW c \in Callers, CallbackReturns(c)
    PROVE  ClientInv'
<1> USE DEF ClientInv
<1>1. PICK r : r = Top(c).on
    OBVIOUS
<1>2. /\ UNCHANGED <<queue, called>>
      /\ returned' = IF returned[r] = "in call" THEN [returned EXCEPT ![r] = "Refused"] ELSE returned
    BY <1>1 DEF CallbackReturns
<1>3. returned \in [Requests -> Results]
    BY DEF ClientTypeOK
<1>4. /\ returned' \in [Requests -> Results]
      /\ \A t \in Requests :
            \/ returned'[t] = returned[t]
            \/ returned[t] = "in call" /\ returned'[t] = "Refused"
    <2>1. CASE returned[r] = "in call"
        <3>1. returned' = [returned EXCEPT ![r] = "Refused"] /\ "Refused" \in Results
            BY <1>2, <2>1 DEF Results
        <3>2. QED
            BY <1>3, <2>1, <3>1
    <2>2. CASE returned[r] # "in call"
        BY <1>2, <1>3, <2>2
    <2>3. QED
        BY <2>1, <2>2
<1>5. ClientTypeOK'
    BY <1>2, <1>4 DEF ClientTypeOK
<1>6. QueueInv'
    <2>1. \A i \in 1..Len(queue) : queue[i] \in Requests => returned'[queue[i]] = "Ok"
        BY <1>4 DEF QueueInv
    <2>2. QED
        BY <1>2, <2>1 DEF QueueInv
<1>7. CalledBackOnce'
    BY <1>2, <1>4 DEF CalledBackOnce
<1>8. QED
    BY <1>5, <1>6, <1>7

\* Each step of the client half preserves its invariant.
LEMMA ClientNextPreserves ==
    ASSUME ClientInv, ClientNext
    PROVE  ClientInv'
<1>1. ASSUME NEW c \in Callers, NEW r \in Requests, InvalidRequest(c, r) \/ RefuseRequest(c, r)
      PROVE  ClientInv'
    <2>1. Refused(r)
        BY <1>1 DEF InvalidRequest, RefuseRequest, Refused
    <2>2. QED
        BY <2>1, RefusedPreserves
<1>2. ASSUME NEW c \in Callers, NEW r \in Requests, AcceptRequest(c, r)
      PROVE  ClientInv'
    <2>1. Enqueued(r) /\ r \in Commands
        BY <1>2 DEF AcceptRequest, Enqueued, Commands
    <2>2. QED
        BY <2>1, EnqueuedPreserves
<1>3. ASSUME NEW c \in Callers, ChannelSetting(c)
      PROVE  ClientInv'
    <2>1. Enqueued(Setting) /\ Setting \in Commands
        BY <1>3 DEF ChannelSetting, Enqueued, Commands
    <2>2. QED
        BY <2>1, EnqueuedPreserves
<1>4. ASSUME NEW c \in Callers, CallbackReturns(c)
      PROVE  ClientInv'
    BY <1>4, CallbackReturnsPreserves
<1>5. ASSUME NEW c \in Callers, client_channel_destroy(c)
      PROVE  ClientInv'
    BY <1>5, ClientStutters DEF client_channel_destroy
<1>6. CASE TaskAwaits \/ TaskGoesOn
    BY <1>6, ClientStutters DEF TaskAwaits, TaskGoesOn, clientVars
<1>7. QED
    BY <1>1, <1>2, <1>3, <1>4, <1>5, <1>6, CompletePreserves DEF ClientNext

-----------------------------------------------------------------------------
(* Theorems *)

FfiInv == ServerInv /\ ClientInv

\* The invariant of the bindings: the calls of threads, callbacks and sessions work
\* on endpoints that were made, each mutex is held by the one call that works under
\* it, only a transaction that is not over makes a database differ from the committed
\* one, and the queue holds accepted requests once (device_map_add_endpoint,
\* server_update_database, RequestHandlerWrapper, FfiChannel::send).
THEOREM FfiInvariant == Spec => []FfiInv
<1>1. Init => FfiInv
    <2> SUFFICES ASSUME Init PROVE FfiInv
        OBVIOUS
    <2>0. /\ endpoints = NoEndpoints /\ made = {} /\ servers = [s \in Servers |-> NoServer]
          /\ db = [h \in Handlers |-> Empty] /\ lock = [h \in Handlers |-> None]
          /\ values = [s \in Servers |-> <<>>] /\ call = [c \in Callers |-> <<>>]
          /\ committed = [h \in Handlers |-> Empty]
        BY DEF Init, ServerInit
    <2>1. ServerTypeOK
        <3>0. <<>> \in Seq(Frames) /\ <<>> \in Seq(Values \cup {Absent})
            BY EmptyFacts
        <3>1. AnyAddress \in Filters
            BY DEF Filters
        <3>2. NoEndpoints \in Maps /\ Empty \in Databases
            BY DEF NoEndpoints, Maps, Empty, Databases
        <3>3. NoServer \in ServerRecords
            BY <3>1, <3>2 DEF NoServer, ServerRecords
        <3>4. QED
            BY <2>0, <3>0, <3>2, <3>3 DEF ServerTypeOK
    <2>2. \A c \in Callers : call[c] = <<>> /\ 1..Len(call[c]) = {}
        BY <2>0, EmptyFacts
    <2>3. FramesInv /\ MutexInv
        BY <2>0, <2>2 DEF FramesInv, MutexInv
    <2>4. MapsInv
        <3>1. \A s \in Servers, u \in Units : servers[s].map[u] = None
            BY <2>0 DEF NoServer, NoEndpoints
        <3>2. QED
            BY <2>0, <2>2, <3>1 DEF MapsInv, NoEndpoints
    <2>5. CommittedInv
        BY <2>0 DEF CommittedInv
    <2>6. ValuesInv /\ ReadsCommitted
        BY <2>0 DEF ValuesInv, ReadsCommitted, In, Callers
    <2>7. ClientInv
        <3>0. /\ queue = <<>> /\ returned = [r \in Requests |-> "no call"]
              /\ called = [r \in Requests |-> 0]
            BY DEF Init
        <3>1. queue \in Seq(Commands) /\ 1..Len(queue) = {}
            BY <3>0, EmptyFacts
        <3>2. ClientTypeOK
            BY <3>0, <3>1 DEF ClientTypeOK, Results
        <3>3. QueueInv /\ CalledBackOnce
            BY <3>0, <3>1 DEF QueueInv, CalledBackOnce, Contains
        <3>4. QED
            BY <3>2, <3>3 DEF ClientInv
    <2>8. QED
        BY <2>1, <2>3, <2>4, <2>5, <2>6, <2>7 DEF FfiInv, ServerInv
<1>2. FfiInv /\ [Next]_vars => FfiInv'
    <2> SUFFICES ASSUME ServerInv, ClientInv, [Next]_vars PROVE ServerInv' /\ ClientInv'
        BY DEF FfiInv
    <2>1. CASE UNCHANGED vars
        BY <2>1, QuietPreserves, ClientStutters DEF vars, serverVars, clientVars, dbVars
    <2>2. CASE ServerNext /\ UNCHANGED clientVars
        BY <2>2, ServerNextPreserves, ClientStutters DEF clientVars
    <2>3. CASE ClientNext
        BY <2>3, ClientNextPreservesServer, ClientNextPreserves
    <2>4. QED
        BY <2>1, <2>2, <2>3 DEF Next
<1>3. QED
    BY <1>1, <1>2, PTL DEF Spec

\* What a Modbus request has read so far is what the last transaction that ended
\* left in the database, however deep the callbacks call the API again: the mutex
\* is held for the whole transaction, and an endpoint that is being configured is
\* in no map (server_update_database, device_map_add_endpoint).
THEOREM ReadsCommittedAlways == Spec => []ReadsCommitted
<1>1. FfiInv => ReadsCommitted
    BY DEF FfiInv, ServerInv
<1>2. QED
    BY <1>1, FfiInvariant, PTL

\* Every callback is called as often as its request's fate says, and never twice
\* (sfio_promise::wrap, FfiChannel::send).
THEOREM CalledBackOnceAlways == Spec => []CalledBackOnce
<1>1. FfiInv => CalledBackOnce
    BY DEF FfiInv, ClientInv
<1>2. QED
    BY <1>1, FfiInvariant, PTL
=============================================================================
