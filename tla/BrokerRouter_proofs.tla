------------------------- MODULE BrokerRouter_proofs -------------------------
(***************************************************************************)
(* BrokerRouter, for every set of intents, every limit and any number of   *)
(* lost answers and crashes: the store tells the truth, an intent whose    *)
(* order it knows is never posted again, and the guard counts what this    *)
(* process was told of.                                                    *)
(***************************************************************************)
EXTENDS BrokerRouter, FiniteSums

(***************************************************************************)
(* The inductive invariant.                                                *)
(***************************************************************************)

(* A POST of which the broker made an order, of which an answer was stored, *)
(* or that is on its way, was posted.                                       *)
Posted ==
    /\ wire \subseteq 1 .. Len(posts)
    /\ orders \subseteq 1 .. Len(posts)
    /\ registered \subseteq orders
    /\ raised \subseteq 1 .. Len(posts)
    /\ begun <= Len(posts)

(* The process waits for the last POST, of an intent without known order.   *)
WaitsForLast ==
    waiting # NoOrder =>
        /\ up
        /\ waiting = Len(posts)
        /\ waiting \notin raised
        /\ known[posts[waiting].intent] = NoOrder

(* The limits have room for the order the process waits for.                *)
RoomForAnswer ==
    waiting # NoOrder =>
        /\ orderCount < MaxDailyOrders
        /\ turnover + posts[waiting].notional <= MaxTurnover

(* The file has what was registered and nothing else; a process that runs   *)
(* knows all of it.                                                         *)
FileFollows ==
    /\ up => \A i \in Intents : file.known[i] \in {NoOrder, known[i]}
    /\ \A i \in Intents :
           file.known[i] # NoOrder =>
               file.known[i] \in registered /\ posts[file.known[i]].intent = i
    /\ \A n \in registered : file.known[posts[n].intent] = n

(* An intent whose order a running process knows was not posted since.      *)
KnownIsLast ==
    up => \A i \in Intents : \A m \in 1 .. Len(posts) :
              known[i] # NoOrder /\ m > known[i] => posts[m].intent # i

IInv ==
    /\ TypeOK
    /\ Posted
    /\ WaitsForLast
    /\ RoomForAnswer
    /\ FileFollows
    /\ StoreIsTrue
    /\ KnownIsLast
    /\ RegisteredIsFinal

LEMMA Bounds ==
    /\ Notionals \subseteq Nat
    /\ MaxDailyOrders \in Nat
    /\ MaxTurnover \in Nat
    /\ MaxPosts \in Nat
    /\ MaxRestarts \in Nat
  BY LimitAssumption DEF LimitAssumption

(***************************************************************************)
(* The initial state and every step.                                       *)
(***************************************************************************)

LEMMA InitIInv == Init => IInv
<1> SUFFICES ASSUME Init PROVE IInv
  OBVIOUS
<1>1. NothingKnown \in [Intents -> 0 .. MaxPosts]
  BY Bounds DEF NothingKnown, NoOrder
<1>2. /\ up \in BOOLEAN /\ connected \in BOOLEAN /\ kill \in BOOLEAN
      /\ file \in [whole : BOOLEAN, known : [Intents -> 0 .. MaxPosts]]
  BY <1>1 DEF Init
<1>3. /\ orderCount \in 0 .. MaxDailyOrders /\ turnover \in 0 .. MaxTurnover
      /\ waiting \in 0 .. MaxPosts /\ begun \in 0 .. MaxPosts
      /\ restarts \in 0 .. MaxRestarts
  BY Bounds DEF Init, NoOrder
<1>4. posts \in Seq(Requests) /\ Len(posts) = 0
  BY DEF Init
<1>5. TypeOK
  BY <1>1, <1>2, <1>3, <1>4, Bounds DEF Init, TypeOK
<1> QED BY <1>4, <1>5 DEF Init, NothingKnown, IInv, Posted, WaitsForLast, RoomForAnswer, FileFollows,
            StoreIsTrue, KnownIsLast, RegisteredIsFinal

(* Types.                                                                   *)
LEMMA StepType ==
    IInv /\ [Next]_vars => TypeOK'
<1> SUFFICES ASSUME IInv, [Next]_vars PROVE TypeOK'
  OBVIOUS
<1>1. CASE Connect
  BY <1>1 DEF IInv, TypeOK, Connect, storeVars, guardVars, brokerVars,
     processVars
<1>2. CASE Disconnect
  BY <1>2 DEF IInv, TypeOK, Disconnect, storeVars, guardVars, brokerVars,
     processVars
<1>3. CASE ActivateKillSwitch
  BY <1>3 DEF IInv, TypeOK, ActivateKillSwitch, storeVars, guardVars,
     brokerVars, processVars
<1>4. CASE ResetKillSwitch
  BY <1>4 DEF IInv, TypeOK, ResetKillSwitch, storeVars, guardVars,
     brokerVars, processVars
<1>5. ASSUME NEW request \in Requests, Post(request)
     PROVE  TypeOK'
  <2>1. Len(posts) + 1 \in Numbers
    BY <1>5, Bounds DEF Post, IInv, TypeOK, Numbers
  <2>2. posts' \in Seq(Requests) /\ Len(posts') <= MaxPosts
    BY <1>5, <2>1 DEF Post, IInv, TypeOK, Numbers
  <2>3. wire' \in SUBSET Numbers
    BY <1>5, <2>1 DEF Post, IInv, TypeOK
  <2>4. waiting' \in 0 .. MaxPosts
    BY <1>5, <2>1, Bounds DEF Post, Numbers
  <2> QED BY <1>5, <2>2, <2>3, <2>4 DEF Post, IInv, TypeOK, storeVars, guardVars, processVars
<1>6. ASSUME NEW request \in Requests, Answered(request)
     PROVE  TypeOK'
  <2>1. /\ waiting \in 1 .. MaxPosts /\ waiting \in Numbers
    BY <1>6, Bounds DEF Answered, IInv, TypeOK, NoOrder, Numbers
  <2>2. known' \in [Intents -> 0 .. MaxPosts]
    BY <1>6, <2>1 DEF Answered, IInv, TypeOK, Requests
  <2>3. file' \in [whole : BOOLEAN, known : [Intents -> 0 .. MaxPosts]]
    BY <1>6, <2>2 DEF Answered
  <2>5. registered' \in SUBSET Numbers
    <3>1. Known' \subseteq Numbers
      BY <2>2, Bounds DEF Known, Numbers, NoOrder
    <3> QED BY <1>6, <3>1 DEF Answered, IInv, TypeOK
  <2>4. /\ orderCount' \in 0 .. MaxDailyOrders /\ turnover' \in 0 .. MaxTurnover
    <3>1. request.notional \in Nat
      BY Bounds DEF Requests
    <3> QED BY <1>6, <3>1, Bounds DEF Answered, IInv, TypeOK, RoomForAnswer
  <2> QED BY <1>6, <2>1, <2>2, <2>3, <2>4, <2>5, Bounds
          DEF Answered, IInv, TypeOK, brokerVars, processVars, NoOrder
<1>7. CASE Raises
  <2>1. waiting' \in 0 .. MaxPosts
    BY <1>7, Bounds DEF Raises, NoOrder
  <2>2. raised' \in SUBSET Numbers
    BY <1>7, Bounds DEF Raises, IInv, TypeOK, NoOrder, Numbers
  <2> QED BY <1>7, <2>1, <2>2
          DEF Raises, IInv, TypeOK, storeVars, guardVars, brokerVars
<1>8. ASSUME NEW number \in wire, BrokerTakes(number)
     PROVE  TypeOK'
  BY <1>8 DEF IInv, TypeOK, BrokerTakes, storeVars, guardVars, brokerVars,
     processVars
<1>9. ASSUME NEW number \in wire, Dropped(number)
     PROVE  TypeOK'
  BY <1>9 DEF IInv, TypeOK, Dropped, storeVars, guardVars, brokerVars,
     processVars
<1>10. CASE Crash
  <2>1. waiting' \in 0 .. MaxPosts
    BY <1>10, Bounds DEF Crash, NoOrder
  <2>2. up' \in BOOLEAN
    BY <1>10 DEF Crash
  <2>3. file' \in [whole : BOOLEAN, known : [Intents -> 0 .. MaxPosts]]
    BY <1>10 DEF Crash, IInv, TypeOK
  <2> QED BY <1>10, <2>1, <2>2, <2>3 DEF Crash, IInv, TypeOK, guardVars, brokerVars, processVars
<1>11. CASE Restart
  <2>1. /\ orderCount' \in 0 .. MaxDailyOrders /\ turnover' \in 0 .. MaxTurnover
        /\ begun' \in 0 .. MaxPosts /\ restarts' \in 0 .. MaxRestarts
    BY <1>11, Bounds DEF Restart, IInv, TypeOK
  <2>2. /\ up' \in BOOLEAN /\ connected' \in BOOLEAN /\ kill' \in BOOLEAN
        /\ known' \in [Intents -> 0 .. MaxPosts]
    BY <1>11 DEF Restart, Loaded, IInv, TypeOK
  <2> QED BY <1>11, <2>1, <2>2 DEF Restart, IInv, TypeOK, brokerVars
<1>12. CASE UNCHANGED vars
  BY <1>12 DEF IInv, TypeOK, vars, storeVars, guardVars, brokerVars,
     processVars
<1>13. ASSUME NEW request \in Requests, AnsweredUnsaved(request)
       PROVE  TypeOK'
  <2>1. waiting \in Numbers /\ waiting' \in 0 .. MaxPosts
    BY <1>13, Bounds DEF AnsweredUnsaved, IInv, TypeOK, NoOrder, Numbers
  <2>2. known' \in [Intents -> 0 .. MaxPosts] /\ raised' \in SUBSET Numbers
    BY <1>13, <2>1 DEF AnsweredUnsaved, IInv, TypeOK, Requests, Numbers
  <2>3. file' \in [whole : BOOLEAN, known : [Intents -> 0 .. MaxPosts]]
    BY <1>13 DEF AnsweredUnsaved, IInv, TypeOK
  <2> QED BY <1>13, <2>1, <2>2, <2>3
          DEF AnsweredUnsaved, IInv, TypeOK, guardVars, brokerVars
<1> QED BY <1>1, <1>2, <1>3, <1>4, <1>5, <1>6, <1>7, <1>8, <1>9, <1>10,
           <1>11, <1>12, <1>13 DEF Next

(* Numbers of POSTs only grow.                                              *)
LEMMA StepPosted ==
    IInv /\ [Next]_vars => Posted'
<1> SUFFICES ASSUME IInv, [Next]_vars PROVE Posted'
  OBVIOUS
<1>1. ASSUME NEW request \in Requests, Post(request)
     PROVE  Posted'
  <2>1. posts' = Append(posts, request) /\ waiting' = Len(posts) + 1 /\ Len(posts) \in Nat
    BY <1>1 DEF Post, IInv, TypeOK
  <2>2. posts'[waiting'] = request /\ Len(posts') = Len(posts) + 1
    BY <2>1 DEF IInv, TypeOK
  <2>3. wire' = wire \union {Len(posts) + 1} /\ orders' = orders /\ registered' = registered
        /\ begun' = begun /\ raised' = raised
    BY <1>1 DEF Post, storeVars, processVars
  <2>4. wire \subseteq 1 .. Len(posts) /\ orders \subseteq 1 .. Len(posts)
        /\ begun <= Len(posts) /\ begun \in Int /\ registered \subseteq orders
        /\ raised \subseteq 1 .. Len(posts)
    BY Bounds DEF IInv, TypeOK, Posted
  <2>5. \A n \in 1 .. Len(posts) : n \in 1 .. Len(posts')
    BY <2>1, <2>2
  <2>6. Len(posts) + 1 \in 1 .. Len(posts') /\ begun' <= Len(posts')
    BY <2>1, <2>2, <2>3, <2>4
  <2> QED BY <2>3, <2>4, <2>5, <2>6 DEF Posted
<1>2. ASSUME NEW request \in Requests, Answered(request)
     PROVE  Posted'
  <2>1. registered' \subseteq registered \union {waiting} \union Known /\ waiting \in orders
    BY <1>2 DEF Answered, NamesOrder, Known, IInv, TypeOK
  <2>2. Known \subseteq orders
    BY DEF Known, IInv, StoreIsTrue
  <2> QED BY <1>2, <2>1, <2>2 DEF Answered, IInv, Posted, brokerVars, processVars
<1>3. ASSUME NEW number \in wire, BrokerTakes(number)
     PROVE  Posted'
  BY <1>3 DEF BrokerTakes, IInv, Posted, storeVars, processVars
<1>4. ASSUME NEW number \in wire, Dropped(number)
     PROVE  Posted'
  BY <1>4 DEF Dropped, IInv, Posted, storeVars, processVars
<1>5. CASE Restart
  <2>1. Len(posts) \in Nat
    BY DEF IInv, TypeOK
  <2> QED BY <1>5, <2>1 DEF Restart, IInv, Posted, brokerVars
<1>6. CASE UNCHANGED <<posts, wire, orders, registered, begun, raised>>
  BY <1>6 DEF IInv, Posted
<1>7. Connect \/ Disconnect \/ ActivateKillSwitch \/ ResetKillSwitch \/
        Crash
        => UNCHANGED <<posts, wire, orders, registered, begun, raised>>
  BY DEF Connect, Disconnect, ActivateKillSwitch, ResetKillSwitch, Crash,
     storeVars, guardVars, brokerVars, processVars
<1>8. UNCHANGED vars => UNCHANGED <<posts, wire, orders, registered, begun, raised>>
  BY DEF vars, storeVars, guardVars, brokerVars, processVars
<1>9. CASE Raises \/ \E request \in Requests : AnsweredUnsaved(request)
  <2>1. /\ UNCHANGED <<posts, wire, orders, registered, begun>>
        /\ raised' = raised \union {waiting} /\ waiting # NoOrder
    BY <1>9 DEF Raises, AnsweredUnsaved, storeVars, brokerVars
  <2>2. waiting \in 1 .. Len(posts)
    BY <2>1 DEF IInv, TypeOK, WaitsForLast, NoOrder
  <2> QED BY <2>1, <2>2 DEF IInv, Posted
<1> QED BY <1>1, <1>2, <1>3, <1>4, <1>5, <1>6, <1>7, <1>8, <1>9 DEF Next

(* The process waits for nothing but its last POST.                         *)
LEMMA StepWaits ==
    IInv /\ [Next]_vars => WaitsForLast' /\ RoomForAnswer'
<1> SUFFICES ASSUME IInv, [Next]_vars PROVE WaitsForLast' /\ RoomForAnswer'
  OBVIOUS
<1>1. ASSUME NEW request \in Requests, Post(request)
     PROVE  WaitsForLast' /\ RoomForAnswer'
  <2>1. posts' = Append(posts, request) /\ waiting' = Len(posts) + 1 /\ Len(posts) \in Nat
    BY <1>1 DEF Post, IInv, TypeOK
  <2>2. posts'[waiting'] = request /\ Len(posts') = Len(posts) + 1
    BY <2>1 DEF IInv, TypeOK
  <2>3. WaitsForLast'
    <3>1. Len(posts) + 1 \notin raised /\ raised' = raised
      BY <1>1, <2>1 DEF Post, IInv, Posted, processVars
    <3> QED BY <1>1, <2>1, <2>2, <3>1 DEF Post, Allows, WaitsForLast, storeVars
  <2>4. RoomForAnswer'
    BY <1>1, <2>1, <2>2 DEF Post, Allows, RoomForAnswer, guardVars
  <2> QED BY <2>3, <2>4
<1>2. ASSUME NEW request \in Requests, Answered(request)
     PROVE  WaitsForLast' /\ RoomForAnswer'
  BY <1>2 DEF Answered, WaitsForLast, RoomForAnswer, NoOrder
<1>3. CASE Raises \/ \E request \in Requests : AnsweredUnsaved(request)
  BY <1>3 DEF Raises, AnsweredUnsaved, WaitsForLast, RoomForAnswer, NoOrder
<1>4. CASE Crash
  BY <1>4 DEF Crash, WaitsForLast, RoomForAnswer, NoOrder
<1>5. CASE Restart
  BY <1>5 DEF Restart, IInv, WaitsForLast, RoomForAnswer, NoOrder
<1>6. CASE UNCHANGED <<up, waiting, raised, posts, known, orderCount, turnover>>
  BY <1>6 DEF IInv, WaitsForLast, RoomForAnswer, NoOrder
<1>7. Connect \/ Disconnect \/ ActivateKillSwitch \/ ResetKillSwitch
        => UNCHANGED <<up, waiting, raised, posts, known, orderCount, turnover>>
  BY DEF Connect, Disconnect, ActivateKillSwitch, ResetKillSwitch, storeVars,
     guardVars, brokerVars, processVars
<1>8. ASSUME NEW number \in wire, (BrokerTakes(number) \/ Dropped(number))
     PROVE  UNCHANGED <<up, waiting, raised, posts, known, orderCount, turnover>>
  BY <1>8 DEF BrokerTakes, Dropped, storeVars, guardVars, brokerVars,
     processVars
<1>9. UNCHANGED vars => UNCHANGED <<up, waiting, raised, posts, known, orderCount, turnover>>
  BY DEF vars, storeVars, guardVars, brokerVars, processVars
<1> QED BY <1>1, <1>2, <1>3, <1>4, <1>5, <1>6, <1>7, <1>8, <1>9 DEF Next

(* An answer makes known the order the process waits for, of an intent that *)
(* had none, and keeps what was known.                                      *)
LEMMA AnswerKept ==
    ASSUME IInv, NEW request \in Requests,
           Answered(request) \/ AnsweredUnsaved(request)
    PROVE  /\ up /\ up' /\ posts' = posts /\ orders' = orders /\ wire' = wire
           /\ begun' = begun /\ waiting' = NoOrder
           /\ waiting \in orders /\ waiting = Len(posts)
           /\ waiting \in 1 .. Len(posts) /\ Len(posts) \in Nat
           /\ posts[waiting] = request /\ request.intent \in Intents
           /\ known[request.intent] = NoOrder
           /\ \A i \in Intents :
                  known'[i] = IF i = request.intent THEN waiting ELSE known[i]
           /\ \A i \in Intents : known[i] # NoOrder => known'[i] = known[i]
           /\ \A i \in Intents :
                  known'[i] # NoOrder =>
                      known'[i] \in orders /\ posts[known'[i]].intent = i
<1>1. /\ up /\ up' = up /\ UNCHANGED brokerVars /\ begun' = begun
      /\ waiting # NoOrder /\ waiting' = NoOrder
      /\ waiting \in orders /\ posts[waiting] = request
      /\ known' = [known EXCEPT ![request.intent] = waiting]
  BY DEF Answered, AnsweredUnsaved, NamesOrder, processVars
<1>2. /\ waiting = Len(posts) /\ known[request.intent] = NoOrder
      /\ Len(posts) \in Nat /\ request.intent \in Intents
  BY <1>1 DEF IInv, TypeOK, WaitsForLast, Requests
<1>3. waiting \in 1 .. Len(posts)
  BY <1>1, <1>2 DEF NoOrder
<1>4. \A i \in Intents : known'[i] = IF i = request.intent THEN waiting ELSE known[i]
  BY <1>1, <1>2 DEF IInv, TypeOK
<1>5. \A i \in Intents :
          known'[i] # NoOrder => known'[i] \in orders /\ posts[known'[i]].intent = i
  BY <1>1, <1>2, <1>4 DEF IInv, StoreIsTrue
<1> QED BY <1>1, <1>2, <1>3, <1>4, <1>5 DEF brokerVars

LEMMA RegisteredStays ==
    ASSUME IInv, NEW request \in Requests,
           Answered(request) \/ AnsweredUnsaved(request)
    PROVE  \A n \in registered : known'[posts[n].intent] = n
<1> TAKE n \in registered
<1>1. known[posts[n].intent] = n /\ n \in 1 .. Len(posts) /\ n # NoOrder
  BY AnswerKept DEF IInv, StoreIsTrue, Posted, NoOrder
<1>2. posts[n].intent \in Intents
  <2>1. posts[n] \in Requests
    BY <1>1 DEF IInv, TypeOK
  <2> QED BY <2>1 DEF Requests
<1> QED BY <1>1, <1>2, AnswerKept

(* The file is written with the store and read by the next process.         *)
LEMMA StepFile ==
    IInv /\ [Next]_vars => FileFollows'
<1> SUFFICES ASSUME IInv, [Next]_vars PROVE FileFollows'
  OBVIOUS
<1>1. ASSUME NEW request \in Requests, Post(request)
     PROVE  FileFollows'
  <2>1. posts' = Append(posts, request) /\ waiting' = Len(posts) + 1 /\ Len(posts) \in Nat
    BY <1>1 DEF Post, IInv, TypeOK
  <2>2. posts'[waiting'] = request /\ Len(posts') = Len(posts) + 1
    BY <2>1 DEF IInv, TypeOK
  <2>3. \A n \in 1 .. Len(posts) : posts'[n] = posts[n]
    BY <2>1 DEF IInv, TypeOK
  <2>4. \A n \in orders : n \in 1 .. Len(posts)
    BY DEF IInv, Posted
  <2> QED BY <1>1, <2>3, <2>4 DEF Post, IInv, Posted, FileFollows, storeVars
<1>2. ASSUME NEW request \in Requests, Answered(request)
     PROVE  FileFollows'
  <2>1. /\ up /\ posts' = posts /\ registered' = registered \union Known'
        /\ file'.known = known'
    BY <1>2 DEF Answered, brokerVars
  <2>2. \A n \in registered : known'[posts[n].intent] = n
    BY <1>2, RegisteredStays
  <2>3. \A i \in Intents : known'[i] # NoOrder => posts[known'[i]].intent = i
    BY <1>2, AnswerKept
  <2>4. Known' = {known'[i] : i \in Intents} \ {NoOrder}
    BY DEF Known
  <2> QED BY <2>1, <2>2, <2>3, <2>4 DEF FileFollows
<1>3. ASSUME NEW number \in wire, BrokerTakes(number)
     PROVE  FileFollows'
  BY <1>3 DEF BrokerTakes, IInv, FileFollows, storeVars
<1>4. CASE Crash
  <2>1. file'.known = file.known
    BY <1>4 DEF Crash, IInv, TypeOK
  <2> QED BY <1>4, <2>1 DEF Crash, IInv, FileFollows, brokerVars
<1>5. CASE Restart
  BY <1>5 DEF Restart, Loaded, IInv, FileFollows, brokerVars
<1>6. CASE UNCHANGED <<up, known, file, registered, posts>>
  BY <1>6 DEF IInv, FileFollows
<1>7. Connect \/ Disconnect \/ ActivateKillSwitch \/ ResetKillSwitch \/
        Raises
        => UNCHANGED <<up, known, file, registered, posts>>
  BY DEF Connect, Disconnect, ActivateKillSwitch, ResetKillSwitch, Raises,
     storeVars, guardVars, brokerVars, processVars
<1>8. ASSUME NEW number \in wire, Dropped(number)
     PROVE  UNCHANGED <<up, known, file, registered, posts>>
  BY <1>8 DEF Dropped, storeVars, guardVars, brokerVars, processVars
<1>9. UNCHANGED vars => UNCHANGED <<up, known, file, registered, posts>>
  BY DEF vars, storeVars, guardVars, brokerVars, processVars
<1>10. ASSUME NEW request \in Requests, AnsweredUnsaved(request)
       PROVE  FileFollows'
  <2>1. /\ up /\ posts' = posts /\ registered' = registered
    BY <1>10 DEF AnsweredUnsaved, brokerVars
  <2>2. file'.known = file.known
    BY <1>10 DEF AnsweredUnsaved, IInv, TypeOK
  <2>3. \A i \in Intents : known[i] # NoOrder => known'[i] = known[i]
    BY <1>10, AnswerKept
  <2> QED BY <2>1, <2>2, <2>3 DEF IInv, FileFollows
<1> QED BY <1>1, <1>2, <1>3, <1>4, <1>5, <1>6, <1>7, <1>8, <1>9, <1>10 DEF Next

(* What the store knows stays true.                                         *)
LEMMA StepStore ==
    IInv /\ [Next]_vars => StoreIsTrue'
<1> SUFFICES ASSUME IInv, [Next]_vars PROVE StoreIsTrue'
  OBVIOUS
<1>1. ASSUME NEW request \in Requests, Post(request)
     PROVE  StoreIsTrue'
  <2>1. posts' = Append(posts, request) /\ waiting' = Len(posts) + 1 /\ Len(posts) \in Nat
    BY <1>1 DEF Post, IInv, TypeOK
  <2>2. posts'[waiting'] = request /\ Len(posts') = Len(posts) + 1
    BY <2>1 DEF IInv, TypeOK
  <2>3. \A n \in 1 .. Len(posts) : posts'[n] = posts[n]
    BY <2>1 DEF IInv, TypeOK
  <2>4. \A n \in orders : n \in 1 .. Len(posts)
    BY DEF IInv, Posted
  <2> QED BY <1>1, <2>3, <2>4 DEF Post, IInv, Posted, StoreIsTrue, storeVars
<1>2. ASSUME NEW request \in Requests,
             Answered(request) \/ AnsweredUnsaved(request)
     PROVE  StoreIsTrue'
  <2>1. /\ up /\ posts' = posts /\ orders' = orders
        /\ \A i \in Intents :
               known'[i] # NoOrder =>
                   known'[i] \in orders /\ posts[known'[i]].intent = i
    BY <1>2, AnswerKept
  <2>2. \A n \in registered : known'[posts[n].intent] = n
    BY <1>2, RegisteredStays
  <2>3. \A n \in Known' : known'[posts[n].intent] = n
    BY <2>1 DEF Known
  <2>4. registered' \in {registered, registered \union Known'}
    BY <1>2 DEF Answered, AnsweredUnsaved
  <2> QED BY <2>1, <2>2, <2>3, <2>4 DEF StoreIsTrue
<1>3. ASSUME NEW number \in wire, BrokerTakes(number)
     PROVE  StoreIsTrue'
  BY <1>3 DEF BrokerTakes, IInv, StoreIsTrue, storeVars
<1>4. CASE Crash
  BY <1>4 DEF Crash, IInv, StoreIsTrue, brokerVars
<1>5. CASE Restart
  BY <1>5 DEF Restart, Loaded, IInv, FileFollows, Posted, StoreIsTrue, brokerVars
<1>6. CASE UNCHANGED <<up, known, file, registered, posts, orders>>
  BY <1>6 DEF IInv, StoreIsTrue
<1>7. Connect \/ Disconnect \/ ActivateKillSwitch \/ ResetKillSwitch \/
        Raises
        => UNCHANGED <<up, known, file, registered, posts, orders>>
  BY DEF Connect, Disconnect, ActivateKillSwitch, ResetKillSwitch, Raises,
     storeVars, guardVars, brokerVars, processVars
<1>8. ASSUME NEW number \in wire, Dropped(number)
     PROVE  UNCHANGED <<up, known, file, registered, posts, orders>>
  BY <1>8 DEF Dropped, storeVars, guardVars, brokerVars, processVars
<1>9. UNCHANGED vars => UNCHANGED <<up, known, file, registered, posts, orders>>
  BY DEF vars, storeVars, guardVars, brokerVars, processVars
<1> QED BY <1>1, <1>2, <1>3, <1>4, <1>5, <1>6, <1>7, <1>8, <1>9 DEF Next

(* A POST is allowed only for an intent without known order.                *)
LEMMA StepKnown ==
    IInv /\ [Next]_vars => KnownIsLast'
<1> SUFFICES ASSUME IInv, [Next]_vars PROVE KnownIsLast'
  OBVIOUS
<1>1. ASSUME NEW request \in Requests, Post(request)
     PROVE  KnownIsLast'
  <2>1. /\ posts' = Append(posts, request) /\ posts \in Seq(Requests)
        /\ up /\ known' = known /\ known[request.intent] = NoOrder
    BY <1>1 DEF Post, Allows, IInv, TypeOK, storeVars
  <2>2. /\ Len(posts') = Len(posts) + 1 /\ posts'[Len(posts) + 1] = request
        /\ Len(posts) \in Nat
        /\ \A m \in 1 .. Len(posts) : posts'[m] = posts[m]
    BY <2>1
  <2>3. ASSUME NEW i \in Intents, NEW m \in 1 .. Len(posts'),
               known'[i] # NoOrder, m > known'[i]
        PROVE  posts'[m].intent # i
    <3>1. CASE m = Len(posts) + 1
      BY <2>1, <2>2, <2>3, <3>1
    <3>2. CASE m # Len(posts) + 1
      <4>1. m \in 1 .. Len(posts)
        BY <2>2, <3>2
      <4> QED BY <2>1, <2>2, <2>3, <4>1 DEF IInv, KnownIsLast
    <3> QED BY <3>1, <3>2
  <2> QED BY <2>3 DEF KnownIsLast
<1>2. ASSUME NEW request \in Requests,
             Answered(request) \/ AnsweredUnsaved(request)
     PROVE  KnownIsLast'
  <2>1. /\ up /\ posts' = posts /\ Len(posts) \in Nat /\ waiting = Len(posts)
        /\ \A i \in Intents : known'[i] \in {known[i], waiting}
    BY <1>2, AnswerKept
  <2> QED BY <2>1 DEF IInv, KnownIsLast
<1>3. CASE Restart
  <2>1. known' = file.known /\ posts' = posts
    BY <1>3 DEF Restart, Loaded, brokerVars
  <2> QED BY <2>1 DEF IInv, FileFollows, RegisteredIsFinal, KnownIsLast
<1>4. CASE (up' => up) /\ UNCHANGED <<known, posts>>
  BY <1>4 DEF IInv, KnownIsLast
<1> QED BY <1>1, <1>2, <1>3, <1>4
        DEF Next, Connect, Disconnect, ActivateKillSwitch, ResetKillSwitch,
            Raises, BrokerTakes, Dropped, Crash, vars, storeVars, brokerVars

LEMMA StepFinal ==
    IInv /\ [Next]_vars => RegisteredIsFinal'
<1> SUFFICES ASSUME IInv, [Next]_vars PROVE RegisteredIsFinal'
  OBVIOUS
<1>1. ASSUME NEW request \in Requests, Post(request)
     PROVE  RegisteredIsFinal'
  <2>1. posts' = Append(posts, request) /\ waiting' = Len(posts) + 1 /\ Len(posts) \in Nat
    BY <1>1 DEF Post, IInv, TypeOK
  <2>2. posts'[waiting'] = request /\ Len(posts') = Len(posts) + 1
    BY <2>1 DEF IInv, TypeOK
  <2>3. \A n \in 1 .. Len(posts) : posts'[n] = posts[n]
    BY <2>1 DEF IInv, TypeOK
  <2>4. up /\ known[request.intent] = NoOrder /\ registered' = registered
    BY <1>1 DEF Post, Allows, storeVars
  <2>5. \A n \in registered : n \in 1 .. Len(posts) /\ posts[n].intent # request.intent
    BY <2>4 DEF IInv, Posted, StoreIsTrue, NoOrder
  <2> QED BY <2>1, <2>2, <2>3, <2>4, <2>5 DEF IInv, RegisteredIsFinal
<1>2. ASSUME NEW request \in Requests, Answered(request)
     PROVE  RegisteredIsFinal'
  <2>1. KnownIsLast' /\ StoreIsTrue' /\ up'
    BY <1>2, StepKnown, StepStore, AnswerKept DEF Next
  <2>2. \A n \in Known' : \A m \in 1 .. Len(posts') :
            m > n => posts'[m].intent # posts'[n].intent
    BY <2>1 DEF Known, KnownIsLast, StoreIsTrue
  <2>3. registered' = registered \union Known' /\ posts' = posts
    BY <1>2 DEF Answered, brokerVars
  <2> QED BY <2>2, <2>3 DEF IInv, RegisteredIsFinal
<1>3. CASE UNCHANGED <<posts, registered>>
  BY <1>3 DEF IInv, RegisteredIsFinal
<1>4. Connect \/ Disconnect \/ ActivateKillSwitch \/ ResetKillSwitch \/
        Raises \/ Crash \/ Restart \/
        (\E request \in Requests : AnsweredUnsaved(request))
        => UNCHANGED <<posts, registered>>
  BY DEF Connect, Disconnect, ActivateKillSwitch, ResetKillSwitch, Raises,
     AnsweredUnsaved, Crash, Restart, Loaded, storeVars, guardVars, brokerVars, processVars
<1>5. ASSUME NEW number \in wire, (BrokerTakes(number) \/ Dropped(number))
     PROVE  UNCHANGED <<posts, registered>>
  BY <1>5 DEF BrokerTakes, Dropped, storeVars, guardVars, brokerVars,
     processVars
<1>6. UNCHANGED vars => UNCHANGED <<posts, registered>>
  BY DEF vars, storeVars, guardVars, brokerVars, processVars
<1> QED BY <1>1, <1>2, <1>3, <1>4, <1>5, <1>6 DEF Next

LEMMA Invariance == Spec => []IInv
<1>1. IInv /\ [Next]_vars => IInv'
  BY StepType, StepPosted, StepWaits, StepFile, StepStore, StepKnown, StepFinal
     DEF IInv
<1> QED BY InitIInv, <1>1, PTL DEF Spec

(***************************************************************************)
(* The counters of the guard.                                              *)
(***************************************************************************)

(* The order the process waits for is one of its own.                       *)
WaitsForOwn == waiting # NoOrder => begun < waiting

(* Each POST of a process that runs is known, raised or waited for.         *)
PostsExplained ==
    up => \A n \in (begun + 1) .. Len(posts) :
              known[posts[n].intent] = n \/ n \in raised \/ n = waiting

CountersRight ==
    up => /\ orderCount = Cardinality(OrdersOfProcess)
          /\ turnover = SumFunctionOnSet(NotionalOf, OrdersOfProcess)

CountsInv == CountersRight /\ WaitsForOwn /\ PostsExplained

LEMMA OrderTypes ==
    ASSUME IInv
    PROVE  /\ IsFiniteSet(OrdersOfProcess)
           /\ begun \in Nat /\ Len(posts) \in Nat
           /\ \A n \in 1 .. Len(posts) :
                  /\ n \in Nat \ {0}
                  /\ posts[n] \in Requests /\ posts[n].notional \in Nat
                  /\ posts[n].intent \in Intents
           /\ \A n \in OrdersOfProcess : n \in 1 .. Len(posts)
           /\ \A n \in OrdersOfProcess : NotionalOf[n] \in Int
<1>1. begun \in Nat /\ Len(posts) \in Nat
  BY Bounds DEF IInv, TypeOK
<1>2. OrdersOfProcess \subseteq 1 .. Len(posts)
  BY <1>1 DEF OrdersOfProcess
<1>3. IsFiniteSet(OrdersOfProcess)
  <2>1. IsFiniteSet(1 .. Len(posts))
    BY <1>1, FS_Interval
  <2> QED BY <1>2, <2>1, FS_Subset
<1>4. ASSUME NEW n \in 1 .. Len(posts)
      PROVE  /\ n \in Nat \ {0}
             /\ posts[n] \in Requests /\ posts[n].notional \in Nat
             /\ posts[n].intent \in Intents
  <2>1. n \in Nat \ {0}
    BY <1>1
  <2>2. posts[n] \in Requests
    BY <2>1 DEF IInv, TypeOK
  <2> QED BY <2>1, <2>2, Bounds DEF Requests
<1>5. \A n \in OrdersOfProcess : NotionalOf[n] \in Int
  BY <1>2, <1>4 DEF NotionalOf
<1> QED BY <1>1, <1>2, <1>3, <1>4, <1>5

(* The broker's orders are POSTs, so what is not counted raised or waits.   *)
LEMMA CountsAreGuard ==
    ASSUME IInv, CountsInv
    PROVE  GuardCounts
<1>1. turnover <= MaxTurnover
  BY Bounds DEF IInv, TypeOK
<1>2. ASSUME up, NEW n \in OrdersTaken
      PROVE  n \in OrdersOfProcess \union raised \union {waiting}
  <2>1. n \in (begun + 1) .. Len(posts)
    BY <1>2, OrderTypes DEF OrdersTaken, IInv, Posted
  <2> QED BY <1>2, <2>1 DEF CountsInv, PostsExplained, OrdersOfProcess
<1> QED BY <1>1, <1>2 DEF CountsInv, CountersRight, GuardCounts

LEMMA NothingOrdered ==
    ASSUME OrdersOfProcess = {}
    PROVE  /\ Cardinality(OrdersOfProcess) = 0
           /\ SumFunctionOnSet(NotionalOf, OrdersOfProcess) = 0
<1>1. Cardinality({}) = 0
  BY FS_EmptySet
<1>2. SumFunctionOnSet(NotionalOf, {}) = 0
  BY SumOfEmpty
<1> QED BY <1>1, <1>2, Zenon

LEMMA CountsInit == Init => CountsInv
<1> SUFFICES ASSUME Init PROVE CountsInv
  OBVIOUS
<1>1. Len(posts) = 0 /\ begun = 0
  BY DEF Init
<1>2. (begun + 1) .. Len(posts) = {}
  BY <1>1
<1>3. OrdersOfProcess = {}
  BY <1>2 DEF OrdersOfProcess
<1> QED BY <1>2, <1>3, NothingOrdered
        DEF Init, CountsInv, CountersRight, WaitsForOwn, PostsExplained

(* The counters and what they count stay as they are.                       *)
LEMMA CountsSame ==
    ASSUME IInv, CountersRight, up' => up,
           UNCHANGED <<orderCount, turnover>>,
           up => OrdersOfProcess' = OrdersOfProcess,
           \A n \in 1 .. Len(posts) : posts'[n] = posts[n]
    PROVE  CountersRight'
<1> SUFFICES ASSUME up, OrdersOfProcess' = OrdersOfProcess
             PROVE  /\ orderCount = Cardinality(OrdersOfProcess')
                    /\ turnover = SumFunctionOnSet(NotionalOf', OrdersOfProcess')
  BY DEF CountersRight
<1>2. \A n \in OrdersOfProcess : NotionalOf[n] = NotionalOf'[n]
  BY OrderTypes DEF NotionalOf
<1>3. SumFunctionOnSet(NotionalOf, OrdersOfProcess) =
          SumFunctionOnSet(NotionalOf', OrdersOfProcess)
  BY <1>2, OrderTypes, SumOfSame
<1> QED BY <1>3 DEF CountersRight

(* An answer adds the order the process waits for, not counted before.      *)
LEMMA CountsAnswer ==
    ASSUME IInv, CountsInv, NEW request \in Requests, Answered(request)
    PROVE  CountersRight'
<1> DEFINE S == OrdersOfProcess
<1>1. /\ up /\ posts[waiting] = request /\ waiting \in 1 .. Len(posts)
      /\ orderCount' = orderCount + 1 /\ turnover' = turnover + request.notional
      /\ posts' = posts /\ begun' = begun /\ raised' = raised
      /\ begun < waiting /\ known[request.intent] = NoOrder
      /\ waiting \notin raised
      /\ \A i \in Intents :
             known'[i] = IF i = request.intent THEN waiting ELSE known[i]
  BY AnswerKept
     DEF Answered, processVars, CountsInv, WaitsForOwn, IInv, WaitsForLast
<1>2. S' = S \union {waiting} /\ waiting \notin S
  <2>1. \A n \in 1 .. Len(posts) :
            known'[posts[n].intent] = n <=> (known[posts[n].intent] = n \/ n = waiting)
    BY <1>1, OrderTypes DEF NoOrder
  <2>2. waiting \in (begun + 1) .. Len(posts)
    BY <1>1, OrderTypes
  <2>3. \A n \in (begun + 1) .. Len(posts) : n \in 1 .. Len(posts)
    BY OrderTypes
  <2>4. known[posts[waiting].intent] # waiting
    BY <1>1, OrderTypes DEF NoOrder
  <2> QED BY <1>1, <2>1, <2>2, <2>3, <2>4 DEF OrdersOfProcess
<1>4. request.notional \in Nat
  BY Bounds DEF Requests
<1>5. /\ IsFiniteSet(S) /\ \A n \in S : NotionalOf[n] \in Int
      /\ SumFunctionOnSet(NotionalOf, S) \in Int
  BY OrderTypes, SumIsInt
<1>6. Cardinality(S') = Cardinality(S) + 1
  BY <1>2, <1>5, FS_AddElement
<1>7. SumFunctionOnSet(NotionalOf', S) = SumFunctionOnSet(NotionalOf, S)
  <2>1. \A n \in S : NotionalOf'[n] = NotionalOf[n]
    BY <1>1, <1>2 DEF NotionalOf
  <2> QED BY <1>5, <2>1, SumOfSame
<1>8. SumFunctionOnSet(NotionalOf', S') =
          SumFunctionOnSet(NotionalOf', S) + request.notional
  <2>1. NotionalOf'[waiting] = request.notional
    BY <1>1, <1>2 DEF NotionalOf
  <2>2. \A n \in S \union {waiting} : NotionalOf'[n] \in Int
    BY <1>1, <1>2, <1>4, <1>5, <2>1 DEF NotionalOf
  <2> HIDE DEF S
  <2>3. SumFunctionOnSet(NotionalOf', S \union {waiting}) =
            SumFunctionOnSet(NotionalOf', S) + NotionalOf'[waiting]
    BY <1>2, <1>5, <2>2, SumWithOne
  <2> QED BY <1>2, <2>1, <2>3, Zenon
<1> QED BY <1>1, <1>6, <1>7, <1>8 DEF CountsInv, CountersRight

(* A call that raises adds nothing to what the counters count, though the   *)
(* store may come to know its order.                                        *)
LEMMA CountsRaise ==
    ASSUME IInv, CountsInv,
           Raises \/ \E request \in Requests : AnsweredUnsaved(request)
    PROVE  OrdersOfProcess' = OrdersOfProcess /\ PostsExplained'
<1>1. /\ up /\ waiting \in 1 .. Len(posts) /\ posts' = posts /\ begun' = begun
      /\ waiting' = NoOrder /\ raised' = raised \union {waiting}
      /\ known[posts[waiting].intent] = NoOrder
      /\ \A n \in 1 .. Len(posts) \ {waiting} :
             known[posts[n].intent] = n <=> known'[posts[n].intent] = n
  <2>1. CASE Raises
    <3>1. /\ up /\ waiting # NoOrder /\ waiting' = NoOrder /\ known' = known
          /\ posts' = posts /\ begun' = begun /\ raised' = raised \union {waiting}
      BY <2>1 DEF Raises, storeVars, brokerVars
    <3>2. waiting = Len(posts) /\ known[posts[waiting].intent] = NoOrder
      BY <3>1 DEF IInv, WaitsForLast
    <3>3. waiting \in 1 .. Len(posts)
      BY <3>1, <3>2, OrderTypes DEF NoOrder
    <3> QED BY <3>1, <3>2, <3>3
  <2>2. ASSUME NEW request \in Requests, AnsweredUnsaved(request)
        PROVE  <1>1!:
    <3>1. /\ up /\ waiting \in 1 .. Len(posts) /\ posts' = posts /\ begun' = begun
          /\ waiting' = NoOrder /\ known[posts[waiting].intent] = NoOrder
          /\ posts[waiting] = request
          /\ \A i \in Intents :
                 known'[i] = IF i = request.intent THEN waiting ELSE known[i]
      BY <2>2, AnswerKept
    <3>2. raised' = raised \union {waiting}
      BY <2>2 DEF AnsweredUnsaved
    <3>3. ASSUME NEW n \in 1 .. Len(posts) \ {waiting}
          PROVE  known[posts[n].intent] = n <=> known'[posts[n].intent] = n
      <4>1. n \in 1 .. Len(posts) /\ n # waiting
        OBVIOUS
      <4>2. posts[n].intent \in Intents /\ n # NoOrder
        BY <4>1, OrderTypes DEF NoOrder
      <4> QED BY <3>1, <4>1, <4>2
    <3> QED BY <3>1, <3>2, <3>3
  <2> QED BY <2>1, <2>2
<1>2. \A n \in (begun + 1) .. Len(posts) : n \in 1 .. Len(posts)
  BY OrderTypes
<1>3. known[posts[waiting].intent] # waiting
  BY <1>1, OrderTypes DEF NoOrder
<1>4. OrdersOfProcess' = OrdersOfProcess
  BY <1>1, <1>2, <1>3 DEF OrdersOfProcess
<1>5. PostsExplained'
  BY <1>1, <1>2 DEF CountsInv, PostsExplained
<1> QED BY <1>4, <1>5

LEMMA CountsPost ==
    ASSUME IInv, CountsInv, NEW request \in Requests, Post(request)
    PROVE  CountsInv'
<1>1. /\ posts \in Seq(Requests) /\ Len(posts) \in Nat
      /\ posts' = Append(posts, request)
      /\ begun \in Nat /\ begun <= Len(posts)
      /\ up' = up /\ up /\ waiting = NoOrder /\ waiting' = Len(posts) + 1
      /\ UNCHANGED <<begun, raised, known, orderCount, turnover>>
      /\ known[request.intent] = NoOrder
  BY OrderTypes
     DEF Post, Allows, IInv, TypeOK, Posted, processVars, storeVars, guardVars
<1>2. /\ Len(posts') = Len(posts) + 1 /\ posts'[Len(posts) + 1] = request
      /\ \A n \in 1 .. Len(posts) : posts'[n] = posts[n]
  BY <1>1
<1>3. /\ (begun + 1) .. Len(posts') =
             ((begun + 1) .. Len(posts)) \union {Len(posts) + 1}
      /\ \A n \in (begun + 1) .. Len(posts) : n \in 1 .. Len(posts) /\ n # NoOrder
  BY <1>1, <1>2 DEF NoOrder
<1>4. OrdersOfProcess' = OrdersOfProcess
  BY <1>1, <1>2, <1>3 DEF OrdersOfProcess, NoOrder
<1>5. PostsExplained'
  BY <1>1, <1>2, <1>3 DEF CountsInv, PostsExplained
<1>6. WaitsForOwn'
  BY <1>1 DEF WaitsForOwn
<1>7. CountersRight'
  BY <1>1, <1>2, <1>4, CountsSame DEF CountsInv
<1> QED BY <1>5, <1>6, <1>7 DEF CountsInv

LEMMA CountsStep == IInv /\ CountsInv /\ [Next]_vars => CountsInv'
<1> SUFFICES ASSUME IInv, CountsInv, [Next]_vars PROVE CountsInv'
  OBVIOUS
<1>1. ASSUME NEW request \in Requests, Answered(request)
     PROVE  CountsInv'
  <2>1. waiting' = NoOrder /\ raised' = raised
    BY <1>1 DEF Answered, processVars
  <2>2. PostsExplained'
    <3>1. \A n \in (begun + 1) .. Len(posts) : n \in 1 .. Len(posts)
      BY OrderTypes
    <3> QED BY <1>1, <2>1, <3>1, AnswerKept, OrderTypes
            DEF CountsInv, PostsExplained, NoOrder
  <2> QED BY <1>1, <2>1, <2>2, CountsAnswer DEF CountsInv, WaitsForOwn
<1>2. CASE Raises \/ \E request \in Requests : AnsweredUnsaved(request)
  <2>1. /\ waiting' = NoOrder /\ up' = up /\ posts' = posts
        /\ UNCHANGED <<orderCount, turnover>>
    BY <1>2 DEF Raises, AnsweredUnsaved, guardVars, brokerVars
  <2>2. CountersRight'
    BY <1>2, <2>1, CountsRaise, CountsSame DEF CountsInv
  <2> QED BY <1>2, <2>1, <2>2, CountsRaise DEF CountsInv, WaitsForOwn
<1>3. CASE Restart
  <2>1. /\ begun' = Len(posts') /\ Len(posts') \in Nat /\ waiting' = NoOrder
        /\ orderCount' = 0 /\ turnover' = 0
    BY <1>3, OrderTypes DEF Restart, IInv, WaitsForLast, brokerVars
  <2>2. ((begun + 1) .. Len(posts))' = {}
    BY <2>1
  <2>3. OrdersOfProcess' = {}
    BY <2>2 DEF OrdersOfProcess
  <2>4. /\ Cardinality(OrdersOfProcess') = 0
        /\ SumFunctionOnSet(NotionalOf', OrdersOfProcess') = 0
    <3>1. Cardinality({}) = 0
      BY FS_EmptySet
    <3>2. SumFunctionOnSet(NotionalOf', {}) = 0
      BY SumOfEmpty
    <3> QED BY <2>3, <3>1, <3>2, Zenon
  <2>5. CountersRight'
    BY <2>1, <2>4 DEF CountersRight
  <2> QED BY <2>1, <2>2, <2>5 DEF CountsInv, WaitsForOwn, PostsExplained
<1>4. CASE /\ UNCHANGED <<known, raised, begun, orderCount, turnover, posts>>
           /\ up' => up
           /\ waiting' = waiting \/ (waiting' = NoOrder /\ ~ up')
  <2>1. OrdersOfProcess' = OrdersOfProcess
    BY <1>4 DEF OrdersOfProcess
  <2>2. CountersRight'
    BY <1>4, <2>1, CountsSame DEF CountsInv
  <2> QED BY <1>4, <2>2 DEF CountsInv, WaitsForOwn, PostsExplained
<1>5. Connect \/ Disconnect \/ ActivateKillSwitch \/ ResetKillSwitch
        \/ Crash \/ UNCHANGED vars
        => /\ UNCHANGED <<known, raised, begun, orderCount, turnover, posts>>
           /\ up' => up
           /\ waiting' = waiting \/ (waiting' = NoOrder /\ ~ up')
  BY DEF Connect, Disconnect, ActivateKillSwitch, ResetKillSwitch, Crash, vars,
     storeVars, guardVars, brokerVars, processVars
<1>6. ASSUME NEW number \in wire, (BrokerTakes(number) \/ Dropped(number))
     PROVE  /\ UNCHANGED <<known, raised, begun, orderCount, turnover, posts>>
            /\ up' => up
            /\ waiting' = waiting
  BY <1>6 DEF BrokerTakes, Dropped, storeVars, guardVars, processVars
<1> QED BY <1>1, <1>2, <1>3, <1>4, <1>5, <1>6, CountsPost DEF Next

(***************************************************************************)
(* Theorems.                                                               *)
(***************************************************************************)

(* The variables of the router keep their types.                            *)
THEOREM TypeCorrect == Spec => []TypeOK
<1>1. IInv => TypeOK
  BY DEF IInv
<1> QED BY <1>1, Invariance, PTL

(* The store names orders the broker has, of the right intents, and forgets *)
(* no answer that was stored, across crashes.                               *)
THEOREM StoreTellsTruth == Spec => []StoreIsTrue
<1>1. IInv => StoreIsTrue
  BY DEF IInv
<1> QED BY <1>1, Invariance, PTL

(* An intent is posted again only after POSTs that went unanswered.         *)
THEOREM NeverPostedAgain == Spec => []RegisteredIsFinal
<1>1. IInv => RegisteredIsFinal
  BY DEF IInv
<1> QED BY <1>1, Invariance, PTL

(* The counters of the guard are those of the orders this process           *)
(* registered, whatever was lost, delivered late or told to an earlier      *)
(* process, and keep within the limit; an order of the process that they    *)
(* miss is one of a call that raised, its registration included, or of the  *)
(* call that waits.                                                         *)
THEOREM GuardCountsOrders == Spec => []GuardCounts
<1>1. IInv /\ CountsInv => GuardCounts
  BY CountsAreGuard
<1> QED BY <1>1, CountsInit, CountsStep, Invariance, PTL DEF Spec

(***************************************************************************)
(* Where answers are final.                                                *)
(***************************************************************************)

(* What is on its way or an order was stored or is waited for.              *)
AllAccounted ==
    \A n \in wire \union orders :
        (n \in registered /\ n \notin raised) \/ n = waiting

LEMMA AccountedInit == Init => AllAccounted
  BY DEF Init, AllAccounted

LEMMA AccountedStep ==
    IInv /\ AllAccounted /\ [Next]_vars /\ [DecidedWhenEnded]_vars => AllAccounted'
<1> SUFFICES ASSUME IInv, AllAccounted, [Next]_vars, [DecidedWhenEnded]_vars
             PROVE  AllAccounted'
  OBVIOUS
<1>1. ASSUME NEW request \in Requests, Post(request)
     PROVE  AllAccounted'
  <2>1. wire \union orders \subseteq 1 .. Len(posts)
    BY DEF IInv, Posted
  <2>2. NoOrder \notin wire \union orders
    BY <2>1 DEF NoOrder
  <2>3. /\ waiting = NoOrder /\ waiting' = Len(posts) + 1
        /\ wire' = wire \union {waiting'}
        /\ UNCHANGED <<orders, registered, raised>>
    BY <1>1 DEF Post, storeVars, processVars
  <2> QED BY <2>2, <2>3 DEF AllAccounted
<1>2. ASSUME NEW request \in Requests, Answered(request)
     PROVE  AllAccounted'
  <2>1. /\ wire' = wire /\ orders' = orders /\ raised' = raised
        /\ registered' = registered \union Known' /\ waiting \notin raised
    BY <1>2 DEF Answered, brokerVars, processVars, IInv, WaitsForLast
  <2>2. waiting \in Known'
    BY <1>2, AnswerKept DEF Known, NoOrder
  <2> QED BY <2>1, <2>2 DEF AllAccounted
<1>3. ASSUME NEW number \in wire, BrokerTakes(number) \/ Dropped(number)
     PROVE  AllAccounted'
  BY <1>3 DEF BrokerTakes, Dropped, AllAccounted, storeVars, processVars
<1>4. CASE Raises \/ Crash \/ \E request \in Requests : AnsweredUnsaved(request)
  <2>1. /\ UNCHANGED <<wire, orders, registered>> /\ waiting' = NoOrder
        /\ raised' \in {raised, raised \union {waiting}}
        /\ waiting # NoOrder \/ raised' = raised
    BY <1>4 DEF Raises, AnsweredUnsaved, Crash, storeVars, brokerVars, processVars
  <2>2. CASE waiting = NoOrder
    BY <2>1, <2>2 DEF AllAccounted
  <2>3. CASE waiting # NoOrder
    <3>1. waiting' # waiting
      BY <2>1, <2>3
    <3>2. DecidedWhenEnded
      BY <3>1 DEF vars
    <3>3. waiting \notin registered
      <4>1. up /\ known[posts[waiting].intent] = NoOrder
        BY <2>3 DEF IInv, WaitsForLast
      <4> QED BY <2>3, <4>1 DEF IInv, StoreIsTrue
    <3>4. waiting \notin wire \union orders
      BY <2>1, <2>3, <3>2, <3>3 DEF DecidedWhenEnded
    <3> QED BY <2>1, <3>4 DEF AllAccounted
  <2> QED BY <2>2, <2>3
<1>5. CASE /\ UNCHANGED <<wire, orders, registered, waiting>>
           /\ raised' \in {raised, {}}
  BY <1>5 DEF AllAccounted
<1> QED BY <1>1, <1>2, <1>3, <1>4, <1>5
        DEF Next, vars, Connect, Disconnect, ActivateKillSwitch,
            ResetKillSwitch, Restart, storeVars, brokerVars, processVars

LEMMA AccountedInvariance == Spec /\ AnswersFinal => []AllAccounted
<1> QED BY AccountedInit, AccountedStep, Invariance, PTL DEF Spec, AnswersFinal

(* What the broker has is what the guard counted and what it has room for.  *)
LEMMA TakenWithinLimits ==
    ASSUME IInv, CountsInv, AllAccounted
    PROVE  LimitsBind
<1> SUFFICES ASSUME up
             PROVE  /\ Cardinality(OrdersTaken) <= MaxDailyOrders
                    /\ SumFunctionOnSet(NotionalTaken, OrdersTaken) <= MaxTurnover
  BY DEF LimitsBind
<1> DEFINE S == OrdersOfProcess
<1>1. /\ orderCount = Cardinality(S)
      /\ turnover = SumFunctionOnSet(NotionalOf, S)
      /\ turnover <= MaxTurnover /\ orderCount <= MaxDailyOrders
  BY Bounds DEF CountsInv, CountersRight, IInv, TypeOK
<1>2. /\ IsFiniteSet(S) /\ \A n \in S : NotionalOf[n] \in Int
      /\ S \subseteq OrdersTaken /\ OrdersTaken \subseteq S \union {waiting}
  <2>1. ASSUME NEW n \in S PROVE n \in OrdersTaken
    <3>1. n \in 1 .. Len(posts) /\ n > begun /\ n # NoOrder
          /\ posts[n].intent \in Intents /\ known[posts[n].intent] = n
      BY OrderTypes DEF OrdersOfProcess, NoOrder
    <3> QED BY <3>1 DEF OrdersTaken, IInv, StoreIsTrue
  <2>2. ASSUME NEW n \in OrdersTaken, n # waiting PROVE n \in S
    <3>1. n \in registered /\ n \notin raised /\ n \in 1 .. Len(posts) /\ n > begun
      BY <2>2 DEF OrdersTaken, AllAccounted, IInv, Posted
    <3>2. known[posts[n].intent] = n
      BY <3>1 DEF IInv, StoreIsTrue
    <3> QED BY <3>1, <3>2, OrderTypes DEF OrdersOfProcess
  <2> QED BY <2>1, <2>2, OrderTypes
<1>3. \A n \in S : NotionalTaken[n] = NotionalOf[n]
  BY <1>2 DEF NotionalTaken, NotionalOf
<1>4. SumFunctionOnSet(NotionalTaken, S) = SumFunctionOnSet(NotionalOf, S)
  BY <1>2, <1>3, SumOfSame
<1>5. CASE OrdersTaken = S
  BY <1>1, <1>4, <1>5
<1>6. CASE OrdersTaken # S
  <2>1. /\ OrdersTaken = S \union {waiting} /\ waiting \notin S
        /\ waiting \in orders
    BY <1>2, <1>6 DEF OrdersTaken
  <2>2. waiting # NoOrder /\ waiting \in 1 .. Len(posts)
    BY <2>1 DEF IInv, Posted, NoOrder
  <2>3. posts[waiting].notional \in Nat
    <3>1. posts[waiting] \in Requests
      BY <2>2 DEF IInv, TypeOK
    <3> QED BY <3>1, Bounds DEF Requests
  <2>4. NotionalTaken[waiting] = posts[waiting].notional
    BY <2>1 DEF NotionalTaken
  <2>5. /\ orderCount < MaxDailyOrders
        /\ turnover + posts[waiting].notional <= MaxTurnover
    BY <2>2 DEF IInv, RoomForAnswer
  <2> HIDE DEF S
  <2>6. Cardinality(OrdersTaken) = orderCount + 1
    BY <1>1, <1>2, <2>1, FS_AddElement
  <2>7. SumFunctionOnSet(NotionalTaken, OrdersTaken) =
            turnover + posts[waiting].notional
    <3>1. \A n \in S \union {waiting} : NotionalTaken[n] \in Int
      BY <1>2, <1>3, <2>3, <2>4
    <3>2. SumFunctionOnSet(NotionalTaken, S \union {waiting}) =
              SumFunctionOnSet(NotionalTaken, S) + NotionalTaken[waiting]
      BY <1>2, <2>1, <3>1, SumWithOne
    <3> QED BY <1>1, <1>4, <2>1, <2>4, <3>2
  <2>8. orderCount \in Int /\ MaxDailyOrders \in Int
    BY Bounds DEF IInv, TypeOK
  <2> QED BY <2>5, <2>6, <2>7, <2>8
<1> QED BY <1>5, <1>6

(* If every call that ends without an order made none, the limits of the    *)
(* guard hold for what the broker has of the process: it is lost answers    *)
(* alone that let the orders exceed the limits.                             *)
THEOREM LimitsBindBroker == Spec /\ AnswersFinal => []LimitsBind
<1>1. IInv /\ CountsInv /\ AllAccounted => LimitsBind
  BY TakenWithinLimits
<1>2. Spec => []CountsInv
  BY CountsInit, CountsStep, Invariance, PTL DEF Spec
<1> QED BY <1>1, <1>2, Invariance, AccountedInvariance, PTL

(***************************************************************************)
(* The submission discipline.                                              *)
(***************************************************************************)

StatusOf == [i \in Intents |-> [n \in Numbers |-> PostStatus(i, n)]]

(* If one request alone changes its status, one attempt does.               *)
LEMMA OneStatusChanges ==
    ASSUME NEW i \in Intents, NEW n \in Numbers,
           \A j \in Intents, m \in Numbers :
               j # i \/ m # n => PostStatus(j, m)' = PostStatus(j, m)
    PROVE  StatusOf' = [StatusOf EXCEPT ![i] = [@ EXCEPT ![n] = PostStatus(i, n)']]
<1> DEFINE new == PostStatus(i, n)'
           changed == [StatusOf EXCEPT ![i] = [@ EXCEPT ![n] = new]]
<1>1. ASSUME NEW j \in Intents PROVE StatusOf'[j] = changed[j]
  <2>1. CASE j = i
    BY <2>1 DEF StatusOf
  <2>2. CASE j # i
    BY <2>2 DEF StatusOf
  <2> QED BY <2>1, <2>2
<1> QED BY <1>1 DEF StatusOf

LEMMA PostOpens ==
    ASSUME IInv, AllAccounted, NEW request \in Requests, Post(request),
           NEW i, i = request.intent, NEW n, n = Len(posts) + 1
    PROVE  i \in Intents /\ n \in Numbers /\ Submission!Open(i, n)
<1>1. /\ up /\ waiting = NoOrder /\ known[i] = NoOrder /\ i \in Intents
      /\ n \in Numbers /\ Len(posts) \in Nat
      /\ wire' = wire \union {n} /\ orders' = orders
  BY Bounds DEF Post, Allows, IInv, TypeOK, Numbers, Requests
<1>2. /\ Len(posts') = n /\ posts'[n] = request
      /\ \A m \in Numbers : m <= Len(posts) => posts'[m] = posts[m]
  <2>1. posts \in Seq(Requests) /\ posts' = Append(posts, request)
    BY DEF Post, IInv, TypeOK
  <2> QED BY <2>1 DEF Numbers
<1>3. \A j \in Intents, m \in Numbers :
          j # i \/ m # n => PostStatus(j, m)' = PostStatus(j, m)
  BY <1>1, <1>2 DEF PostStatus, Numbers
<1>4. StatusOf' = [StatusOf EXCEPT ![i] = [@ EXCEPT ![n] = PostStatus(i, n)']]
  BY <1>1, <1>3, OneStatusChanges
<1>5. StatusOf[i][n] = "absent"
  BY <1>1 DEF StatusOf, PostStatus
<1>6. PostStatus(i, n)' = "outstanding"
  BY <1>1, <1>2 DEF PostStatus
<1>7. ASSUME NEW m \in Numbers PROVE StatusOf[i][m] # "outstanding"
  <2>1. SUFFICES ASSUME PostStatus(i, m) = "outstanding" PROVE FALSE
    BY <1>1 DEF StatusOf
  <2>2. m <= Len(posts) /\ posts[m].intent = i /\ m \in wire \union orders
    BY <1>1, <2>1 DEF PostStatus, Numbers
  <2>3. m \in registered
    BY <1>1, <2>2 DEF AllAccounted, NoOrder, Numbers
  <2>4. known[i] = m
    BY <1>1, <2>2, <2>3 DEF IInv, StoreIsTrue
  <2> QED BY <1>1, <2>4 DEF NoOrder, Numbers
<1> QED BY <1>1, <1>4, <1>5, <1>6, <1>7 DEF Submission!Open, StatusOf

(* A request that the broker takes stays outstanding, one dropped is closed.*)
LEMMA NetworkCloses ==
    ASSUME IInv, NEW n \in wire, BrokerTakes(n) \/ Dropped(n),
           NEW i, i = posts[n].intent
    PROVE  /\ i \in Intents /\ n \in Numbers
           /\ Submission!Close(i, n) \/ UNCHANGED StatusOf
<1>1. /\ n \in 1 .. Len(posts) /\ n \in Numbers /\ i \in Intents
      /\ Len(posts) \in Nat
  <2>1. n \in 1 .. Len(posts) /\ n \in Numbers
    BY DEF IInv, TypeOK, Posted
  <2>2. posts[n] \in Requests /\ Len(posts) \in Nat
    BY <2>1 DEF IInv, TypeOK
  <2> QED BY <2>1, <2>2 DEF Requests
<1>2. posts' = posts /\ wire' = wire \ {n} /\ orders' \in {orders, orders \union {n}}
  BY DEF BrokerTakes, Dropped
<1>3. \A j \in Intents, m \in Numbers :
          j # i \/ m # n => PostStatus(j, m)' = PostStatus(j, m)
  BY <1>2 DEF PostStatus
<1>4. StatusOf' = [StatusOf EXCEPT ![i] = [@ EXCEPT ![n] = PostStatus(i, n)']]
  BY <1>1, <1>3, OneStatusChanges
<1>5. StatusOf[i][n] = "outstanding"
  BY <1>1 DEF StatusOf, PostStatus
<1>6. PostStatus(i, n)' \in {"outstanding", "closed"}
  BY <1>1, <1>2 DEF PostStatus
<1>7. CASE PostStatus(i, n)' = "closed"
  BY <1>1, <1>4, <1>5, <1>7 DEF Submission!Close, StatusOf
<1>8. CASE PostStatus(i, n)' = "outstanding"
  <2>1. PostStatus(i, n)' = PostStatus(i, n)
    BY <1>1, <1>5, <1>8 DEF StatusOf
  <2>2. \A j \in Intents, m \in Numbers : PostStatus(j, m)' = PostStatus(j, m)
    BY <1>3, <2>1
  <2> QED BY <1>1, <2>2 DEF StatusOf
<1> QED BY <1>1, <1>6, <1>7, <1>8

(* If every call that ends without an order made none, the router posts an  *)
(* intent again only when no earlier request of it can be or become an      *)
(* order, over crashes and lost requests.                                   *)
THEOREM RouterSubmissionDiscipline == Spec => SubmissionDiscipline
<1>1. Init => Submission!Init
  BY DEF Init, Submission!Init, PostStatus, Numbers
<1>2. IInv /\ AllAccounted /\ [Next]_vars => [Submission!Next]_StatusOf
  <2> SUFFICES ASSUME IInv, AllAccounted, [Next]_vars
               PROVE  Submission!Next \/ UNCHANGED StatusOf
    OBVIOUS
  <2>1. ASSUME NEW request \in Requests, Post(request)
       PROVE  Submission!Next
    BY <2>1, PostOpens DEF Submission!Next
  <2>2. ASSUME NEW number \in wire, BrokerTakes(number) \/ Dropped(number)
       PROVE  Submission!Next \/ UNCHANGED StatusOf
    BY <2>2, NetworkCloses DEF Submission!Next
  <2>3. CASE UNCHANGED brokerVars
    BY <2>3 DEF brokerVars, StatusOf, PostStatus
  <2> QED BY <2>1, <2>2, <2>3
          DEF Next, vars, Connect, Disconnect, ActivateKillSwitch,
              ResetKillSwitch, Answered, AnsweredUnsaved, Raises, Crash, Restart
<1> QED BY <1>1, <1>2, Invariance, AccountedInvariance, PTL
        DEF Spec, SubmissionDiscipline, Submission!Spec, StatusOf
=============================================================================
