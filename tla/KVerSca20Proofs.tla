-------------------------- MODULE KVerSca20Proofs --------------------------
(***************************************************************************)
(* Theorems about KVerSca20, for any number of clients, requests, failures *)
(* and restarts: the counters agree with the requests that are in the app, *)
(* and the timer is not armed over one.                                    *)
(***************************************************************************)
EXTENDS KVerSca20, FiniteSetTheorems, TLAPS

(* The reads of one client that count, and those of the others. *)
Own(c) == {c} \X (1 .. reqs_per_client[c])
OfOthers(c) == UNION {Own(d) : d \in Clients \ {c}}

(* An event of a connection is handled in the state it was found in: the    *)
(* client cannot take its bytes back, and the app answers once.            *)
EventSound ==
  main.at # "select" =>
    /\ main.event.kind = "accept" => conn[main.event.client] = "connecting"
    /\ main.event.kind = "request" => request[main.event.client] \in {"sent", "rest"}
    /\ main.event.kind = "response" => request[main.event.client] \in {"answered", "more"}

(* A request needs a connection, and a plain one has no second part. *)
RequestSound ==
  /\ \A c \in Clients : request[c] # "none" => conn[c] \in {"open", "closing"}
  /\ \A c \in Plain : request[c] # "rest"

(* The count per client and the list of pending clients agree. *)
ListSound ==
  /\ IsFiniteSet(CountedReads)
  /\ \A c \in Clients : pending[c] = reqs_per_client[c]

Counted == RequestsCounted /\ ListSound
IInv == TypeOK /\ EventSound /\ RequestSound /\ Counted /\ NoTimerOverRequests

----------------------------------------------------------------------------
(* Facts about the definitions. *)

(* While it handles an event, the main thread knows its client. *)
LEMMA HandledType ==
  ASSUME TypeOK, NEW kind, Handling(kind)
  PROVE  /\ main.event \in Event /\ main.event.client \in Clients
         /\ main.at = "handle" /\ main.event.kind = kind
BY DEF TypeOK, MainState, Select, Event, Handling

(* What timer_controlled_by_reqs makes of the timer. *)
LEMMA TimerControlledFacts ==
  ASSUME NEW t \in {"armed", "cancelled", "label", "scale", "dead"}, NEW n \in Nat
  PROVE  /\ TimerControlledBy(t, n) \in {"armed", "cancelled", "label", "scale", "dead"}
         /\ TimerControlledBy(t, n) = "armed" => n = 0
BY DEF TimerControlledBy

----------------------------------------------------------------------------
(* Initial states. *)

LEMMA InitIInv == Init => IInv
<1> SUFFICES ASSUME Init PROVE IInv
  OBVIOUS
<1>1. TypeOK
  BY LimitAssumption DEF Init, TypeOK, MainState, Select
<1>2. CountedReads = {}
  BY DEF Init, CountedReads
<1>3. Counted
  BY <1>2, FS_EmptySet, ClientAssumption
  DEF Counted, RequestsCounted, ListSound, Init, Unanswered
<1>4. EventSound /\ RequestSound /\ NoTimerOverRequests
  BY ClientAssumption DEF Init, EventSound, RequestSound, NoTimerOverRequests, Select
<1> QED
  BY <1>1, <1>3, <1>4 DEF IInv

----------------------------------------------------------------------------
(* The counters. *)

(* Pairs of one thing and the numbers up to n are n pairs. *)
LEMMA RowOfPairs ==
  ASSUME NEW c, NEW n \in Nat
  PROVE  IsFiniteSet({c} \X (1 .. n)) /\ Cardinality({c} \X (1 .. n)) = n
<1>1. IsFiniteSet(1 .. n) /\ Cardinality(1 .. n) = n
  BY FS_Interval
<1>2. IsFiniteSet({c}) /\ Cardinality({c}) = 1
  BY FS_Singleton
<1> QED
  BY <1>1, <1>2, FS_Product

(* The queue is what the others have in it and what one client has.        *)
LEMMA QueueSplit ==
  ASSUME TypeOK, NEW c \in Clients, IsFiniteSet(OfOthers(c))
  PROVE  /\ IsFiniteSet(CountedReads) /\ Cardinality(OfOthers(c)) \in Nat
         /\ Cardinality(CountedReads) = Cardinality(OfOthers(c)) + reqs_per_client[c]
<1>1. CountedReads = OfOthers(c) \cup Own(c)
  BY DEF CountedReads, OfOthers, Own
<1>2. OfOthers(c) \cap Own(c) = {}
  BY DEF OfOthers, Own
<1>3. IsFiniteSet(Own(c)) /\ Cardinality(Own(c)) = reqs_per_client[c]
  BY RowOfPairs DEF TypeOK, Own
<1>4. Cardinality(OfOthers(c)) \in Nat /\ reqs_per_client[c] \in Nat
  BY FS_CardinalityType DEF TypeOK
<1>5. /\ IsFiniteSet(CountedReads)
      /\ Cardinality(CountedReads) = Cardinality(OfOthers(c)) + reqs_per_client[c] - 0
  BY <1>1, <1>2, <1>3, FS_Union, FS_EmptySet
<1> QED
  BY <1>4, <1>5

(* When the counts of one client change and the queue changes as much, the *)
(* queue is still the number of the reads that count.                      *)
LEMMA QueueFollows ==
  ASSUME TypeOK, Counted, NEW c \in Clients, NEW n \in Nat, NEW q,
         reqs_per_client' = [reqs_per_client EXCEPT ![c] = n],
         reqs_in_queue' = q, q = reqs_in_queue + n - reqs_per_client[c]
  PROVE  IsFiniteSet(CountedReads') /\ reqs_in_queue' = Cardinality(CountedReads')
<1> DEFINE Others == OfOthers(c)
<1>1. IsFiniteSet(Others)
  <2>1. Others \subseteq CountedReads
    BY DEF OfOthers, CountedReads, Own
  <2> QED
    BY <2>1, FS_Subset DEF Counted, ListSound
<1>2. /\ Cardinality(Others) \in Nat /\ reqs_per_client[c] \in Nat
      /\ reqs_in_queue = Cardinality(Others) + reqs_per_client[c]
  BY <1>1, QueueSplit DEF Counted, RequestsCounted, TypeOK
<1>3. \A d \in Clients \ {c} : reqs_per_client'[d] = reqs_per_client[d]
  BY DEF TypeOK
<1>4. reqs_per_client'[c] = n
  BY DEF TypeOK
<1> DEFINE Row == {c} \X (1 .. n)
<1>5. CountedReads' = Others \cup Row
  BY <1>3, <1>4 DEF CountedReads, OfOthers, Own
<1>6. Others \cap Row = {}
  BY DEF OfOthers, Own
<1>7. IsFiniteSet(Row) /\ Cardinality(Row) = n
  BY RowOfPairs
<1>8. /\ IsFiniteSet(CountedReads')
      /\ Cardinality(CountedReads') = Cardinality(Others) + n - 0
  <2> HIDE DEF Others, Row
  <2> QED
    BY <1>1, <1>5, <1>6, <1>7, FS_Union, FS_EmptySet
<1>9. q = Cardinality(Others) + n
  BY <1>2
<1> QED
  BY <1>2, <1>8, <1>9

(* Nothing is counted or taken back. *)
LEMMA NoneMoves ==
  ASSUME TypeOK, Counted, UNCHANGED counters,
         \A c \in Plain : Unanswered(c)' <=> Unanswered(c),
         \A c \in Clients : conn'[c] \in {"none", "connecting"} =>
                              conn[c] \in {"none", "connecting"} \/ reqs_per_client[c] = 0
  PROVE  Counted'
BY DEF Counted, RequestsCounted, ListSound, CountedReads, counters

(* The counts of one client are stored, of which one read was added or     *)
(* taken back, or all of them.                                             *)
LEMMA StoreCounted ==
  ASSUME TypeOK, Counted, NEW c \in Clients, NEW n, Store(c, n),
         n.own \in Nat, n.listed = n.own,
         n.queue = reqs_in_queue + n.own - reqs_per_client[c],
         \A d \in Clients \ {c} : request'[d] = request[d] /\ conn'[d] = conn[d],
         c \in Plain => n.own = IF Unanswered(c)' THEN 1 ELSE 0,
         conn'[c] \in {"none", "connecting"} => n.own = 0
  PROVE  Counted'
<1>1. IsFiniteSet(CountedReads') /\ reqs_in_queue' = Cardinality(CountedReads')
  BY QueueFollows DEF Store
<1>2. /\ \A d \in Clients \ {c} : reqs_per_client'[d] = reqs_per_client[d] /\ pending'[d] = pending[d]
      /\ reqs_per_client'[c] = n.own /\ pending'[c] = n.own
  BY DEF Store, TypeOK
<1>3. \A d \in Clients \ {c} : Unanswered(d)' <=> Unanswered(d)
  BY DEF Unanswered
<1>4. \A d \in Plain : reqs_per_client'[d] = IF Unanswered(d)' THEN 1 ELSE 0
  BY <1>2, <1>3, ClientAssumption DEF Counted, RequestsCounted
<1>5. \A d \in Clients : conn'[d] \in {"none", "connecting"} => reqs_per_client'[d] = 0
  BY <1>2 DEF Counted, RequestsCounted
<1>6. \A d \in Clients : pending'[d] = reqs_per_client'[d]
  BY <1>2 DEF Counted, ListSound
<1> QED
  BY <1>1, <1>4, <1>5, <1>6 DEF Counted, RequestsCounted, ListSound

(* What the code has of a client, and what it makes of it. *)
LEMMA CountsFacts ==
  ASSUME TypeOK, Counted, NEW c \in Clients
  PROVE  /\ Counts(c).own \in Nat /\ Counts(c).listed = Counts(c).own
         /\ Counts(c).queue = reqs_in_queue /\ reqs_in_queue \in Nat
         /\ Counts(c).own = reqs_per_client[c]
BY DEF TypeOK, Counted, ListSound, Counts

LEMMA RequestFacts ==
  ASSUME TypeOK, Counted, NEW c \in Clients, NEW counts \in Matches(c)
  PROVE  LET n == AfterRequest(Counts(c), counts) IN
         /\ n.own \in Nat /\ n.listed = n.own /\ n.queue \in Nat
         /\ n.queue = reqs_in_queue + n.own - reqs_per_client[c]
         /\ c \in Plain => n.own = reqs_per_client[c] + 1
<1> DEFINE k == Counts(c)
<1>1. /\ k.own \in Nat /\ k.listed = k.own /\ k.queue = reqs_in_queue
      /\ reqs_in_queue \in Nat /\ k.own = reqs_per_client[c]
  BY CountsFacts
<1>2. counts \in BOOLEAN /\ (c \in Plain => counts)
  BY DEF Matches
<1> HIDE DEF k
<1> DEFINE n == AfterRequest(k, counts)
<1>3. /\ counts => n.own = k.own + 1 /\ n.listed = k.listed + 1 /\ n.queue = k.queue + 1
      /\ ~counts => n = k
  BY DEF AfterRequest
<1> HIDE DEF n
<1>4. /\ n.own \in Nat /\ n.listed = n.own /\ n.queue \in Nat
      /\ n.queue = reqs_in_queue + n.own - reqs_per_client[c]
      /\ c \in Plain => n.own = reqs_per_client[c] + 1
  BY <1>1, <1>2, <1>3
<1> QED
  BY <1>4 DEF n, k

LEMMA AnswerFacts ==
  ASSUME TypeOK, Counted, NEW c \in Clients
  PROVE  LET n == AfterAnswer(Counts(c)) IN
         /\ n.own \in Nat /\ n.listed = n.own
         /\ n.queue = reqs_in_queue + n.own - reqs_per_client[c]
         /\ c \in Plain => n.own = 0
<1>1. c \in Plain => reqs_per_client[c] \in {0, 1}
  BY DEF Counted, RequestsCounted
<1> QED
  BY <1>1, CountsFacts DEF AfterAnswer

LEMMA CloseFacts ==
  ASSUME NEW n, n.own \in Nat, n.listed = n.own, NEW k \in Nat, NEW q \in Nat,
         n.queue = q + n.own - k
  PROVE  LET m == AfterClose(n) IN
         m.own = 0 /\ m.listed = 0 /\ m.queue = q - k
BY DEF AfterClose

(* However the connection is closed, the client is not counted any more. *)
LEMMA CloseCounted ==
  ASSUME TypeOK, Counted, NEW c \in Clients, NEW n, NEW t, Close(c, n, t),
         n.own \in Nat, n.listed = n.own,
         n.queue = reqs_in_queue + n.own - reqs_per_client[c]
  PROVE  Counted'
<1> DEFINE m == AfterClose(n)
<1>1. reqs_in_queue \in Nat /\ reqs_per_client[c] \in Nat
  BY DEF TypeOK
<1>2. m.own = 0 /\ m.listed = 0 /\ m.queue = reqs_in_queue - reqs_per_client[c]
  BY <1>1, CloseFacts
<1>3. Store(c, m)
  BY DEF Close
<1>4. \A d \in Clients \ {c} : request'[d] = request[d] /\ conn'[d] = conn[d]
  BY DEF Close, TypeOK
<1>5. ~Unanswered(c)'
  BY DEF Close, TypeOK, Unanswered
<1> HIDE DEF m
<1> QED
  BY <1>1, <1>2, <1>3, <1>4, <1>5, StoreCounted

(* A request, or the rest of it, is forwarded. *)
LEMMA RequestCounted ==
  ASSUME IInv, OnRequest
  PROVE  Counted'
<1>c. PICK c \in Clients : c = main.event.client
  BY HandledType DEF IInv, OnRequest
<1>1. request[c] \in {"sent", "rest"} /\ ~Unanswered(c)
  BY <1>c, HandledType DEF IInv, OnRequest, EventSound, Unanswered
<1>2. PICK counts \in Matches(c) : Store(c, AfterRequest(Counts(c), counts))
  BY <1>c DEF OnRequest
<1> DEFINE n == AfterRequest(Counts(c), counts)
<1>3. /\ n.own \in Nat /\ n.listed = n.own
      /\ n.queue = reqs_in_queue + n.own - reqs_per_client[c]
      /\ c \in Plain => n.own = reqs_per_client[c] + 1
  BY <1>1, RequestFacts DEF IInv
<1>4. PICK left \in LeftOf(c) : request' = [request EXCEPT ![c] = left]
  BY <1>c DEF OnRequest
<1>5. conn' = conn /\ conn[c] \in {"open", "closing"}
  BY <1>1 DEF OnRequest, IInv, RequestSound
<1>6. c \in Plain => n.own = IF Unanswered(c)' THEN 1 ELSE 0
  <2>1. c \in Plain => reqs_per_client[c] = 0
    BY <1>1 DEF IInv, Counted, RequestsCounted
  <2>2. c \in Plain => Unanswered(c)'
    BY <1>1, <1>4 DEF LeftOf, Unanswered, IInv, TypeOK
  <2> HIDE DEF n
  <2> QED
    BY <1>3, <2>1, <2>2
<1>7. \A d \in Clients \ {c} : request'[d] = request[d] /\ conn'[d] = conn[d]
  BY <1>4, <1>5 DEF IInv, TypeOK
<1> HIDE DEF n
<1> QED
  BY <1>1, <1>2, <1>3, <1>5, <1>6, <1>7, StoreCounted DEF IInv, n

(* A part of an answer is passed on. *)
LEMMA AnswerCounted ==
  ASSUME IInv, OnResponse
  PROVE  Counted'
<1>c. PICK c \in Clients : c = main.event.client
  BY HandledType DEF IInv, OnResponse
<1> DEFINE n == AfterAnswer(Counts(c))
<1>1. request[c] \in {"answered", "more"}
  BY <1>c, HandledType DEF IInv, OnResponse, EventSound
<1>2. /\ n.own \in Nat /\ n.listed = n.own
      /\ n.queue = reqs_in_queue + n.own - reqs_per_client[c]
      /\ c \in Plain => n.own = 0
  BY <1>1, AnswerFacts DEF IInv
<1>3. Store(c, n)
  BY <1>c DEF OnResponse
<1>4. PICK left \in {"more", "none"} : request' = [request EXCEPT ![c] = left]
  BY <1>c DEF OnResponse
<1>5. conn' = conn /\ conn[c] \in {"open", "closing"}
  BY <1>1 DEF OnResponse, IInv, RequestSound
<1>6. ~Unanswered(c)'
  BY <1>1, <1>4 DEF Unanswered, IInv, TypeOK
<1>7. \A d \in Clients \ {c} : request'[d] = request[d] /\ conn'[d] = conn[d]
  BY <1>4, <1>5 DEF IInv, TypeOK
<1> HIDE DEF n
<1> QED
  BY <1>1, <1>2, <1>3, <1>5, <1>6, <1>7, StoreCounted DEF IInv

(* Every step keeps the counters right. *)
LEMMA CountStep ==
  ASSUME IInv, [Next]_vars
  PROVE  Counted'
<1> USE DEF IInv
<1>1. CASE UNCHANGED <<counters, clients>>
  BY <1>1, NoneMoves DEF Unanswered, clients
<1>2. CASE OnRequest
  BY <1>2, RequestCounted
<1>3. CASE OnResponse
  BY <1>3, AnswerCounted
<1>4. CASE RequestLost
  <2> DEFINE c == main.event.client
  <2>1. c \in Clients
    BY <1>4, HandledType DEF RequestLost
  <2>2. PICK counts \in Matches(c) :
          LET n == AfterRequest(Counts(c), counts) IN
          Close(c, n, TimerControlledBy(timer, n.queue))
    BY <1>4 DEF RequestLost
  <2> QED
    BY <2>1, <2>2, RequestFacts, CloseCounted
<1>5. CASE ResponseLost
  <2> DEFINE c == main.event.client
  <2> DEFINE n == AfterAnswer(Counts(c))
  <2>1. c \in Clients
    BY <1>5, HandledType DEF ResponseLost
  <2>2. Close(c, n, TimerControlledBy(timer, n.queue))
    BY <1>5 DEF ResponseLost
  <2> QED
    BY <2>1, <2>2, AnswerFacts, CloseCounted
<1>6. CASE OnClose
  <2> DEFINE c == main.event.client
  <2>1. c \in Clients /\ Close(c, Counts(c), timer)
    BY <1>6, HandledType DEF OnClose
  <2>2. Counts(c).queue = reqs_in_queue + Counts(c).own - reqs_per_client[c]
    BY <2>1, CountsFacts
  <2> QED
    BY <2>1, <2>2, CountsFacts, CloseCounted
<1>7. CASE Restart
  <2>1. CountedReads' = {}
    BY <1>7 DEF Restart, CountedReads
  <2> QED
    BY <1>7, <2>1, FS_EmptySet, ClientAssumption
    DEF Restart, Unanswered, Counted, RequestsCounted, ListSound
<1>8. CASE OnAccept
  <2> DEFINE c == main.event.client
  <2>1. c \in Clients /\ conn[c] = "connecting"
    BY <1>8, HandledType DEF OnAccept, EventSound
  <2>2. UNCHANGED counters /\ request' = request
    BY <1>8 DEF OnAccept
  <2>3. \A d \in Clients : conn'[d] \in {"none", "connecting"} => conn[d] \in {"none", "connecting"}
    BY <1>8, <2>1 DEF OnAccept, TypeOK
  <2> QED
    BY <2>2, <2>3, NoneMoves DEF Unanswered
<1>9. ASSUME NEW c \in Clients, ClientStep(c) PROVE Counted'
  <2>1. \A d \in Clients : Unanswered(d)' <=> Unanswered(d)
    BY <1>9 DEF ClientStep, Connect, Disconnect, SendRequest, Answer, TypeOK, Unanswered
  <2>2. UNCHANGED counters
    BY <1>9 DEF ClientStep, Connect, Disconnect, SendRequest, Answer
  <2>3. \A d \in Clients : conn'[d] \in {"none", "connecting"} => conn[d] \in {"none", "connecting"}
    BY <1>9 DEF ClientStep, Connect, Disconnect, SendRequest, Answer, TypeOK
  <2> QED
    BY <2>1, <2>2, <2>3, NoneMoves, ClientAssumption
<1> QED
  BY <1>1, <1>2, <1>3, <1>4, <1>5, <1>6, <1>7, <1>8, <1>9
  DEF Next, TimerStep, MainStep, Fault, vars,
      Expire, LabelZero, ScaleZero, EndCancelled, PatchFails, TakeEvent, ScaleUp, LabelUp

----------------------------------------------------------------------------
(* The event that is handled, and the timer. *)

LEMMA EventStep ==
  ASSUME IInv, [Next]_vars
  PROVE  EventSound'
<1> USE DEF IInv, EventSound
<1>1. CASE UNCHANGED <<main, clients>>
  BY <1>1 DEF clients
<1>2. CASE TakeEvent
  <2>1. PICK e \in Ready : main'.event = e
    BY <1>2 DEF TakeEvent
  <2>2. /\ e.kind = "accept" => conn[e.client] = "connecting"
        /\ e.kind = "request" => request[e.client] \in {"sent", "rest"}
        /\ e.kind = "response" => request[e.client] \in {"answered", "more"}
    BY <2>1 DEF Ready
  <2>3. request' = request /\ conn' = conn
    BY <1>2 DEF TakeEvent, clients
  <2> QED
    BY <2>1, <2>2, <2>3
<1>3. CASE ScaleUp \/ LabelUp
  BY <1>3 DEF ScaleUp, LabelUp, clients
<1>4. CASE main' = Select
  BY <1>4 DEF Select
<1>5. ASSUME NEW c \in Clients, ClientStep(c) PROVE EventSound'
  <2>1. main' = main /\ (main.at # "select" => main.event.client \in Clients)
    BY <1>5 DEF ClientStep, Connect, Disconnect, SendRequest, Answer, TypeOK, MainState, Event, Select
  <2>2. \A d \in Clients : request[d] \in {"sent", "rest", "answered", "more"} => request'[d] = request[d]
    BY <1>5 DEF ClientStep, Connect, Disconnect, SendRequest, Answer, TypeOK
  <2>3. \A d \in Clients : conn[d] = "connecting" => conn'[d] = conn[d]
    BY <1>5 DEF ClientStep, Connect, Disconnect, SendRequest, Answer, TypeOK
  <2> QED
    BY <2>1, <2>2, <2>3
<1> QED
  BY <1>1, <1>2, <1>3, <1>4, <1>5
  DEF Next, TimerStep, MainStep, Fault, vars,
      Expire, LabelZero, ScaleZero, EndCancelled, PatchFails,
      OnAccept, OnRequest, RequestLost, OnResponse, ResponseLost, OnClose, Restart, Close

(* A request does not outlive its connection. *)
LEMMA RequestStep ==
  ASSUME IInv, [Next]_vars
  PROVE  RequestSound'
<1> USE DEF IInv, TypeOK, RequestSound
<1>1. CASE UNCHANGED clients
  BY <1>1 DEF clients
<1>2. CASE OnAccept
  <2> DEFINE c == main.event.client
  <2>1. c \in Clients /\ conn[c] = "connecting" /\ request' = request
    BY <1>2, HandledType DEF OnAccept, EventSound
  <2>2. \A d \in Clients : conn[d] \in {"open", "closing"} => conn'[d] = conn[d]
    BY <1>2, <2>1 DEF OnAccept
  <2> QED
    BY <2>1, <2>2
<1>3. CASE OnRequest
  <2> DEFINE c == main.event.client
  <2>1. c \in Clients /\ request[c] \in {"sent", "rest"} /\ conn' = conn
    BY <1>3, HandledType DEF OnRequest, EventSound
  <2>2. PICK left \in LeftOf(c) : request' = [request EXCEPT ![c] = left]
    BY <1>3 DEF OnRequest
  <2>3. c \in Plain => left # "rest"
    BY <2>2 DEF LeftOf
  <2> QED
    BY <2>1, <2>2, <2>3, ClientAssumption
<1>4. CASE OnResponse
  <2> DEFINE c == main.event.client
  <2>1. c \in Clients /\ request[c] \in {"answered", "more"} /\ conn' = conn
    BY <1>4, HandledType DEF OnResponse, EventSound
  <2>2. PICK left \in {"more", "none"} : request' = [request EXCEPT ![c] = left]
    BY <1>4 DEF OnResponse
  <2> QED
    BY <2>1, <2>2, ClientAssumption
<1>5. ASSUME NEW c \in Clients, NEW n, NEW t, Close(c, n, t) PROVE RequestSound'
  BY <1>5, ClientAssumption DEF Close
<1>6. CASE RequestLost \/ ResponseLost \/ OnClose
  BY <1>5, <1>6, HandledType DEF RequestLost, ResponseLost, OnClose
<1>7. CASE Restart
  BY <1>7, ClientAssumption DEF Restart
<1>8. ASSUME NEW c \in Clients, ClientStep(c) PROVE RequestSound'
  BY <1>8, ClientAssumption DEF ClientStep, Connect, Disconnect, SendRequest, Answer
<1> QED
  BY <1>1, <1>2, <1>3, <1>4, <1>6, <1>7, <1>8
  DEF Next, TimerStep, MainStep, Fault, vars,
      Expire, LabelZero, ScaleZero, EndCancelled, PatchFails, TakeEvent, ScaleUp, LabelUp

(* Once the counters are right, reqs_in_queue is a natural number. *)
LEMMA QueueType ==
  ASSUME Counted' PROVE reqs_in_queue' \in Nat
BY FS_CardinalityType DEF Counted, RequestsCounted, ListSound

LEMMA TimerSound ==
  ASSUME IInv, [Next]_vars, Counted'
  PROVE  NoTimerOverRequests' /\ timer' \in {"armed", "cancelled", "label", "scale", "dead"}
<1> USE DEF IInv, TypeOK, NoTimerOverRequests
<1>1. CASE UNCHANGED <<timer, reqs_in_queue>>
  BY <1>1
<1>2. CASE timer' \in {"label", "scale", "dead"}
  BY <1>2
<1>3. CASE timer' = TimerControlledBy(timer, reqs_in_queue')
  BY <1>3, QueueType, TimerControlledFacts
<1>4. ASSUME NEW c \in Clients, NEW n, NEW t, Close(c, n, t),
             t \in {"armed", "cancelled", "label", "scale", "dead"}, t = "armed" => n.queue = 0
      PROVE  NoTimerOverRequests' /\ timer' \in {"armed", "cancelled", "label", "scale", "dead"}
  <2>1. reqs_in_queue' = AfterClose(n).queue /\ timer' = TimerAfterClose(t, n)
    BY <1>4 DEF Close, Store
  <2> QED
    BY <1>4, <2>1, QueueType, TimerControlledFacts DEF TimerAfterClose, AfterClose
<1>5. CASE OnClose
  <2> DEFINE c == main.event.client
  <2>1. c \in Clients /\ Close(c, Counts(c), timer) /\ Counts(c).queue = reqs_in_queue
    BY <1>5, HandledType DEF OnClose, Counts
  <2> QED
    BY <1>4, <2>1
<1>6. CASE Restart
  BY <1>6 DEF Restart
<1>7. CASE OnRequest
  <2> DEFINE c == main.event.client
  <2>1. PICK counts \in Matches(c) :
          LET n == AfterRequest(Counts(c), counts) IN
          Store(c, n) /\ timer' = TimerControlledBy(timer, n.queue)
    BY <1>7 DEF OnRequest
  <2> QED
    BY <1>3, <2>1 DEF Store
<1>8. CASE OnResponse
  BY <1>3, <1>8 DEF OnResponse, Store
<1>9. CASE RequestLost
  <2> DEFINE c == main.event.client
  <2>1. c \in Clients
    BY <1>9, HandledType DEF RequestLost
  <2>2. PICK counts \in Matches(c) :
          LET n == AfterRequest(Counts(c), counts) IN
          Close(c, n, TimerControlledBy(timer, n.queue))
    BY <1>9 DEF RequestLost
  <2>3. AfterRequest(Counts(c), counts).queue \in Nat
    BY <2>1, RequestFacts
  <2> QED
    BY <1>4, <2>1, <2>2, <2>3, TimerControlledFacts
<1>10. CASE ResponseLost
  <2> DEFINE c == main.event.client
  <2> DEFINE n == AfterAnswer(Counts(c))
  <2>1. c \in Clients /\ Close(c, n, TimerControlledBy(timer, n.queue))
    BY <1>10, HandledType DEF ResponseLost
  <2>2. n.queue \in Nat
    <3>1. Counts(c).listed > 0 => reqs_in_queue - 1 \in Nat
      <4>1. IsFiniteSet(OfOthers(c))
        BY FS_Subset DEF Counted, ListSound, OfOthers, Own, CountedReads
      <4>2. Cardinality(OfOthers(c)) \in Nat /\ reqs_in_queue = Cardinality(OfOthers(c)) + reqs_per_client[c]
        BY <2>1, <4>1, QueueSplit DEF Counted, RequestsCounted
      <4> QED
        BY <2>1, <4>2, CountsFacts
    <3> QED
      BY <2>1, <3>1, CountsFacts DEF AfterAnswer, Counts
  <2> HIDE DEF n
  <2> QED
    BY <1>4, <2>1, <2>2, TimerControlledFacts
<1> QED
  BY <1>1, <1>2, <1>5, <1>6, <1>7, <1>8, <1>9, <1>10
  DEF Next, TimerStep, MainStep, Fault, ClientStep, vars, counters,
      Expire, LabelZero, ScaleZero, EndCancelled, PatchFails, TakeEvent, ScaleUp, LabelUp,
      OnAccept, Connect, SendRequest, Answer, Disconnect

----------------------------------------------------------------------------
(* Types. *)

(* The main thread. *)
LEMMA MainType ==
  ASSUME TypeOK, [Next]_vars
  PROVE  main' \in MainState
<1> USE DEF MainState
<1>1. CASE main' = main
  BY <1>1 DEF TypeOK
<1>2. CASE main' = Select
  BY <1>2
<1>3. CASE TakeEvent
  <2>1. PICK e \in Ready : main' \in {[at |-> "scale", event |-> e], [at |-> "handle", event |-> e]}
    BY <1>3 DEF TakeEvent
  <2> QED
    BY <2>1 DEF Ready
<1>4. CASE ScaleUp \/ LabelUp
  <2>1. main.event \in Event
    BY <1>4 DEF ScaleUp, LabelUp, TypeOK, Select
  <2> QED
    BY <1>4, <2>1 DEF ScaleUp, LabelUp
<1> QED
  BY <1>1, <1>2, <1>3, <1>4
  DEF Next, TimerStep, MainStep, Fault, ClientStep, vars,
      Expire, LabelZero, ScaleZero, EndCancelled, PatchFails,
      OnAccept, OnRequest, RequestLost, OnResponse, ResponseLost, OnClose, Restart, Close,
      Connect, SendRequest, Answer, Disconnect

(* What may still happen. *)
LEMMA BudgetType ==
  ASSUME TypeOK, [Next]_vars
  PROVE  budget' \in [Kinds -> Nat]
<1>1. budget' = budget \/ \E kind \in Kinds : Spend(kind)
  BY DEF Kinds, Next, TimerStep, MainStep, Fault, ClientStep, vars,
      Expire, LabelZero, ScaleZero, EndCancelled, PatchFails, TakeEvent, ScaleUp, LabelUp,
      OnAccept, OnRequest, RequestLost, OnResponse, ResponseLost, OnClose, Restart, Close,
      Connect, SendRequest, Answer, Disconnect
<1>2. ASSUME NEW kind \in Kinds, Spend(kind) PROVE budget' \in [Kinds -> Nat]
  BY <1>2 DEF Spend, TypeOK
<1> QED
  BY <1>1, <1>2 DEF TypeOK

(* The counters of a client. *)
LEMMA CountersType ==
  ASSUME IInv, [Next]_vars, Counted'
  PROVE  /\ reqs_in_queue' \in Nat
         /\ reqs_per_client' \in [Clients -> Nat] /\ pending' \in [Clients -> Nat]
<1>1. ASSUME NEW c \in Clients, NEW n, Store(c, n), n.own \in Nat, n.listed = n.own
      PROVE  reqs_per_client' \in [Clients -> Nat] /\ pending' \in [Clients -> Nat]
  BY <1>1 DEF Store, IInv, TypeOK
<1>2. ASSUME NEW c \in Clients, NEW n, NEW t, Close(c, n, t), n.own \in Nat, n.listed = n.own
      PROVE  reqs_per_client' \in [Clients -> Nat] /\ pending' \in [Clients -> Nat]
  BY <1>1, <1>2 DEF Close, AfterClose
<1> DEFINE c == main.event.client
<1>3. CASE UNCHANGED counters
  BY <1>3, QueueType DEF IInv, TypeOK, counters
<1>4. CASE OnRequest
  <2>1. c \in Clients
    BY <1>4, HandledType DEF OnRequest, IInv
  <2>2. PICK counts \in Matches(c) : Store(c, AfterRequest(Counts(c), counts))
    BY <1>4 DEF OnRequest
  <2> QED
    BY <1>1, <2>1, <2>2, RequestFacts, QueueType DEF IInv
<1>5. CASE OnResponse
  <2>1. c \in Clients
    BY <1>5, HandledType DEF OnResponse, IInv
  <2> QED
    BY <1>1, <1>5, <2>1, AnswerFacts, QueueType DEF IInv, OnResponse
<1>6. CASE RequestLost
  <2>1. c \in Clients
    BY <1>6, HandledType DEF RequestLost, IInv
  <2>2. PICK counts \in Matches(c) :
          LET n == AfterRequest(Counts(c), counts) IN
          Close(c, n, TimerControlledBy(timer, n.queue))
    BY <1>6 DEF RequestLost
  <2> QED
    BY <1>2, <2>1, <2>2, RequestFacts, QueueType DEF IInv
<1>7. CASE ResponseLost
  <2>1. c \in Clients
    BY <1>7, HandledType DEF ResponseLost, IInv
  <2> QED
    BY <1>2, <1>7, <2>1, AnswerFacts, QueueType DEF IInv, ResponseLost
<1>8. CASE OnClose
  <2>1. c \in Clients
    BY <1>8, HandledType DEF OnClose, IInv
  <2> QED
    BY <1>2, <1>8, <2>1, CountsFacts, QueueType DEF IInv, OnClose
<1>9. CASE Restart
  BY <1>9 DEF Restart
<1> QED
  BY <1>3, <1>4, <1>5, <1>6, <1>7, <1>8, <1>9
  DEF Next, TimerStep, MainStep, Fault, ClientStep, vars,
      Expire, LabelZero, ScaleZero, EndCancelled, PatchFails, TakeEvent, ScaleUp, LabelUp,
      OnAccept, Connect, SendRequest, Answer, Disconnect

(* Connections and requests. *)
LEMMA ClientsType ==
  ASSUME TypeOK, [Next]_vars
  PROVE  /\ conn' \in [Clients -> {"none", "connecting", "open", "closing"}]
         /\ request' \in [Clients -> {"none", "sent", "rest", "forwarded", "answered", "more"}]
BY DEF TypeOK, Next, TimerStep, MainStep, Fault, ClientStep, vars, clients, Close, LeftOf,
      Expire, LabelZero, ScaleZero, EndCancelled, PatchFails, TakeEvent, ScaleUp, LabelUp,
      OnAccept, OnRequest, RequestLost, OnResponse, ResponseLost, OnClose, Restart, Close,
      Connect, SendRequest, Answer, Disconnect

(* The Pod, the flag and the history variable. *)
LEMMA FlagsType ==
  ASSUME TypeOK, [Next]_vars
  PROVE  /\ size' \in {"default", "zero"} /\ label' \in {"Kosmos", "VerSca20"}
         /\ to_zero_flag' \in BOOLEAN /\ overlapped' \in BOOLEAN
BY DEF TypeOK, Next, TimerStep, MainStep, Fault, ClientStep, vars, pod, Remember, Firing,
      Expire, LabelZero, ScaleZero, EndCancelled, PatchFails, TakeEvent, ScaleUp, LabelUp,
      OnAccept, OnRequest, RequestLost, OnResponse, ResponseLost, OnClose, Restart, Close,
      Connect, SendRequest, Answer, Disconnect

----------------------------------------------------------------------------
LEMMA NextIInv == IInv /\ [Next]_vars => IInv'
<1> SUFFICES ASSUME IInv, [Next]_vars PROVE IInv'
  OBVIOUS
<1>1. Counted' /\ EventSound' /\ RequestSound'
  BY CountStep, EventStep, RequestStep
<1>2. NoTimerOverRequests'
  BY <1>1, TimerSound
<1>3. TypeOK'
  BY <1>1, TimerSound, MainType, BudgetType, CountersType, ClientsType, FlagsType
  DEF IInv, TypeOK
<1> QED
  BY <1>1, <1>2, <1>3 DEF IInv

(* Every reachable state is well typed: in particular, the counters of the  *)
(* sidecar never become negative (KVerSca20.py 222, 279).                  *)
THEOREM SidecarTypeCorrect == Spec => []TypeOK
<1>1. IInv => TypeOK
  BY DEF IInv
<1> QED
  BY <1>1, InitIInv, NextIInv, PTL DEF Spec

(* The length of the queue is the number of the reads that count, a client *)
(* whose requests are one such read each has one while its request is in   *)
(* the app and none otherwise, and nobody who left has any: for any number *)
(* of clients that come and leave, and any failures (KVerSca20.py 201-296).*)
THEOREM RequestsAreCounted == Spec => []RequestsCounted
<1>1. IInv => RequestsCounted
  BY DEF IInv, Counted
<1> QED
  BY <1>1, InitIInv, NextIInv, PTL DEF Spec

(* The timer that scales to zero is never armed over a request             *)
(* (KVerSca20.py 292-296).                                                 *)
THEOREM NoTimerIsArmed == Spec => []NoTimerOverRequests
<1>1. IInv => NoTimerOverRequests
  BY DEF IInv
<1> QED
  BY <1>1, InitIInv, NextIInv, PTL DEF Spec
=============================================================================
