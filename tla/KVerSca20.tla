----------------------------- MODULE KVerSca20 -----------------------------
(***************************************************************************)
(* The scale-to-zero sidecar of one Pod (pkg/kversca20/KVerSca20.py): a    *)
(* proxy whose main thread serves one socket event after the other, and a  *)
(* Timer thread that patches the Pod down when nothing was requested for   *)
(* 30 seconds.  The threads share to_zero_flag and the Timer; the patches  *)
(* of each, label and size, are separate calls to the API server.          *)
(*                                                                         *)
(* External: clients with one request at a time on a connection, the app   *)
(* container, which may take for ever, and the API server.  A request and  *)
(* its answer reach the proxy in one or two reads (BUFFERSIZE) each; a read*)
(* of a request counts if GET, POST, PUT, PATCH or DELETE is in its text.  *)
(* A new connection has an address that no earlier one had.                *)
(* thread_to_zero, the second thread, dies at its first statement: it reads*)
(* an attribute that nothing has set.                                      *)
(***************************************************************************)
EXTENDS Integers, FiniteSets

CONSTANTS Clients,
          Plain,      \* the clients whose requests are one read each, which counts
          Limits      \* how many requests and faults may occur

Kinds == {"requests", "faults"}
ASSUME ClientAssumption == IsFiniteSet(Clients) /\ Plain \subseteq Clients
ASSUME LimitAssumption == Limits \in [Kinds -> Nat]

VARIABLES
  size, label,          \* the Pod: "default" or "zero"; who scales it
  to_zero_flag,
  timer,                \* self.t: what its thread is about to do
  main,                 \* the event that the main thread handles, and how far it is
  reqs_in_queue, reqs_per_client,
  pending,              \* how often each client is in clients_req_pending_list
  conn,                 \* the connection of each client
  request,              \* where the request (the answer) of each client is
  overlapped,           \* history: an event was handled while vscale_to_zero ran
  budget

pod      == <<size, label>>
counters == <<reqs_in_queue, reqs_per_client, pending>>
clients  == <<conn, request>>
vars     == <<pod, to_zero_flag, timer, main, counters, clients, overlapped, budget>>

Select == [at |-> "select"]
Event  == [kind : {"accept", "request", "response", "close"}, client : Clients]
MainState == {Select} \cup [at : {"scale", "label", "handle"}, event : Event]

(* vscale_to_zero is running: too late to cancel. *)
Firing == timer \in {"label", "scale"}

Spend(kind) ==
  /\ budget[kind] > 0
  /\ budget' = [budget EXCEPT ![kind] = @ - 1]

----------------------------------------------------------------------------
(* The Timer thread: vscale_to_zero. *)

(* Not cancelled for 30 seconds. *)
Expire ==
  /\ timer = "armed"
  /\ timer' = "label"
  /\ to_zero_flag' = TRUE
  /\ UNCHANGED <<pod, main, counters, clients, budget>>

LabelZero ==
  /\ timer = "label"
  /\ label' = "VerSca20"
  /\ timer' = "scale"
  /\ UNCHANGED <<size, to_zero_flag, main, counters, clients, budget>>

ScaleZero ==
  /\ timer = "scale"
  /\ size' = "zero"
  /\ timer' = "dead"
  /\ UNCHANGED <<label, to_zero_flag, main, counters, clients, budget>>

(* A failed patch is an exception that ends the thread. *)
PatchFails ==
  /\ Firing /\ Spend("faults")
  /\ timer' = "dead"
  /\ UNCHANGED <<pod, to_zero_flag, main, counters, clients>>

(* A cancelled Timer is alive until its thread has run once more. *)
EndCancelled ==
  /\ timer = "cancelled"
  /\ timer' = "dead"
  /\ UNCHANGED <<pod, to_zero_flag, main, counters, clients, budget>>

----------------------------------------------------------------------------
(* The main thread. *)

Ready ==
  {e \in Event :
     \/ e.kind = "accept" /\ conn[e.client] = "connecting"
     \/ e.kind = "request" /\ request[e.client] \in {"sent", "rest"}
     \/ e.kind = "response" /\ request[e.client] \in {"answered", "more"}
     \/ e.kind = "close" /\ conn[e.client] = "closing" /\ request[e.client] # "sent"}

(* Variant: only a new connection wakes the container. *)
WakesOnAccept(e) == to_zero_flag /\ e.kind = "accept"

(* Every event but the end of a connection wakes the container first. *)
Wakes(e) == to_zero_flag /\ e.kind # "close"

(* select and recv; then the test of to_zero_flag, in main_loop or on_recv. *)
TakeEvent ==
  /\ main = Select
  /\ \E e \in Ready :
       \/ /\ Wakes(e)
          /\ to_zero_flag' = FALSE
          /\ main' = [at |-> "scale", event |-> e]
       \/ /\ ~Wakes(e)
          /\ main' = [at |-> "handle", event |-> e]
          /\ UNCHANGED to_zero_flag
  /\ UNCHANGED <<pod, timer, counters, clients, budget>>

(* vscale_from_zero: size, then label. *)
ScaleUp ==
  /\ main.at = "scale"
  /\ size' = "default"
  /\ main' = [at |-> "label", event |-> main.event]
  /\ UNCHANGED <<label, to_zero_flag, timer, counters, clients, budget>>

LabelUp ==
  /\ main.at = "label"
  /\ label' = "Kosmos"
  /\ main' = [at |-> "handle", event |-> main.event]
  /\ UNCHANGED <<size, to_zero_flag, timer, counters, clients, budget>>

(* Variant: the timer is not cancelled by a request. *)
TimerNotCancelled(t, queued) == IF queued = 0 /\ t = "dead" THEN "armed" ELSE t

(* timer_controlled_by_reqs: cancel() has an effect on a waiting Timer only. *)
TimerControlledBy(t, queued) ==
  IF queued = 0 /\ t = "dead" THEN "armed"
  ELSE IF queued # 0 /\ t = "armed" THEN "cancelled"
  ELSE t

Handling(kind) == main.at = "handle" /\ main.event.kind = kind

(* The app may refuse the connection. *)
OnAccept ==
  LET c == main.event.client IN
  /\ Handling("accept")
  /\ \/ /\ conn' = [conn EXCEPT ![c] = "open"]
        /\ UNCHANGED budget
     \/ /\ conn' = [conn EXCEPT ![c] = "none"]
        /\ Spend("faults")
  /\ main' = Select
  /\ UNCHANGED <<pod, to_zero_flag, timer, counters, request>>

(* What the code keeps of a client: the length of the queue, the part of it *)
(* that is the client's, and its entries in the list.                      *)
Counts(c) == [queue |-> reqs_in_queue, own |-> reqs_per_client[c], listed |-> pending[c]]
Store(c, n) ==
  /\ reqs_in_queue' = n.queue
  /\ reqs_per_client' = [reqs_per_client EXCEPT ![c] = n.own]
  /\ pending' = [pending EXCEPT ![c] = n.listed]

(* A read of a request, which counts or does not. *)
AfterRequest(n, counts) ==
  IF counts THEN [queue |-> n.queue + 1, own |-> n.own + 1, listed |-> n.listed + 1] ELSE n

(* Variant: every part of an answer is counted. *)
AfterEveryPart(n) == [n EXCEPT !.queue = @ - 1, !.own = @ - 1]

(* A part of an answer counts while its client is in the pending list. *)
AfterAnswer(n) ==
  IF n.listed > 0
  THEN [queue |-> n.queue - 1, own |-> n.own - 1, listed |-> n.listed - 1]
  ELSE n

(* Variant: a client that leaves takes its entries with it, not its count. *)
AfterSilentClose(n) == [n EXCEPT !.listed = 0]

(* A client of the list leaves with all its reads; the entries that the    *)
(* code leaves behind name an address that no connection has any more.     *)
AfterClose(n) ==
  IF n.listed > 0 THEN [queue |-> n.queue - n.own, own |-> 0, listed |-> 0] ELSE n

(* on_close then looks at the timer. *)
TimerAfterClose(t, n) ==
  IF n.listed > 0 THEN TimerControlledBy(t, AfterClose(n).queue) ELSE t

(* Whether a read counts, and where it leaves the request. *)
Matches(c) == IF c \in Plain THEN {TRUE} ELSE BOOLEAN
LeftOf(c) == IF c \notin Plain /\ request[c] = "sent" THEN {"rest", "forwarded"} ELSE {"forwarded"}

OnRequest ==
  LET c == main.event.client IN
  /\ Handling("request")
  /\ \E counts \in Matches(c) :
       LET n == AfterRequest(Counts(c), counts) IN
       Store(c, n) /\ timer' = TimerControlledBy(timer, n.queue)
  /\ \E left \in LeftOf(c) : request' = [request EXCEPT ![c] = left]
  /\ main' = Select
  /\ UNCHANGED <<pod, to_zero_flag, conn, budget>>

(* The connection of c is closed, after n and the timer t. *)
Close(c, n, t) ==
  /\ Store(c, AfterClose(n))
  /\ timer' = TimerAfterClose(t, n)
  /\ conn' = [conn EXCEPT ![c] = "none"]
  /\ request' = [request EXCEPT ![c] = "none"]
  /\ main' = Select

(* The request is counted, cannot be sent on, and on_close takes it back. *)
RequestLost ==
  LET c == main.event.client IN
  /\ Handling("request") /\ Spend("faults")
  /\ \E counts \in Matches(c) :
       LET n == AfterRequest(Counts(c), counts) IN
       Close(c, n, TimerControlledBy(timer, n.queue))
  /\ UNCHANGED <<pod, to_zero_flag>>

OnResponse ==
  LET c == main.event.client
      n == AfterAnswer(Counts(c)) IN
  /\ Handling("response")
  /\ Store(c, n)
  /\ timer' = TimerControlledBy(timer, n.queue)
  /\ \E left \in IF request[c] = "answered" THEN {"more", "none"} ELSE {"none"} :
       request' = [request EXCEPT ![c] = left]
  /\ main' = Select
  /\ UNCHANGED <<pod, to_zero_flag, conn, budget>>

(* The client is gone: its answer is counted, then on_close. *)
ResponseLost ==
  LET c == main.event.client
      n == AfterAnswer(Counts(c)) IN
  /\ Handling("response") /\ Spend("faults")
  /\ Close(c, n, TimerControlledBy(timer, n.queue))
  /\ UNCHANGED <<pod, to_zero_flag>>

OnClose ==
  LET c == main.event.client IN
  /\ Handling("close")
  /\ Close(c, Counts(c), timer)
  /\ UNCHANGED <<pod, to_zero_flag, budget>>

(* An exception in the main thread -- a failed patch, a connection that was *)
(* reset -- ends the process; the container is restarted, and __init__     *)
(* looks at the size of the Pod.                                           *)
Restart ==
  /\ Spend("faults")
  /\ to_zero_flag' = (size = "zero")
  /\ timer' = "armed"
  /\ main' = Select
  /\ reqs_in_queue' = 0
  /\ reqs_per_client' = [c \in Clients |-> 0]
  /\ pending' = [c \in Clients |-> 0]
  /\ conn' = [c \in Clients |-> "none"]
  /\ request' = [c \in Clients |-> "none"]
  /\ UNCHANGED pod

----------------------------------------------------------------------------
(* Clients and the app container. *)

Connect(c) ==
  /\ conn[c] = "none"
  /\ Spend("requests")
  /\ conn' = [conn EXCEPT ![c] = "connecting"]
  /\ UNCHANGED <<pod, to_zero_flag, timer, main, counters, request>>

SendRequest(c) ==
  /\ conn[c] = "open" /\ request[c] = "none"
  /\ Spend("requests")
  /\ request' = [request EXCEPT ![c] = "sent"]
  /\ UNCHANGED <<pod, to_zero_flag, timer, main, counters, conn>>

Answer(c) ==
  /\ request[c] = "forwarded"
  /\ request' = [request EXCEPT ![c] = "answered"]
  /\ UNCHANGED <<pod, to_zero_flag, timer, main, counters, conn, budget>>

Disconnect(c) ==
  /\ conn[c] = "open"
  /\ conn' = [conn EXCEPT ![c] = "closing"]
  /\ UNCHANGED <<pod, to_zero_flag, timer, main, counters, request, budget>>

----------------------------------------------------------------------------
Init ==
  /\ size = "default" /\ label = "Kosmos"
  /\ to_zero_flag = FALSE
  /\ timer = "armed"
  /\ main = Select
  /\ reqs_in_queue = 0
  /\ reqs_per_client = [c \in Clients |-> 0]
  /\ pending = [c \in Clients |-> 0]
  /\ conn = [c \in Clients |-> "none"]
  /\ request = [c \in Clients |-> "none"]
  /\ overlapped = FALSE
  /\ budget = Limits

(* The history variable follows every step. *)
Remember == overlapped' = (overlapped \/ (Firing' /\ main'.at # "select"))

TimerStep == (Expire \/ LabelZero \/ ScaleZero \/ EndCancelled) /\ Remember
MainStep  == (TakeEvent \/ ScaleUp \/ LabelUp \/ OnAccept \/ OnRequest \/ OnResponse \/ OnClose)
               /\ Remember
Fault     == (PatchFails \/ RequestLost \/ ResponseLost \/ Restart) /\ Remember
ClientStep(c) == (Connect(c) \/ SendRequest(c) \/ Answer(c) \/ Disconnect(c)) /\ Remember

Next == TimerStep \/ MainStep \/ Fault \/ \E c \in Clients : ClientStep(c)

Spec == Init /\ [][Next]_vars

(* The two threads run and 30 seconds pass; neither the clients nor the app *)
(* promise anything.                                                       *)
FairSpec == Spec /\ WF_vars(TimerStep) /\ WF_vars(MainStep)

----------------------------------------------------------------------------
(* Properties. *)

TypeOK ==
  /\ size \in {"default", "zero"} /\ label \in {"Kosmos", "VerSca20"}
  /\ to_zero_flag \in BOOLEAN
  /\ timer \in {"armed", "cancelled", "label", "scale", "dead"}
  /\ main \in MainState
  /\ reqs_in_queue \in Nat
  /\ reqs_per_client \in [Clients -> Nat]
  /\ pending \in [Clients -> Nat]
  /\ conn \in [Clients -> {"none", "connecting", "open", "closing"}]
  /\ request \in [Clients -> {"none", "sent", "rest", "forwarded", "answered", "more"}]
  /\ overlapped \in BOOLEAN
  /\ budget \in [Kinds -> Nat]

(* The whole request is in the app, and nothing of its answer was read. *)
Unanswered(c) == request[c] \in {"forwarded", "answered"}

(* The reads that were counted and not taken back yet. *)
CountedReads == UNION {{c} \X (1 .. reqs_per_client[c]) : c \in Clients}

(* The counter on which scaling to zero depends is kept in three places,   *)
(* requests and answers come in parts, and a client may leave at any moment*)
(* (KVerSca20.py 201-296).  It is the number of the reads that count; a    *)
(* client whose requests are one such read each has one while its request  *)
(* is in the app and none otherwise, and nobody who has left has any.      *)
RequestsCounted ==
  /\ reqs_in_queue = Cardinality(CountedReads)
  /\ \A c \in Plain : reqs_per_client[c] = IF Unanswered(c) THEN 1 ELSE 0
  /\ \A c \in Clients : conn[c] \in {"none", "connecting"} => reqs_per_client[c] = 0

(* The timer is not left running over a counted request (292-296). *)
NoTimerOverRequests == timer = "armed" => reqs_in_queue = 0

(* "When an app container is in "zero" state and receives a request, it is *)
(* scaled up" (57-58): a request does not wait at size zero.               *)
ScalesFromZero ==
  \A c \in Clients :
    Unanswered(c) /\ size = "zero" ~> ~Unanswered(c) \/ size = "default"

Waiting(c) == Unanswered(c) /\ reqs_per_client[c] > 0

(* It is so for a request that was counted, unless an event was handled    *)
(* while vscale_to_zero was running, whose patches come without regard to  *)
(* to_zero_flag (111-137).                                                 *)
ScalesUnlessOverlapped ==
  \A c \in Clients :
    Waiting(c) /\ size = "zero" ~> ~Waiting(c) \/ size = "default" \/ overlapped
=============================================================================
