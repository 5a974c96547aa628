------------------------------ MODULE LivePush ------------------------------
(***************************************************************************)
(* The path from an ingest to an open dashboard: run_ingest invalidates    *)
(* the response cache and broadcasts ingest_done (backend/events.py), an   *)
(* SSE generator per connection relays it (event_stream of backend/api.py),*)
(* and the page fetches /api/dashboard anew (src/app.jsx).                 *)
(*                                                                         *)
(* The cache holds the one entry of that dashboard; ResponseCache has its  *)
(* finer steps.  A payload has no content that matters: queues are counts. *)
(* A database version stands for the dashboard computed from it.           *)
(***************************************************************************)
EXTENDS Integers, Sequences, Functions

CONSTANTS
  Browser,     \* open dashboards
  QueueSize,   \* maxsize of a subscriber's queue
  MaxData,     \* bound: ingests that change data
  MaxStreams,  \* bound: streams a browser opens
  MaxWire,     \* bound: messages a stream buffers towards its browser
  MaxInFlight  \* bound: fetches of one browser at the same time

ASSUME PushBoundAssumption ==
  {QueueSize, MaxData, MaxStreams, MaxWire, MaxInFlight} \subseteq Nat \ {0}

Version == 0 .. MaxData

VARIABLES
  data,       \* what the last finished ingest left in the database
  run,        \* run_ingest: idle, data changed, cache invalidated
  entry,      \* the cached dashboard: its version, and does it read as fresh?
  refresh,    \* the background refresh: none, queued, or the version it read
  callbacks,  \* _put_all calls handed to the event loop: their targets
  subscribed, \* _subscribers, as <<browser, number of its stream>>
  stream,     \* the number of the browser's latest stream
  open,       \* does the browser hold that stream open?
  gen,        \* the generator of that stream
  inbox,      \* messages in its queue
  wire,       \* messages on their way to the browser
  bumped,     \* the page has bumped dashNonce and not yet run the effect
  asked,      \* fetches on their way to the server
  answers,    \* answers on their way back: how many of each version
  shown,      \* backendDash: the version the page displays
  shutdown,   \* _shutdown_event
  owed,       \* observed: told of an ingest since the page last fetched?
  missed      \* observed: was an ingest announced while it had no stream?

server  == <<data, run, callbacks>>
cache   == <<entry, refresh>>
sse     == <<subscribed, stream, open, gen, inbox, wire>>
page    == <<bumped, asked, answers, shown>>
history == <<owed, missed>>
vars == <<server, cache, sse, page, shutdown, history>>

None   == [at |-> "none", read |-> 0]
Waits  == [at |-> "queued", read |-> 0]
Has(v) == [at |-> "read", read |-> v]

Streams == Browser \X (1 .. MaxStreams)
Stream(b) == <<b, stream[b]>>

(* Every variable keeps its type, queues and in-flight requests their      *)
(* bounds, and the subscribers are exactly the running generators.         *)
TypeOK ==
  /\ data \in Version
  /\ run \in {"idle", "changed", "invalidated"}
  /\ entry \in [version : Version, fresh : BOOLEAN]
  /\ refresh \in {None, Waits} \cup {Has(v) : v \in Version}
  /\ callbacks \in Seq(SUBSET Streams)
  /\ subscribed \subseteq Streams
  /\ stream \in [Browser -> 0 .. MaxStreams]
  /\ open \in [Browser -> BOOLEAN]
  /\ gen \in [Browser -> {"off", "loop", "wait", "send"}]
  /\ inbox \in [Browser -> 0 .. QueueSize]
  /\ wire \in [Browser -> 0 .. MaxWire]
  /\ bumped \in [Browser -> BOOLEAN]
  /\ asked \in [Browser -> 0 .. MaxInFlight]
  /\ answers \in [Browser -> [Version -> 0 .. MaxInFlight]]
  /\ shown \in [Browser -> Version]
  /\ shutdown \in BOOLEAN
  /\ owed \in [Browser -> BOOLEAN]
  /\ missed \in [Browser -> BOOLEAN]
  \* a generator is subscribed for as long as it runs, and no longer
  /\ subscribed = {Stream(b) : b \in {c \in Browser : gen[c] # "off"}}

All(x) == [b \in Browser |-> x]

(* The page has loaded and shows the dashboard; its stream is to be opened.*)
Init ==
  /\ data = 0 /\ run = "idle" /\ callbacks = <<>>
  /\ entry = [version |-> 0, fresh |-> TRUE] /\ refresh = None
  /\ subscribed = {} /\ stream = All(0) /\ open = All(FALSE) /\ gen = All("off")
  /\ inbox = All(0) /\ wire = All(0)
  /\ bumped = All(FALSE) /\ asked = All(0)
  /\ answers = All([v \in Version |-> 0]) /\ shown = All(0)
  /\ shutdown = FALSE
  /\ owed = All(FALSE) /\ missed = All(FALSE)

(***************************************************************************)
(* run_ingest and broadcast_threadsafe                                     *)
(***************************************************************************)
Change ==
  /\ run = "idle" /\ data < MaxData
  /\ data' = data + 1
  /\ run' = "changed"
  /\ UNCHANGED <<callbacks, cache, sse, page, shutdown, history>>

Invalidate ==
  /\ run = "changed"
  /\ run' = "invalidated"
  /\ entry' = [entry EXCEPT !.fresh = FALSE]
  /\ UNCHANGED <<data, callbacks, refresh, sse, page, shutdown, history>>

(* The targets are the subscribers of this moment; the loop fills their    *)
(* queues later.                                                           *)
Broadcast ==
  /\ run = "invalidated"
  /\ run' = "idle"
  /\ callbacks' = Append(callbacks, subscribed)
  /\ owed' = [b \in Browser |-> owed[b] \/ (open[b] /\ Stream(b) \in subscribed)]
  /\ missed' = [b \in Browser |-> missed[b] \/ ~ open[b] \/ Stream(b) \notin subscribed]
  /\ UNCHANGED <<data, cache, sse, page, shutdown>>

RoomOffByOne(b) == inbox[b] + 1 < QueueSize               \* mutant
Room(b) == inbox[b] < QueueSize

(* put_nowait into each queue; a full queue drops the message.             *)
PutAll ==
  /\ callbacks # <<>>
  /\ callbacks' = Tail(callbacks)
  /\ inbox' = [b \in Browser |->
       IF Stream(b) \in Head(callbacks) \cap subscribed /\ Room(b)
       THEN inbox[b] + 1 ELSE inbox[b]]
  /\ UNCHANGED <<data, run, cache, subscribed, stream, open, gen, wire, page,
                 shutdown, history>>

(***************************************************************************)
(* event_stream                                                            *)
(***************************************************************************)
(* The generator starts: it subscribes and says ": connected".             *)
Connect(b) ==
  /\ ~ open[b] /\ gen[b] = "off" /\ stream[b] < MaxStreams
  /\ stream' = [stream EXCEPT ![b] = @ + 1]
  /\ open' = [open EXCEPT ![b] = TRUE]
  /\ gen' = [gen EXCEPT ![b] = "loop"]
  /\ subscribed' = subscribed \cup {<<b, stream[b] + 1>>}
  /\ UNCHANGED <<server, cache, inbox, wire, page, shutdown, history>>

(* What was on its way over a stream that ends may be missed.              *)
Cut(b) ==
  /\ missed' = [missed EXCEPT ![b] = @ \/ owed[b]]
  /\ owed' = [owed EXCEPT ![b] = FALSE]

(* The connection breaks; the server does not know yet.                    *)
Disconnect(b) ==
  /\ open[b]
  /\ open' = [open EXCEPT ![b] = FALSE]
  /\ wire' = [wire EXCEPT ![b] = 0]
  /\ Cut(b)
  /\ UNCHANGED <<server, cache, subscribed, stream, gen, inbox, page, shutdown>>

StopsWhenGone(b) == ~ open[b]                             \* mutant
Stops(b) == ~ open[b] \/ shutdown

StaysSubscribed(b) == subscribed                          \* mutant
Unsubscribed(b) == subscribed \ {Stream(b)}

(* The generator ends and unsubscribes: it finds the client gone or the    *)
(* server shutting down, in the loop or woken from its wait.               *)
Leave(b) ==
  /\ \/ gen[b] \in {"loop", "wait"} /\ Stops(b)
     \/ gen[b] = "send" /\ ~ open[b]
  /\ gen' = [gen EXCEPT ![b] = "off"]
  /\ subscribed' = Unsubscribed(b)
  /\ inbox' = [inbox EXCEPT ![b] = 0]
  /\ open' = [open EXCEPT ![b] = FALSE]
  /\ wire' = [wire EXCEPT ![b] = 0]
  /\ Cut(b)
  /\ UNCHANGED <<server, cache, stream, page, shutdown>>

Wait(b) ==
  /\ gen[b] = "loop" /\ ~ Stops(b)
  /\ gen' = [gen EXCEPT ![b] = "wait"]
  /\ UNCHANGED <<server, cache, subscribed, stream, open, inbox, wire, page, shutdown, history>>

TakeMessage(b) ==
  /\ gen[b] = "wait" /\ ~ shutdown /\ inbox[b] > 0
  /\ gen' = [gen EXCEPT ![b] = "send"]
  /\ inbox' = [inbox EXCEPT ![b] = @ - 1]
  /\ UNCHANGED <<server, cache, subscribed, stream, open, wire, page, shutdown, history>>

PingDropsMail(b) == inbox' = [inbox EXCEPT ![b] = 0]      \* mutant
PingKeepsMail(b) == UNCHANGED inbox

(* Fifteen seconds without a message: the get is cancelled, the queue is   *)
(* left as it is, and the loop goes round.                                 *)
Ping(b) ==
  /\ gen[b] = "wait"
  /\ gen' = [gen EXCEPT ![b] = "loop"]
  /\ PingKeepsMail(b)
  /\ UNCHANGED <<server, cache, subscribed, stream, open, wire, page, shutdown, history>>

(* A slow browser holds its generator up here, and its queue fills.        *)
Send(b) ==
  /\ gen[b] = "send" /\ open[b] /\ wire[b] < MaxWire
  /\ gen' = [gen EXCEPT ![b] = "loop"]
  /\ wire' = [wire EXCEPT ![b] = @ + 1]
  /\ UNCHANGED <<server, cache, subscribed, stream, open, inbox, page, shutdown, history>>

SignalShutdown ==
  /\ ~ shutdown
  /\ shutdown' = TRUE
  /\ UNCHANGED <<server, cache, sse, page, history>>

(***************************************************************************)
(* The page and the cached endpoint                                        *)
(***************************************************************************)
Receive(b) ==
  /\ wire[b] > 0
  /\ wire' = [wire EXCEPT ![b] = @ - 1]
  /\ bumped' = [bumped EXCEPT ![b] = TRUE]
  /\ UNCHANGED <<server, cache, subscribed, stream, open, gen, inbox, asked, answers,
                 shown, shutdown, history>>

InFlight(b) == asked[b] + SumFunction(answers[b])

(* The effect on dashNonce; it does not cancel an earlier fetch.           *)
Refetch(b) ==
  /\ bumped[b] /\ InFlight(b) < MaxInFlight
  /\ bumped' = [bumped EXCEPT ![b] = FALSE]
  /\ asked' = [asked EXCEPT ![b] = @ + 1]
  /\ owed' = [owed EXCEPT ![b] = FALSE]
  /\ UNCHANGED <<server, cache, sse, answers, shown, shutdown, missed>>

(* A stale entry is returned at once, and refreshed in the background.     *)
Serve(b) ==
  /\ asked[b] > 0
  /\ asked' = [asked EXCEPT ![b] = @ - 1]
  /\ answers' = [answers EXCEPT ![b][entry.version] = @ + 1]
  /\ refresh' = IF ~ entry.fresh /\ refresh = None THEN Waits ELSE refresh
  /\ UNCHANGED <<server, entry, sse, bumped, shown, shutdown, history>>

RefreshReads ==
  /\ refresh = Waits
  /\ refresh' = Has(data)
  /\ UNCHANGED <<server, entry, sse, page, shutdown, history>>

RefreshPuts ==
  /\ refresh.at = "read"
  /\ entry' = [version |-> refresh.read, fresh |-> TRUE]
  /\ refresh' = None
  /\ UNCHANGED <<server, sse, page, shutdown, history>>

(* Answers arrive in any order, and each is displayed.                     *)
Display(b) ==
  /\ \E v \in Version :
       /\ answers[b][v] > 0
       /\ answers' = [answers EXCEPT ![b][v] = @ - 1]
       /\ shown' = [shown EXCEPT ![b] = v]
  /\ UNCHANGED <<server, cache, sse, bumped, asked, shutdown, history>>

(***************************************************************************)
(* Specification                                                           *)
(***************************************************************************)
Relays(b) == Leave(b) \/ TakeMessage(b) \/ Send(b)
Shows(b)  == Refetch(b) \/ Serve(b) \/ Display(b)

Next ==
  \/ Change \/ Invalidate \/ Broadcast \/ PutAll \/ SignalShutdown
  \/ RefreshReads \/ RefreshPuts
  \/ \E b \in Browser :
       \/ Connect(b) \/ Disconnect(b) \/ Wait(b) \/ Ping(b) \/ Relays(b)
       \/ Receive(b) \/ Shows(b)

(* An ingest that has begun to publish finishes, the event loop and the    *)
(* refresh pool run, and browsers read, render and are served.  Between    *)
(* two heartbeats a generator that waits sees what is in its queue, so     *)
(* pings do not keep it from a message for ever: strong fairness.          *)
Fairness ==
  /\ WF_vars(Invalidate \/ Broadcast) /\ WF_vars(PutAll)
  /\ WF_vars(RefreshReads \/ RefreshPuts)
  /\ \A b \in Browser :
       /\ WF_vars(Leave(b)) /\ WF_vars(Wait(b)) /\ WF_vars(Send(b))
       /\ SF_vars(TakeMessage(b))
       /\ WF_vars(Receive(b))
       /\ WF_vars(Refetch(b)) /\ WF_vars(Serve(b)) /\ WF_vars(Display(b))

Spec     == Init /\ [][Next]_vars
FairSpec == Spec /\ Fairness

(***************************************************************************)
(* Properties                                                              *)
(***************************************************************************)

(* A page told of an ingest has a fetch before it: the message is with the *)
(* event loop, or in a queue, the generator, the network or the page.  A   *)
(* full queue may drop messages, since those before them stand for them.   *)
NoticeNotLost ==
  \A b \in Browser : owed[b] /\ ~ shutdown =>
    \/ \E i \in DOMAIN callbacks : Stream(b) \in callbacks[i]
    \/ inbox[b] > 0 \/ gen[b] = "send" \/ wire[b] > 0 \/ bumped[b]

(* Every page that is told of an ingest, and keeps its stream, fetches the *)
(* dashboard after it, unless the server shuts down.                       *)
NoticeLeadsToFetch ==
  \A b \in Browser : owed[b] ~> (~ owed[b] \/ shutdown)

(* Once shutdown is signalled every generator ends, which is what lets     *)
(* uvicorn's graceful shutdown drain.                                      *)
ShutdownDrains ==
  \A b \in Browser : shutdown /\ gen[b] # "off" ~> gen[b] = "off"

(* A page that keeps its stream and misses no announcement comes to show   *)
(* the data of the last ingest ("Live updates").                           *)
LiveUpdates ==
  \A b \in Browser :
    <>[](open[b] /\ ~ missed[b] /\ ~ shutdown) => <>[](shown[b] = data)
=============================================================================
