--------------------------- MODULE LivePush_proofs ---------------------------
(***************************************************************************)
(* No page that is told of an ingest loses the notice, for any number of   *)
(* browsers and any sizes of queues and of the network between; and every  *)
(* variable keeps its type, the number of fetches in flight included.      *)
(***************************************************************************)
EXTENDS LivePush, SequenceTheorems, Sums

(* The types of what a notice passes through on its way.                   *)
Types ==
  /\ callbacks \in Seq(SUBSET Streams)
  /\ subscribed \subseteq Streams
  /\ stream \in [Browser -> 0 .. MaxStreams]
  /\ open \in [Browser -> BOOLEAN]
  /\ gen \in [Browser -> {"off", "loop", "wait", "send"}]
  /\ inbox \in [Browser -> 0 .. QueueSize]
  /\ wire \in [Browser -> Nat]
  /\ bumped \in [Browser -> BOOLEAN]
  /\ owed \in [Browser -> BOOLEAN]

(* A generator is subscribed for as long as it runs, and no longer.        *)
Registered == \A b \in Browser : Stream(b) \in subscribed <=> gen[b] # "off"

(* Only an open stream with a running generator owes its page a fetch.     *)
OwedListens == \A b \in Browser : owed[b] => open[b] /\ gen[b] # "off"

(* Where the notice of b may be.                                           *)
Called(b)  == \E i \in DOMAIN callbacks : Stream(b) \in callbacks[i]
Relayed(b) == inbox[b] > 0 \/ gen[b] = "send" \/ wire[b] > 0 \/ bumped[b]
Noticed    == \A b \in Browser : owed[b] => Called(b) \/ Relayed(b)

IInv == Types /\ Registered /\ OwedListens /\ Noticed

(* The page has loaded: nothing is owed.                                   *)
LEMMA InitIInv == Init => IInv
<1> SUFFICES ASSUME Init PROVE IInv
  OBVIOUS
<1>1. MaxStreams \in Nat /\ QueueSize \in Nat
  BY PushBoundAssumption
<1>2. Types
  BY <1>1 DEF Init, All, Types
<1>3. Registered /\ OwedListens /\ Noticed
  BY DEF Init, All, Registered, OwedListens, Noticed
<1> QED
  BY <1>2, <1>3 DEF IInv

(* What neither subscribes, nor owes, nor delivers leaves IInv as it is.   *)
LEMMA QuietKeeps ==
  ASSUME IInv,
         UNCHANGED <<callbacks, subscribed, stream, open, gen, inbox, wire, bumped, owed>>
  PROVE  IInv'
BY DEF IInv, Types, Registered, OwedListens, Noticed, Called, Relayed, Stream

(* A broadcast hands the notice of every subscriber to the event loop.     *)
LEMMA BroadcastKeeps == IInv /\ Broadcast => IInv'
<1> SUFFICES ASSUME IInv, Broadcast PROVE IInv'
  OBVIOUS
<1>1. UNCHANGED <<subscribed, stream, open, gen, inbox, wire, bumped>>
  BY DEF Broadcast, sse, page
<1>2. /\ callbacks' = Append(callbacks, subscribed)
      /\ callbacks \in Seq(SUBSET Streams) /\ subscribed \in SUBSET Streams
  BY DEF Broadcast, IInv, Types
<1>3. /\ callbacks' \in Seq(SUBSET Streams)
      /\ DOMAIN callbacks \subseteq DOMAIN callbacks'
      /\ \A i \in DOMAIN callbacks : callbacks'[i] = callbacks[i]
      /\ \E i \in DOMAIN callbacks' : callbacks'[i] = subscribed
  BY <1>2, AppendProperties
<1>4. owed' = [b \in Browser |-> owed[b] \/ (open[b] /\ Stream(b) \in subscribed)]
  BY DEF Broadcast
<1>5. Types' /\ Registered' /\ OwedListens'
  BY <1>1, <1>3, <1>4 DEF IInv, Types, Registered, OwedListens, Stream
<1>6. ASSUME NEW b \in Browser, owed'[b] PROVE Called(b)' \/ Relayed(b)'
  <2>1. CASE owed[b]
    BY <1>1, <1>3, <2>1 DEF IInv, Noticed, Called, Relayed, Stream
  <2>2. CASE Stream(b) \in subscribed
    BY <1>1, <1>3, <2>2 DEF Called, Stream
  <2> QED
    BY <1>4, <1>6, <2>1, <2>2
<1> QED
  BY <1>5, <1>6 DEF IInv, Noticed

(* The event loop fills the queues: one that is full holds another notice. *)
LEMMA PutAllKeeps == IInv /\ PutAll => IInv'
<1> SUFFICES ASSUME IInv, PutAll PROVE IInv'
  OBVIOUS
<1>1. UNCHANGED <<subscribed, stream, open, gen, wire, bumped, owed>>
  BY DEF PutAll, page, history
<1>2. /\ callbacks \in Seq(SUBSET Streams) /\ callbacks # <<>>
      /\ callbacks' = Tail(callbacks)
  BY DEF PutAll, IInv, Types
<1>3. /\ callbacks' \in Seq(SUBSET Streams)
      /\ \A i \in DOMAIN callbacks :
           i # 1 => i - 1 \in DOMAIN callbacks' /\ callbacks'[i - 1] = callbacks[i]
      /\ Head(callbacks) = callbacks[1]
  <2>1. /\ callbacks' \in Seq(SUBSET Streams) /\ Len(callbacks') = Len(callbacks) - 1
        /\ \A i \in 1 .. Len(callbacks') : callbacks'[i] = callbacks[i + 1]
    BY <1>2, HeadTailProperties
  <2>2. /\ DOMAIN callbacks = 1 .. Len(callbacks) /\ Len(callbacks) \in Nat
        /\ DOMAIN callbacks' = 1 .. Len(callbacks') /\ Head(callbacks) = callbacks[1]
    BY <1>2, <2>1
  <2>3. ASSUME NEW i \in DOMAIN callbacks, i # 1
        PROVE  i - 1 \in DOMAIN callbacks' /\ callbacks'[i - 1] = callbacks[i]
    <3>1. i \in Int /\ i - 1 \in 1 .. Len(callbacks')
      BY <2>1, <2>2, <2>3
    <3> QED
      BY <2>1, <2>2, <3>1
  <2> QED
    BY <2>1, <2>2, <2>3
<1>4. /\ QueueSize \in Nat \ {0}
      /\ inbox' = [b \in Browser |->
           IF Stream(b) \in Head(callbacks) \cap subscribed /\ inbox[b] < QueueSize
           THEN inbox[b] + 1 ELSE inbox[b]]
  BY PushBoundAssumption DEF PutAll, Room
<1>5. \A b \in Browser : /\ inbox'[b] \in 0 .. QueueSize /\ inbox'[b] >= inbox[b]
                         /\ Stream(b) \in Head(callbacks) \cap subscribed => inbox'[b] > 0
  BY <1>4 DEF IInv, Types
<1>6. Types' /\ Registered' /\ OwedListens'
  <2>1. inbox' \in [Browser -> 0 .. QueueSize]
    BY <1>4, <1>5
  <2> QED
    BY <1>1, <1>3, <2>1 DEF IInv, Types, Registered, OwedListens, Stream
<1>7. ASSUME NEW b \in Browser, owed'[b] PROVE Called(b)' \/ Relayed(b)'
  <2>1. owed[b] /\ Stream(b) \in subscribed
    BY <1>1, <1>7 DEF IInv, OwedListens, Registered
  <2>2. ASSUME NEW i \in DOMAIN callbacks, Stream(b) \in callbacks[i]
        PROVE  Called(b)' \/ Relayed(b)'
    <3>1. CASE i = 1
      BY <1>3, <1>5, <2>1, <2>2, <3>1 DEF Relayed
    <3>2. CASE i # 1
      BY <1>1, <1>3, <2>2, <3>2 DEF Called, Stream
    <3> QED
      BY <3>1, <3>2
  <2>3. CASE Relayed(b)
    <3>1. inbox[b] \in 0 .. QueueSize /\ inbox'[b] \in 0 .. QueueSize
      BY <1>5 DEF IInv, Types
    <3> QED
      BY <1>1, <1>4, <1>5, <2>3, <3>1 DEF Relayed
  <2> QED
    BY <2>1, <2>2, <2>3 DEF IInv, Noticed, Called
<1> QED
  BY <1>6, <1>7 DEF IInv, Noticed

(* A stream is opened only when the page has none, and so is owed nothing. *)
LEMMA ConnectKeeps == ASSUME IInv, NEW b \in Browser, Connect(b) PROVE IInv'
<1>1. /\ UNCHANGED <<callbacks, inbox, wire, bumped, owed>>
      /\ ~ open[b] /\ gen[b] = "off" /\ stream[b] < MaxStreams
      /\ stream' = [stream EXCEPT ![b] = @ + 1]
      /\ open' = [open EXCEPT ![b] = TRUE]
      /\ gen' = [gen EXCEPT ![b] = "loop"]
      /\ subscribed' = subscribed \cup {<<b, stream[b] + 1>>}
  BY DEF Connect, server, page, history
<1>2. stream[b] + 1 \in 1 .. MaxStreams /\ <<b, stream[b] + 1>> \in Streams
  BY <1>1, PushBoundAssumption DEF IInv, Types, Streams
<1>3. Types'
  <2>1. stream' \in [Browser -> 0 .. MaxStreams]
    BY <1>1, <1>2 DEF IInv, Types
  <2>2. open' \in [Browser -> BOOLEAN] /\ gen' \in [Browser -> {"off", "loop", "wait", "send"}]
    BY <1>1 DEF IInv, Types
  <2> QED
    BY <1>1, <1>2, <2>1, <2>2 DEF IInv, Types
<1>4. Stream(b)' = <<b, stream[b] + 1>> /\ \A c \in Browser \ {b} : Stream(c)' = Stream(c)
  BY <1>1 DEF Stream, IInv, Types
<1>5. Registered'
  <2>1. \A c \in Browser \ {b} : Stream(c) # <<b, stream[b] + 1>>
    BY DEF Stream
  <2> QED
    BY <1>1, <1>4, <2>1 DEF IInv, Types, Registered
<1>6. OwedListens' /\ Noticed'
  BY <1>1, <1>4 DEF IInv, Types, OwedListens, Noticed, Called, Relayed
<1> QED
  BY <1>3, <1>5, <1>6 DEF IInv

(* A stream that breaks owes nothing any more.                             *)
LEMMA DisconnectKeeps == ASSUME IInv, NEW b \in Browser, Disconnect(b) PROVE IInv'
<1>1. /\ UNCHANGED <<callbacks, subscribed, stream, gen, inbox, bumped>>
      /\ open' = [open EXCEPT ![b] = FALSE]
      /\ wire' = [wire EXCEPT ![b] = 0]
      /\ owed' = [owed EXCEPT ![b] = FALSE]
  BY DEF Disconnect, Cut, server, page
<1>2. Types' /\ Registered' /\ OwedListens'
  BY <1>1 DEF IInv, Types, Registered, OwedListens, Stream
<1>3. Noticed'
  BY <1>1 DEF IInv, Types, Noticed, Called, Relayed, Stream
<1> QED
  BY <1>2, <1>3 DEF IInv

(* Neither does a generator that ends.                                     *)
LEMMA LeaveKeeps == ASSUME IInv, NEW b \in Browser, Leave(b) PROVE IInv'
<1>1. /\ UNCHANGED <<callbacks, stream, bumped>>
      /\ gen' = [gen EXCEPT ![b] = "off"]
      /\ subscribed' = subscribed \ {Stream(b)}
      /\ inbox' = [inbox EXCEPT ![b] = 0]
      /\ open' = [open EXCEPT ![b] = FALSE]
      /\ wire' = [wire EXCEPT ![b] = 0]
      /\ owed' = [owed EXCEPT ![b] = FALSE]
  BY DEF Leave, Unsubscribed, Cut, server, page
<1>2. Types' /\ OwedListens'
  BY <1>1, PushBoundAssumption DEF IInv, Types, OwedListens
<1>3. Registered'
  <2>1. \A c \in Browser \ {b} : Stream(c) # Stream(b)
    BY DEF Stream
  <2> QED
    BY <1>1, <2>1 DEF IInv, Types, Registered, Stream
<1>4. Noticed'
  BY <1>1 DEF IInv, Types, Noticed, Called, Relayed, Stream
<1> QED
  BY <1>2, <1>3, <1>4 DEF IInv

(* The generator passes the notice on, from its queue to the network.      *)
LEMMA RelayKeeps ==
  ASSUME IInv, NEW b \in Browser, Wait(b) \/ TakeMessage(b) \/ Ping(b) \/ Send(b)
  PROVE  IInv'
<1>1. /\ UNCHANGED <<callbacks, subscribed, stream, open, bumped, owed>>
      /\ gen[b] # "off"
      /\ \E g \in {"loop", "wait", "send"} : gen' = [gen EXCEPT ![b] = g]
  BY DEF Wait, TakeMessage, Ping, Send, server, page, history
<1>2. \/ /\ TakeMessage(b) /\ gen'[b] = "send" /\ UNCHANGED wire
         /\ inbox[b] > 0 /\ inbox' = [inbox EXCEPT ![b] = @ - 1]
      \/ /\ Send(b) /\ UNCHANGED inbox /\ wire' = [wire EXCEPT ![b] = @ + 1]
      \/ gen[b] # "send" /\ UNCHANGED <<inbox, wire>>
  BY DEF Wait, TakeMessage, Ping, PingKeepsMail, Send, IInv, Types
<1>3. Types'
  <2>1. gen' \in [Browser -> {"off", "loop", "wait", "send"}]
    BY <1>1 DEF IInv, Types
  <2>2. inbox' \in [Browser -> 0 .. QueueSize] /\ wire' \in [Browser -> Nat]
    <3>1. inbox \in [Browser -> 0 .. QueueSize] /\ wire \in [Browser -> Nat]
      BY DEF IInv, Types
    <3>2. QueueSize \in Nat
      BY PushBoundAssumption
    <3> QED
      BY <1>2, <3>1, <3>2
  <2> QED
    BY <1>1, <2>1, <2>2 DEF IInv, Types
<1>4. Registered' /\ OwedListens'
  BY <1>1 DEF IInv, Types, Registered, OwedListens, Stream
<1>5. \A c \in Browser : Relayed(c) => Relayed(c)'
  BY <1>1, <1>2 DEF IInv, Types, Relayed
<1>6. Noticed'
  BY <1>1, <1>5 DEF IInv, Noticed, Called, Stream
<1> QED
  BY <1>3, <1>4, <1>6 DEF IInv

(* The page makes of a message a bump of the nonce, and of that a fetch.   *)
LEMMA PageKeeps == ASSUME IInv, NEW b \in Browser, Receive(b) \/ Refetch(b) PROVE IInv'
<1>1. UNCHANGED <<callbacks, subscribed, stream, open, gen, inbox>>
  BY DEF Receive, Refetch, server, sse
<1>2. \/ /\ wire[b] > 0 /\ wire' = [wire EXCEPT ![b] = @ - 1]
         /\ bumped' = [bumped EXCEPT ![b] = TRUE] /\ UNCHANGED owed
      \/ /\ UNCHANGED wire /\ bumped' = [bumped EXCEPT ![b] = FALSE]
         /\ owed' = [owed EXCEPT ![b] = FALSE]
  BY DEF Receive, Refetch, sse, history
<1>3. Types'
  <2>1. wire' \in [Browser -> Nat]
    <3>1. wire \in [Browser -> Nat]
      BY DEF IInv, Types
    <3> QED
      BY <1>2, <3>1
  <2>2. bumped' \in [Browser -> BOOLEAN] /\ owed' \in [Browser -> BOOLEAN]
    BY <1>2 DEF IInv, Types
  <2> QED
    BY <1>1, <2>1, <2>2 DEF IInv, Types
<1>4. Registered' /\ OwedListens'
  BY <1>1, <1>2 DEF IInv, Types, Registered, OwedListens, Stream
<1>5. \A c \in Browser : owed'[c] /\ Relayed(c) => Relayed(c)'
  BY <1>1, <1>2 DEF IInv, Types, Relayed
<1>6. Noticed'
  BY <1>1, <1>2, <1>5 DEF IInv, Types, Noticed, Called, Stream
<1> QED
  BY <1>3, <1>4, <1>6 DEF IInv

(* Every step keeps the invariant.                                         *)
LEMMA NextKeeps == IInv /\ [Next]_vars => IInv'
<1> SUFFICES ASSUME IInv, [Next]_vars PROVE IInv'
  OBVIOUS
<1>1. CASE Change \/ Invalidate \/ SignalShutdown \/ RefreshReads \/ RefreshPuts
  BY <1>1, QuietKeeps DEF Change, Invalidate, SignalShutdown, RefreshReads, RefreshPuts,
     server, cache, sse, page, history
<1>2. ASSUME NEW b \in Browser, Serve(b) \/ Display(b) PROVE IInv'
  BY <1>2, QuietKeeps DEF Serve, Display, server, cache, sse, page, history
<1>3. CASE UNCHANGED vars
  BY <1>3, QuietKeeps DEF vars, server, sse, page, history
<1>4. CASE Broadcast \/ PutAll
  BY <1>4, BroadcastKeeps, PutAllKeeps
<1>5. ASSUME NEW b \in Browser, Connect(b) \/ Disconnect(b) \/ Leave(b) PROVE IInv'
  BY <1>5, ConnectKeeps, DisconnectKeeps, LeaveKeeps
<1>6. ASSUME NEW b \in Browser, Wait(b) \/ Ping(b) \/ TakeMessage(b) \/ Send(b) PROVE IInv'
  BY <1>6, RelayKeeps
<1>7. ASSUME NEW b \in Browser, Receive(b) \/ Refetch(b) PROVE IInv'
  BY <1>7, PageKeeps
<1> QED
  BY <1>1, <1>2, <1>3, <1>4, <1>5, <1>6, <1>7 DEF Next, Relays, Shows

(* The notice of an ingest is always somewhere on its way to the page that *)
(* was told of it, until the page fetches: no queue that is full, no       *)
(* heartbeat and no interleaving of the event loop with the generators of  *)
(* event_stream loses the last one.                                        *)
THEOREM NoticesSurvive == Spec => []NoticeNotLost
<1>1. IInv => NoticeNotLost
  BY DEF IInv, Noticed, Called, Relayed, NoticeNotLost
<1> QED
  BY <1>1, InitIInv, NextKeeps, PTL DEF Spec

(***************************************************************************)
(* Types, the bound on a page's fetches among them                         *)
(***************************************************************************)
(* Of each browser only its latest stream is subscribed, while it runs.    *)
OnlyLatest == \A x \in subscribed : x = Stream(x[1]) /\ gen[x[1]] # "off"

ServerTyped ==
  /\ data \in Version
  /\ run \in {"idle", "changed", "invalidated"}
  /\ entry \in [version : Version, fresh : BOOLEAN]
  /\ refresh \in {None, Waits} \cup {Has(v) : v \in Version}
  /\ shutdown \in BOOLEAN

PageTyped ==
  /\ wire \in [Browser -> 0 .. MaxWire]
  /\ shown \in [Browser -> Version]
  /\ missed \in [Browser -> BOOLEAN]
  /\ asked \in [Browser -> Nat]
  /\ answers \in [Browser -> [Version -> Nat]]
  /\ \A b \in Browser : InFlight(b) <= MaxInFlight

TInv == IInv /\ OnlyLatest /\ ServerTyped /\ PageTyped

(* The fetches in flight are one number for each page.                     *)
LEMMA InFlightSums ==
  ASSUME NEW f \in [Version -> Nat]
  PROVE  /\ SumFunction(f) \in Nat
         /\ \A v \in Version : /\ f[v] <= SumFunction(f)
                               /\ \A n \in Nat : SumFunction([f EXCEPT ![v] = n])
                                                   = SumFunction(f) + (n - f[v])
<1>1. MaxData \in Nat
  BY PushBoundAssumption
<1>2. IsFiniteSet(Version) /\ DOMAIN f = Version
  BY <1>1, FS_Interval DEF Version
<1>3. SumFunction(f) = SumFunctionOnSet(f, Version)
  BY <1>2 DEF SumFunction
<1>4. SumFunction(f) \in Nat
  BY <1>2, <1>3, SumType
<1>5. ASSUME NEW v \in Version PROVE f[v] <= SumFunction(f)
  BY <1>2, <1>3, SumAtLeast
<1>6. ASSUME NEW v \in Version, NEW n \in Nat
      PROVE  SumFunction([f EXCEPT ![v] = n]) = SumFunction(f) + (n - f[v])
  <2> DEFINE e == [f EXCEPT ![v] = n]
  <2>1. DOMAIN e = Version /\ e[v] = n /\ \A y \in Version \ {v} : e[y] = f[y]
    BY <1>2
  <2> HIDE DEF e
  <2>2. SumFunction(e) = SumFunctionOnSet(e, Version)
    BY <2>1 DEF SumFunction
  <2>3. SumFunctionOnSet(e, Version) = SumFunctionOnSet(f, Version) + (e[v] - f[v])
    BY <1>2, <2>1, SumChanged
  <2>4. SumFunction(e) = SumFunction(f) + (n - f[v])
    BY <1>3, <2>1, <2>2, <2>3
  <2> QED
    BY <2>4 DEF e
<1> QED
  BY <1>4, <1>5, <1>6

(* The invariant bounds what TypeOK bounds.                                *)
LEMMA TInvTyped == TInv => TypeOK
<1> SUFFICES ASSUME TInv PROVE TypeOK
  OBVIOUS
<1>1. asked \in [Browser -> 0 .. MaxInFlight] /\ answers \in [Browser -> [Version -> 0 .. MaxInFlight]]
  <2>1. asked \in [Browser -> Nat] /\ answers \in [Browser -> [Version -> Nat]] /\ MaxInFlight \in Nat
    BY PushBoundAssumption DEF TInv, PageTyped
  <2>2. ASSUME NEW b \in Browser
        PROVE  asked[b] <= MaxInFlight /\ \A v \in Version : answers[b][v] <= MaxInFlight
    <3>1. asked[b] + SumFunction(answers[b]) <= MaxInFlight
      BY DEF TInv, PageTyped, InFlight
    <3>2. answers[b] \in [Version -> Nat]
      BY <2>1
    <3>3. SumFunction(answers[b]) \in Nat /\ \A v \in Version : answers[b][v] <= SumFunction(answers[b])
      BY <3>2, InFlightSums
    <3>4. asked[b] \in Nat
      BY <2>1
    <3> QED
      BY <2>1, <3>1, <3>2, <3>3, <3>4
  <2>3. asked \in [Browser -> 0 .. MaxInFlight]
    BY <2>1, <2>2
  <2>4. \A b \in Browser : answers[b] \in [Version -> 0 .. MaxInFlight]
    BY <2>1, <2>2
  <2> QED
    BY <2>1, <2>3, <2>4
<1>2. subscribed = {Stream(b) : b \in {c \in Browser : gen[c] # "off"}}
  BY DEF TInv, OnlyLatest, IInv, Types, Registered, Streams
<1> QED
  BY <1>1, <1>2 DEF TypeOK, TInv, IInv, Types, ServerTyped, PageTyped

(* The server's variables keep their types.                                *)
LEMMA ServerTypedKept == ServerTyped /\ [Next]_vars => ServerTyped'
<1> SUFFICES ASSUME ServerTyped, [Next]_vars PROVE ServerTyped'
  OBVIOUS
<1>1. /\ data' = data \/ (data < MaxData /\ data' = data + 1)
      /\ run' \in {run, "idle", "changed", "invalidated"}
      /\ shutdown' = shutdown \/ shutdown' = TRUE
      /\ \/ entry' = entry \/ entry' = [entry EXCEPT !.fresh = FALSE]
         \/ refresh.at = "read" /\ entry' = [version |-> refresh.read, fresh |-> TRUE]
      /\ refresh' \in {refresh, None, Waits, Has(data)}
  <2>1. CASE Change \/ Invalidate \/ Broadcast \/ PutAll \/ SignalShutdown \/ RefreshReads \/ RefreshPuts
    BY <2>1 DEF Change, Invalidate, Broadcast, PutAll, SignalShutdown, RefreshReads, RefreshPuts,
       server, cache, sse, page
  <2>2. ASSUME NEW b \in Browser,
               Connect(b) \/ Disconnect(b) \/ Wait(b) \/ Ping(b) \/ Relays(b) \/ Receive(b) \/ Shows(b)
        PROVE  /\ UNCHANGED <<data, run, shutdown, entry>> /\ refresh' \in {refresh, Waits}
    BY <2>2 DEF Connect, Disconnect, Wait, Ping, Relays, Leave, TakeMessage, Send, Receive, Shows,
       Refetch, Serve, Display, server, cache
  <2>3. CASE UNCHANGED vars
    BY <2>3 DEF vars, server, cache
  <2> QED
    BY <2>1, <2>2, <2>3 DEF Next
<1>2. data' \in Version
  BY <1>1, PushBoundAssumption DEF ServerTyped, Version
<1>3. refresh.at = "read" => refresh.read \in Version
  BY DEF ServerTyped, None, Waits, Has
<1>4. entry' \in [version : Version, fresh : BOOLEAN]
  <2>1. CASE entry' = entry
    BY <2>1 DEF ServerTyped
  <2>2. CASE entry' = [entry EXCEPT !.fresh = FALSE]
    BY <2>2 DEF ServerTyped
  <2>3. CASE refresh.at = "read" /\ entry' = [version |-> refresh.read, fresh |-> TRUE]
    BY <1>3, <2>3
  <2> QED
    BY <1>1, <2>1, <2>2, <2>3
<1>5. refresh' \in {None, Waits} \cup {Has(v) : v \in Version}
  BY <1>1 DEF ServerTyped
<1>6. run' \in {"idle", "changed", "invalidated"} /\ shutdown' \in BOOLEAN
  BY <1>1 DEF ServerTyped
<1> QED
  BY <1>2, <1>4, <1>5, <1>6 DEF ServerTyped

(* A subscribed stream is its page's newest, with a running generator.     *)
LEMMA OnlyLatestKept == IInv /\ OnlyLatest /\ [Next]_vars => OnlyLatest'
<1> SUFFICES ASSUME IInv, OnlyLatest, [Next]_vars PROVE OnlyLatest'
  OBVIOUS
<1>0. subscribed \subseteq Streams /\ gen \in [Browser -> {"off", "loop", "wait", "send"}]
      /\ stream \in [Browser -> 0 .. MaxStreams]
  BY DEF IInv, Types
<1>1. ASSUME NEW b \in Browser, Connect(b) PROVE OnlyLatest'
  <2>1. /\ gen[b] = "off"
        /\ stream' = [stream EXCEPT ![b] = @ + 1] /\ gen' = [gen EXCEPT ![b] = "loop"]
        /\ subscribed' = subscribed \cup {<<b, stream[b] + 1>>}
    BY <1>1 DEF Connect
  <2>2. ASSUME NEW x \in subscribed PROVE x[1] \in Browser /\ x[1] # b
    BY <1>0, <2>1 DEF OnlyLatest, Streams
  <2> QED
    BY <1>0, <2>1, <2>2 DEF OnlyLatest, Stream
<1>2. ASSUME NEW b \in Browser, Leave(b) PROVE OnlyLatest'
  <2>1. /\ stream' = stream /\ gen' = [gen EXCEPT ![b] = "off"]
        /\ subscribed' = subscribed \ {Stream(b)}
    BY <1>2 DEF Leave, Unsubscribed
  <2>2. ASSUME NEW x \in subscribed' PROVE x[1] \in Browser /\ x[1] # b
    BY <1>0, <2>1 DEF OnlyLatest, Streams, Stream
  <2> QED
    BY <1>0, <2>1, <2>2 DEF OnlyLatest, Stream
<1>3. ASSUME NEW b \in Browser, Wait(b) \/ TakeMessage(b) \/ Ping(b) \/ Send(b) PROVE OnlyLatest'
  <2>1. /\ UNCHANGED <<stream, subscribed>>
        /\ \E g \in {"loop", "wait", "send"} : gen' = [gen EXCEPT ![b] = g]
    BY <1>3 DEF Wait, TakeMessage, Ping, Send
  <2> QED
    BY <1>0, <2>1 DEF OnlyLatest, Stream
<1>4. CASE UNCHANGED <<stream, subscribed, gen>>
  BY <1>4 DEF OnlyLatest, Stream
<1>5. CASE Change \/ Invalidate \/ Broadcast \/ PutAll \/ SignalShutdown \/ RefreshReads \/ RefreshPuts
            \/ UNCHANGED vars
  BY <1>4, <1>5 DEF Change, Invalidate, Broadcast, PutAll, SignalShutdown, RefreshReads, RefreshPuts,
     vars, sse
<1>6. ASSUME NEW b \in Browser, Disconnect(b) \/ Receive(b) \/ Shows(b) PROVE OnlyLatest'
  BY <1>4, <1>6 DEF Disconnect, Receive, Shows, Refetch, Serve, Display, sse
<1> QED
  BY <1>1, <1>2, <1>3, <1>5, <1>6 DEF Next, Relays

(* A page never has more fetches in flight than it may: serving one turns  *)
(* a question into an answer.                                              *)
LEMMA PageTypedKept == ServerTyped /\ PageTyped /\ [Next]_vars => PageTyped'
<1> SUFFICES ASSUME ServerTyped, PageTyped, [Next]_vars PROVE PageTyped'
  OBVIOUS
<1>0. /\ wire \in [Browser -> 0 .. MaxWire] /\ shown \in [Browser -> Version]
      /\ missed \in [Browser -> BOOLEAN]
      /\ asked \in [Browser -> Nat] /\ answers \in [Browser -> [Version -> Nat]]
      /\ MaxWire \in Nat /\ MaxInFlight \in Nat /\ entry.version \in Version
      /\ \A b \in Browser : asked[b] + SumFunction(answers[b]) <= MaxInFlight
  BY PushBoundAssumption DEF PageTyped, ServerTyped, InFlight
<1>1. ASSUME UNCHANGED <<asked, answers>>, wire' \in [Browser -> 0 .. MaxWire],
             shown' = shown, missed' \in [Browser -> BOOLEAN]
      PROVE  PageTyped'
  BY <1>0, <1>1 DEF PageTyped, InFlight
<1>2. CASE \/ Change \/ Invalidate \/ Broadcast \/ PutAll \/ SignalShutdown
           \/ RefreshReads \/ RefreshPuts \/ UNCHANGED vars
  <2>1. UNCHANGED <<asked, answers, wire, shown>>
    BY <1>2 DEF Change, Invalidate, Broadcast, PutAll, SignalShutdown, RefreshReads, RefreshPuts,
       vars, sse, page
  <2>2. missed' \in [Browser -> BOOLEAN]
    <3>1. CASE Broadcast
      BY <1>0, <3>1, Zenon DEF Broadcast
    <3>2. CASE missed' = missed
      BY <1>0, <3>2
    <3> QED
      BY <1>2, <3>1, <3>2 DEF Change, Invalidate, PutAll, SignalShutdown, RefreshReads, RefreshPuts,
         vars, history
  <2> QED
    BY <1>0, <1>1, <2>1, <2>2
<1>3. ASSUME NEW b \in Browser,
             Connect(b) \/ Disconnect(b) \/ Wait(b) \/ Ping(b) \/ Relays(b) \/ Receive(b)
      PROVE  PageTyped'
  <2>1. /\ UNCHANGED <<asked, answers, shown>>
        /\ \/ wire' = wire
           \/ wire' = [wire EXCEPT ![b] = 0]
           \/ wire[b] < MaxWire /\ wire' = [wire EXCEPT ![b] = @ + 1]
           \/ wire[b] > 0 /\ wire' = [wire EXCEPT ![b] = @ - 1]
    BY <1>3 DEF Connect, Disconnect, Wait, Ping, Relays, Leave, TakeMessage, Send, Receive, page
  <2>2. wire' \in [Browser -> 0 .. MaxWire]
    <3>1. /\ wire[b] \in 0 .. MaxWire /\ 0 \in 0 .. MaxWire
          /\ wire[b] < MaxWire => wire[b] + 1 \in 0 .. MaxWire
          /\ wire[b] > 0 => wire[b] - 1 \in 0 .. MaxWire
      BY <1>0
    <3>2. \/ wire' = wire
          \/ \E n \in 0 .. MaxWire : wire' = [wire EXCEPT ![b] = n]
      BY <2>1, <3>1
    <3> QED
      BY <1>0, <3>2
  <2>3. missed' = missed \/ missed' = [missed EXCEPT ![b] = @ \/ owed[b]]
    BY <1>3 DEF Connect, Disconnect, Wait, Ping, Relays, Leave, TakeMessage, Send, Receive, Cut, history
  <2>4. missed' \in [Browser -> BOOLEAN]
    BY <1>0, <2>3, Zenon
  <2> QED
    BY <1>1, <2>1, <2>2, <2>4
<1>4. ASSUME NEW b \in Browser, Shows(b) PROVE PageTyped'
  <2>1. UNCHANGED <<wire, missed>>
    BY <1>4 DEF Shows, Refetch, Serve, Display, sse, history
  <2>2. /\ answers[b] \in [Version -> Nat] /\ SumFunction(answers[b]) \in Nat /\ asked[b] \in Nat
        /\ \A v \in Version, n \in Nat :
             SumFunction([answers[b] EXCEPT ![v] = n]) = SumFunction(answers[b]) + (n - answers[b][v])
    BY <1>0, InFlightSums
  <2>3. ASSUME NEW a \in Nat, NEW f \in [Version -> Nat], a + SumFunction(f) <= MaxInFlight,
               asked' = [asked EXCEPT ![b] = a], answers' = [answers EXCEPT ![b] = f],
               shown' \in [Browser -> Version]
        PROVE  PageTyped'
    <3>1. asked' \in [Browser -> Nat] /\ answers' \in [Browser -> [Version -> Nat]]
      BY <1>0, <2>3
    <3>2. /\ asked'[b] = a /\ answers'[b] = f
          /\ \A c \in Browser \ {b} : asked'[c] = asked[c] /\ answers'[c] = answers[c]
      BY <1>0, <2>3
    <3>3. \A c \in Browser : asked'[c] + SumFunction(answers'[c]) <= MaxInFlight
      BY <1>0, <2>3, <3>2
    <3> QED
      BY <1>0, <2>1, <2>3, <3>1, <3>3 DEF PageTyped, InFlight
  <2>4. CASE Refetch(b)
    <3>1. /\ asked' = [asked EXCEPT ![b] = asked[b] + 1] /\ answers' = [answers EXCEPT ![b] = answers[b]]
          /\ shown' = shown /\ asked[b] + SumFunction(answers[b]) < MaxInFlight
      BY <1>0, <2>4 DEF Refetch, InFlight
    <3>2. asked[b] + 1 \in Nat /\ (asked[b] + 1) + SumFunction(answers[b]) <= MaxInFlight
      BY <1>0, <2>2, <3>1
    <3> QED
      BY <1>0, <2>2, <2>3, <3>1, <3>2
  <2>5. CASE Serve(b)
    <3> DEFINE v == entry.version
               f == [answers[b] EXCEPT ![v] = answers[b][v] + 1]
    <3>1. /\ asked' = [asked EXCEPT ![b] = asked[b] - 1] /\ answers' = [answers EXCEPT ![b] = f]
          /\ shown' = shown /\ asked[b] > 0
      <4>1. asked' = [asked EXCEPT ![b] = asked[b] - 1] /\ shown' = shown /\ asked[b] > 0
        BY <2>5 DEF Serve
      <4>2. answers' = [answers EXCEPT ![b] = f]
        BY <2>5, Zenon DEF Serve
      <4> QED
        BY <4>1, <4>2
    <3>2. v \in Version /\ answers[b][v] + 1 \in Nat
      BY <1>0, <2>2
    <3>3. f \in [Version -> Nat] /\ SumFunction(f) = SumFunction(answers[b]) + 1
      BY <2>2, <3>2
    <3> HIDE DEF f
    <3>4. asked[b] - 1 \in Nat /\ (asked[b] - 1) + SumFunction(f) <= MaxInFlight
      BY <1>0, <2>2, <3>1, <3>3
    <3> QED
      BY <1>0, <2>3, <3>1, <3>3, <3>4
  <2>6. CASE Display(b)
    <3>1. PICK v \in Version :
            /\ answers[b][v] > 0
            /\ answers' = [answers EXCEPT ![b][v] = @ - 1]
            /\ shown' = [shown EXCEPT ![b] = v]
      BY <2>6 DEF Display
    <3> DEFINE f == [answers[b] EXCEPT ![v] = answers[b][v] - 1]
    <3>2. asked' = [asked EXCEPT ![b] = asked[b]] /\ answers' = [answers EXCEPT ![b] = f]
      <4>1. asked' = asked
        BY <2>6 DEF Display
      <4>2. answers' = [answers EXCEPT ![b] = f]
        BY <3>1, Zenon
      <4> QED
        BY <1>0, <4>1, <4>2
    <3>3. answers[b][v] - 1 \in Nat
      BY <2>2, <3>1
    <3>4. f \in [Version -> Nat] /\ SumFunction(f) = SumFunction(answers[b]) - 1
      BY <2>2, <3>3
    <3> HIDE DEF f
    <3>5. asked[b] + SumFunction(f) <= MaxInFlight /\ shown' \in [Browser -> Version]
      BY <1>0, <2>2, <3>1, <3>4
    <3> QED
      BY <2>2, <2>3, <3>2, <3>4, <3>5
  <2> QED
    BY <1>4, <2>4, <2>5, <2>6 DEF Shows
<1> QED
  BY <1>2, <1>3, <1>4 DEF Next

(* It holds when the page is loaded.                                       *)
LEMMA InitTInv == Init => TInv
<1> SUFFICES ASSUME Init PROVE TInv
  OBVIOUS
<1>1. MaxData \in Nat /\ MaxWire \in Nat /\ MaxInFlight \in Nat
  BY PushBoundAssumption
<1>2. IInv
  BY InitIInv
<1>3. OnlyLatest /\ ServerTyped
  BY <1>1 DEF Init, OnlyLatest, ServerTyped, Version, None
<1>4. PageTyped
  <2> DEFINE none == [v \in Version |-> 0]
  <2>1. /\ wire \in [Browser -> 0 .. MaxWire] /\ shown \in [Browser -> Version]
        /\ missed \in [Browser -> BOOLEAN] /\ asked \in [Browser -> Nat]
    BY <1>1 DEF Init, All, Version
  <2>2. answers = [b \in Browser |-> none] /\ none \in [Version -> Nat]
    BY DEF Init, All
  <2>3. SumFunction(none) = 0
    <3>1. IsFiniteSet(Version) /\ DOMAIN none = Version
      BY <1>1, FS_Interval DEF Version
    <3>2. \A v \in Version : none[v] = 0
      OBVIOUS
    <3> HIDE DEF none
    <3>3. SumFunctionOnSet(none, Version) = 0
      BY <3>1, <3>2, SumOfZeroes
    <3> QED
      BY <3>1, <3>3 DEF SumFunction
  <2> HIDE DEF none
  <2>4. \A b \in Browser : asked[b] = 0 /\ answers[b] = none
    BY <2>2 DEF Init, All
  <2>5. \A b \in Browser : InFlight(b) <= MaxInFlight
    BY <1>1, <2>3, <2>4 DEF InFlight
  <2> QED
    BY <2>1, <2>2, <2>5 DEF PageTyped
<1> QED
  BY <1>2, <1>3, <1>4 DEF TInv

(* Only the latest stream of a page is subscribed, for as long as its      *)
(* generator runs; queues, network and the fetches of a page keep within   *)
(* their bounds.                                                           *)
THEOREM TypeCorrect == Spec => []TypeOK
<1>1. TInv /\ [Next]_vars => TInv'
  BY NextKeeps, OnlyLatestKept, ServerTypedKept, PageTypedKept DEF TInv
<1> QED
  BY <1>1, InitTInv, TInvTyped, PTL DEF Spec
=============================================================================
