---------------------------- MODULE FeatureProxy ----------------------------
(***************************************************************************)
(* The proxy for HID feature reports: m61_usb_gamepad.c keeps a cache of   *)
(* the controller's feature reports, a FIFO of reports to ask it for and a *)
(* FIFO of reports the host sets; the bridge task of main.c forwards both. *)
(*                                                                         *)
(* USB callbacks answer the host from the cache, or queue a request and    *)
(* answer nothing, so the host asks again.  The Bluetooth task stores what *)
(* the controller answers.  Either acts between any two steps of the       *)
(* bridge, which has the lowest priority of the three.                     *)
(*                                                                         *)
(* Report 0x81 ("PAGE") shows a page that a SET of report 0x80 ("SELECT")  *)
(* chooses; the other reports are constant for one controller.             *)
(***************************************************************************)
EXTENDS Integers, Sequences, FiniteSets, FiniteSetsExt

CONSTANTS
    StaticIds,     \* reports besides PAGE the host asks for
    CacheSlots,    \* FEATURE_CACHE_SLOTS
    GetDepth,      \* FEATURE_GET_QUEUE_DEPTH
    SetDepth,      \* FEATURE_SET_QUEUE_DEPTH
    PerTick,       \* CONFIG_M61_DS5_FEATURE_REPORTS_PER_TICK
    WireDepth,     \* bound: messages on their way to or from the controller
    MaxSets,       \* bound: reports the host sets
    MaxSessions,   \* bound: connections of a controller
    MaxUsbResets   \* bound: resets of the USB bus

ASSUME FeatureAssumption ==
    /\ "PAGE" \notin StaticIds /\ "NONE" \notin StaticIds
    /\ \A n \in {CacheSlots, GetDepth, SetDepth, PerTick, WireDepth} : n \in Nat \ {0}
    /\ MaxSets \in Nat /\ MaxSessions \in Nat /\ MaxUsbResets \in Nat

VARIABLES
    cache,         \* slot -> entry, or Invalid
    replace,       \* feature_cache_replace_index
    getRing, getHead, getTail, getCount,   \* feature_get_queue
    setQueue,      \* feature_set_queue
    pc,            \* where the bridge task is
    setPending,    \* feature_set_pending and pending_feature_set, or NoSet
    getPending,    \* feature_pending and pending_feature_report_id, or NoId
    sentNow,       \* feature_reports_this_tick
    link,          \* "none", "acl" (connected) or "open" (control channel open)
    session,       \* number of the connection
    toPad, fromPad,  \* messages on the control channel
    page,          \* page the controller shows
    lastSet,       \* number of the last report the host set (history)
    usbResets      \* resets of the USB bus (history)

cacheVars == <<cache, replace>>
getVars == <<getRing, getHead, getTail, getCount>>
bridgeVars == <<pc, setPending, getPending, sentNow>>
padVars == <<link, session, toPad, fromPad, page>>
history == <<lastSet, usbResets>>
vars == <<cacheVars, getVars, setQueue, bridgeVars, padVars, history>>

Ids == StaticIds \cup {"PAGE"}
NoId == "NONE"
Places == 0 .. GetDepth - 1
CacheIndex == 0 .. CacheSlots - 1
SetReports == [n : 1 .. MaxSets, kind : {"SELECT", "OTHER"}]
NoSet == [n |-> 0, kind |-> "NONE"]
Entries == [id : Ids, page : 0 .. MaxSets, session : 1 .. MaxSessions]
Invalid == [id |-> NoId, page |-> 0, session |-> 0]

Init ==
    /\ cache = [s \in CacheIndex |-> Invalid] /\ replace = 0
    /\ getRing = [p \in Places |-> NoId] /\ getHead = 0 /\ getTail = 0 /\ getCount = 0
    /\ setQueue = <<>>
    /\ pc = "host" /\ setPending = NoSet /\ getPending = NoId /\ sentNow = 0
    /\ link = "none" /\ session = 0 /\ toPad = <<>> /\ fromPad = <<>> /\ page = 0
    /\ lastSet = 0 /\ usbResets = 0

-----------------------------------------------------------------------------
(* The cache                                                               *)

Holding(id) == {s \in CacheIndex : cache[s].id = id}
Cached(id) == Holding(id) # {}

Invalidate(id) ==
    cache' = [s \in CacheIndex |->
                IF Cached(id) /\ s = Min(Holding(id)) THEN Invalid ELSE cache[s]]

(* The slot of the report, else a free one, else the one to replace next.  *)
FaultStoreSlot(id) ==
    IF Holding(NoId) # {} THEN Min(Holding(NoId)) ELSE replace % CacheSlots
StoreSlot(id) ==
    IF Cached(id) THEN Min(Holding(id))
    ELSE IF Holding(NoId) # {} THEN Min(Holding(NoId))
    ELSE replace % CacheSlots

-----------------------------------------------------------------------------
(* The ring of requests                                                    *)

Place(i) == (getTail + i) % GetDepth
Queued(id) == \E i \in 0 .. getCount - 1 : getRing[Place(i)] = id
FaultQueueFull == getCount > GetDepth
QueueFull == getCount >= GetDepth

(* queue_feature_request: once per report, lost when there is no room.     *)
Request(id) ==
    IF Queued(id) \/ QueueFull THEN UNCHANGED getVars
    ELSE /\ getRing' = [getRing EXCEPT ![getHead] = id]
         /\ getHead' = (getHead + 1) % GetDepth
         /\ getCount' = getCount + 1
         /\ UNCHANGED getTail

(* remove_queued_feature_request_locked moves the requests that stay       *)
(* towards the tail, in place.                                             *)
FaultCompact(id) ==
    LET step[i \in 0 .. getCount] ==
          IF i = 0 THEN [ring |-> getRing, kept |-> 0]
          ELSE LET before == step[i - 1]
                   entry == before.ring[Place(i - 1)]
               IN  IF entry = id THEN before
                   ELSE [ring |-> [before.ring EXCEPT ![before.kept] = entry],
                         kept |-> before.kept + 1]
    IN  step[getCount]
Compact(id) ==
    LET step[i \in 0 .. getCount] ==
          IF i = 0 THEN [ring |-> getRing, kept |-> 0]
          ELSE LET before == step[i - 1]
                   entry == before.ring[Place(i - 1)]
               IN  IF entry = id THEN before
                   ELSE [ring |-> [before.ring EXCEPT ![Place(before.kept)] = entry],
                         kept |-> before.kept + 1]
    IN  step[getCount]

Remove(id) ==
    /\ getRing' = Compact(id).ring
    /\ getCount' = Compact(id).kept
    /\ getHead' = Place(Compact(id).kept)
    /\ UNCHANGED getTail

ClearRequests == getHead' = 0 /\ getTail' = 0 /\ getCount' = 0 /\ UNCHANGED getRing

-----------------------------------------------------------------------------
(* USB callbacks: the host gets and sets reports and resets the bus        *)

HostGets(id) ==
    /\ ~Cached(id)
    /\ Request(id)
    /\ UNCHANGED <<cacheVars, setQueue, bridgeVars, padVars, lastSet, usbResets>>

HostSets(kind) ==
    /\ lastSet < MaxSets /\ lastSet' = lastSet + 1
    /\ IF kind = "SELECT" THEN Invalidate("PAGE") ELSE UNCHANGED cache
    /\ setQueue' = IF Len(setQueue) < SetDepth
                   THEN Append(setQueue, [n |-> lastSet', kind |-> kind]) ELSE setQueue
    /\ UNCHANGED <<replace, getVars, bridgeVars, padVars, usbResets>>

UsbReset ==
    /\ usbResets < MaxUsbResets /\ usbResets' = usbResets + 1
    /\ setQueue' = <<>>
    /\ ClearRequests
    /\ Invalidate("PAGE")
    /\ UNCHANGED <<replace, bridgeVars, padVars, lastSet>>

Host == (\E id \in Ids : HostGets(id)) \/ (\E k \in {"SELECT", "OTHER"} : HostSets(k)) \/ UsbReset

-----------------------------------------------------------------------------
(* The Bluetooth task                                                      *)

(* m61_usb_gamepad_clear_feature_reports, from auto_reset_link_state.      *)
ClearReports ==
    /\ cache' = [s \in CacheIndex |-> Invalid] /\ replace' = 0
    /\ ClearRequests

(* connected: a controller, perhaps another one.                           *)
Connected ==
    /\ link = "none" /\ link' = "acl"
    /\ session < MaxSessions /\ session' = session + 1
    /\ ClearReports
    /\ page' = 0
    /\ UNCHANGED <<setQueue, bridgeVars, toPad, fromPad, history>>

(* hidp_l2cap_connected                                                    *)
ChannelOpens ==
    /\ link = "acl" /\ link' = "open"
    /\ UNCHANGED <<cacheVars, getVars, setQueue, bridgeVars, session, toPad, fromPad, page, history>>

(* hidp_l2cap_disconnected: what is on its way is lost.                    *)
ChannelCloses ==
    /\ link = "open" /\ link' = "acl"
    /\ toPad' = <<>> /\ fromPad' = <<>>
    /\ UNCHANGED <<cacheVars, getVars, setQueue, bridgeVars, session, page, history>>

(* disconnected, after hidp_l2cap_disconnected of a channel that was open. *)
Disconnected ==
    /\ link # "none" /\ link' = "none"
    /\ toPad' = <<>> /\ fromPad' = <<>>
    /\ ClearReports
    /\ UNCHANGED <<setQueue, bridgeVars, session, page, history>>

(* m61_usb_gamepad_store_feature_report, from hidp_l2cap_recv.             *)
Store ==
    /\ fromPad # <<>> /\ fromPad' = Tail(fromPad)
    /\ LET r == Head(fromPad) IN
         /\ cache' = [cache EXCEPT ![StoreSlot(r.id)] = r]
         /\ replace' = IF Cached(r.id) \/ Holding(NoId) # {}
                       THEN replace ELSE (replace + 1) % CacheSlots
         /\ Remove(r.id)
    /\ UNCHANGED <<setQueue, bridgeVars, link, session, toPad, page, history>>

(* The controller serves the channel in order and answers a GET with the   *)
(* report as it is then.                                                   *)
Serve ==
    /\ toPad # <<>> /\ toPad' = Tail(toPad)
    /\ LET m == Head(toPad) IN
         IF m.set # NoSet
         THEN /\ page' = IF m.set.kind = "SELECT" THEN m.set.n ELSE page
              /\ UNCHANGED fromPad
         ELSE /\ Len(fromPad) < WireDepth
              /\ fromPad' = Append(fromPad,
                    [id |-> m.id, session |-> session,
                     page |-> IF m.id = "PAGE" THEN page ELSE 0])
              /\ UNCHANGED page
    /\ UNCHANGED <<cacheVars, getVars, setQueue, bridgeVars, link, session, history>>

Bluetooth == Connected \/ ChannelOpens \/ ChannelCloses \/ Disconnected \/ Store \/ Serve

-----------------------------------------------------------------------------
(* usb_hid_bridge_task                                                     *)

(* hidp_send_raw_timeout: no channel, no buffer, a failure of the stack,   *)
(* or the message is on its way.                                           *)
SendResults ==
    IF link # "open" THEN {"NOTCONN"}
    ELSE {"NOMEM", "FAIL"} \cup (IF Len(toPad) < WireDepth THEN {"SUCCESS"} ELSE {})

SendMessage(r, m) == toPad' = IF r = "SUCCESS" THEN Append(toPad, m) ELSE toPad

(* The loop over the host's reports takes at most one SET.                 *)
TakeSet ==
    /\ pc = "host" /\ pc' = "set"
    /\ IF setPending = NoSet /\ setQueue # <<>>
       THEN setPending' = Head(setQueue) /\ setQueue' = Tail(setQueue)
       ELSE UNCHANGED <<setPending, setQueue>>
    /\ sentNow' = 0
    /\ UNCHANGED <<cacheVars, getVars, getPending, padVars, history>>

NoSetPending ==
    /\ pc = "set" /\ setPending = NoSet /\ pc' = "get"
    /\ UNCHANGED <<cacheVars, getVars, setQueue, setPending, getPending, sentNow, padVars, history>>

(* A SET without buffer is tried again, any other failure loses it.        *)
FaultSetStaysSent(r) == r \in {"NOMEM", "SUCCESS"}
FaultSetStaysUnconnected(r) == r # "SUCCESS"
SetStays(r) == r = "NOMEM"
ForwardSet(r) ==
    /\ pc = "set" /\ setPending # NoSet
    /\ r \in SendResults
    /\ SendMessage(r, [set |-> setPending, id |-> NoId])
    /\ setPending' = IF SetStays(r) THEN setPending ELSE NoSet
    /\ pc' = IF r = "SUCCESS" /\ setPending.kind = "SELECT" THEN "refresh" ELSE "get"
    /\ UNCHANGED <<cacheVars, getVars, setQueue, getPending, sentNow, link, session,
                   fromPad, page, history>>

Refresh ==
    /\ pc = "refresh" /\ pc' = "get"
    /\ Request("PAGE")
    /\ UNCHANGED <<cacheVars, setQueue, setPending, getPending, sentNow, padVars, history>>

(* m61_usb_gamepad_take_feature_request, unless a request is kept.         *)
FaultNextRequest == getRing[Place(getCount - 1)]
NextRequest == getRing[getTail]
TakeGet ==
    /\ pc = "get" /\ sentNow < PerTick
    /\ IF getPending # NoId
       THEN pc' = "send" /\ UNCHANGED <<getVars, getPending>>
       ELSE /\ getCount > 0
            /\ getPending' = NextRequest
            /\ getTail' = (getTail + 1) % GetDepth /\ getCount' = getCount - 1
            /\ pc' = "send" /\ UNCHANGED <<getRing, getHead>>
    /\ UNCHANGED <<cacheVars, setQueue, setPending, sentNow, padVars, history>>

(* A request that cannot be sent is kept for the next turn.                *)
SendGet(r) ==
    /\ pc = "send"
    /\ r \in SendResults
    /\ SendMessage(r, [set |-> NoSet, id |-> getPending])
    /\ IF r = "SUCCESS"
       THEN pc' = "get" /\ getPending' = NoId /\ sentNow' = sentNow + 1
       ELSE pc' = "host" /\ UNCHANGED <<getPending, sentNow>>
    /\ UNCHANGED <<cacheVars, getVars, setQueue, setPending, link, session, fromPad, page, history>>

TurnEnds ==
    /\ pc = "get" /\ pc' = "host"
    /\ sentNow = PerTick \/ (getPending = NoId /\ getCount = 0)
    /\ UNCHANGED <<cacheVars, getVars, setQueue, setPending, getPending, sentNow, padVars, history>>

Results == {"SUCCESS", "NOMEM", "FAIL", "NOTCONN"}

Step ==
    \/ TakeSet \/ NoSetPending \/ Refresh \/ TakeGet \/ TurnEnds
    \/ \E r \in Results : ForwardSet(r) \/ SendGet(r)

Next == Host \/ Bluetooth \/ Step

Spec == Init /\ [][Next]_vars

(* The bridge runs.  While the channel is open the controller serves it,   *)
(* answers are stored, and the stack sooner or later takes a message.      *)
Fairness ==
    /\ WF_vars(Step) /\ WF_vars(Serve) /\ WF_vars(Store)
    /\ SF_vars(ForwardSet("SUCCESS")) /\ SF_vars(SendGet("SUCCESS"))

FairSpec == Spec /\ Fairness

-----------------------------------------------------------------------------
(* Correctness                                                             *)

Messages == [set : SetReports \cup {NoSet}, id : Ids \cup {NoId}]

TypeOK ==
    /\ cache \in [CacheIndex -> Entries \cup {Invalid}] /\ replace \in CacheIndex
    /\ getRing \in [Places -> Ids \cup {NoId}]
    /\ getHead \in Places /\ getTail \in Places /\ getCount \in 0 .. GetDepth
    /\ setQueue \in Seq(SetReports) /\ Len(setQueue) <= SetDepth
    /\ pc \in {"host", "set", "refresh", "get", "send"}
    /\ setPending \in SetReports \cup {NoSet} /\ getPending \in Ids \cup {NoId}
    /\ sentNow \in 0 .. PerTick
    /\ link \in {"none", "acl", "open"} /\ session \in 0 .. MaxSessions
    /\ toPad \in Seq(Messages) /\ fromPad \in Seq(Entries) /\ page \in 0 .. MaxSets
    /\ lastSet \in 0 .. MaxSets /\ usbResets \in 0 .. MaxUsbResets

Waiting == [i \in 1 .. getCount |-> getRing[Place(i - 1)]]

(* t is s without x: f picks the entries that stay.                        *)
Without(x, s, t) ==
    \E f \in [1 .. Len(t) -> 1 .. Len(s)] :
        /\ \A i, j \in 1 .. Len(t) : i < j => f[i] < f[j]
        /\ \A i \in 1 .. Len(t) : t[i] = s[f[i]]
        /\ \A k \in 1 .. Len(s) : s[k] # x <=> \E i \in 1 .. Len(t) : f[i] = k

(* Whatever is taken, removed in place or added while the ring wraps, the  *)
(* requests that stay keep their order and none is lost or repeated: they  *)
(* change like a sequence without duplicates.                              *)
RequestsKept ==
    [][\/ Waiting' \in {Waiting, <<>>}
       \/ \E id \in Ids : Without(id, Waiting, Waiting')
       \/ \E id \in Ids : ~Queued(id) /\ Waiting' = Append(Waiting, id)
      ]_vars

(* The places in use are those from the tail to the head, and each holds a *)
(* request of its own.                                                     *)
RingOfRequests ==
    /\ getHead = Place(getCount)
    /\ \A i \in 0 .. getCount - 1 :
          /\ getRing[Place(i)] # NoId
          /\ \A j \in 0 .. getCount - 1 : getRing[Place(i)] = getRing[Place(j)] => i = j

(* A report is in the cache at most once, so the host never reads an older *)
(* copy, and what is cached comes from the controller that is connected,   *)
(* although the bridge keeps its pending requests over a disconnection.    *)
CacheOfController ==
    /\ \A id \in Ids : Cardinality(Holding(id)) <= 1
    /\ \A s \in CacheIndex : cache[s] # Invalid =>
          link # "none" /\ cache[s].session = session

(* What is on its way belongs to the channel that is open: answers are of  *)
(* this connection, and a request names a report.                          *)
OnTheWay ==
    /\ link # "open" => toPad = <<>> /\ fromPad = <<>>
    /\ link # "none" => session # 0
    /\ \A i \in 1 .. Len(fromPad) : fromPad[i].session = session
    /\ \A i \in 1 .. Len(toPad) : toPad[i].set = NoSet => toPad[i].id # NoId
    /\ pc = "send" => getPending # NoId

(* SETs reach the controller in the order in which the host sent them and  *)
(* none reaches it twice, retries and lost ones in between.  Other         *)
(* messages count as number 0.                                             *)
SetNumbers ==
    LET queued == [i \in 1 .. Len(toPad) |-> toPad[i].set.n]
        waiting == [i \in 1 .. Len(setQueue) |-> setQueue[i].n]
    IN  queued \o <<setPending.n>> \o waiting
SetsInOrder ==
    \A i, j \in 1 .. Len(SetNumbers) :
        i < j /\ SetNumbers[i] # 0 /\ SetNumbers[j] # 0 => SetNumbers[i] < SetNumbers[j]

(* What the host asks for while the channel stays open comes into the      *)
(* cache, where the host finds it when it asks again: no request is lost   *)
(* between the ring, the bridge and a store that removes it.  A bus reset  *)
(* forgets requests; the last one is over here.                            *)
AnswerComes ==
    \A id \in Ids :
        (Queued(id) /\ usbResets = MaxUsbResets) ~> (Cached(id) \/ link # "open")

(* A SET does not hold up those behind it for ever, whether a controller   *)
(* is there or not, unless the channel keeps changing.                     *)
SetServed ==
    \A open \in BOOLEAN :
        (setPending # NoSet /\ (link = "open") = open)
            ~> (setPending = NoSet \/ (link = "open") # open)

(* The cache and the queues stay in their bounds, and what they and the    *)
(* channel hold is of the present controller (m61_usb_gamepad.c:2592).     *)
CacheSound == TypeOK /\ CacheOfController /\ RingOfRequests /\ OnTheWay

(* Nothing the host sends or asks for is held up for ever, by the bridge's *)
(* two pending slots or by a full ring (main.c:2686-2745).                 *)
HostServed == AnswerComes /\ SetServed
==============================================================================
