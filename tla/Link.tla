-------------------------------- MODULE Link --------------------------------
(***************************************************************************)
(* How main.c gets and keeps the Bluetooth link to a controller: the       *)
(* attempts of the automatic connection, the search that pairing mode      *)
(* runs, the two HIDP channels of a link and the cleanup that is put off   *)
(* when one of them goes down.                                             *)
(*                                                                         *)
(* Actors: the auto task, the commands of a user (button, shell, web       *)
(* page), and the callbacks of the Bluetooth stack.  Callbacks interrupt   *)
(* the auto task, which interrupts the shell, and nothing is locked: what  *)
(* these two test of a channel and what they do to it next are steps of    *)
(* their own, with any number of callbacks between them.  Pages and        *)
(* searches are answered over the air, long after the call that asks for   *)
(* them: such a call and the note its caller takes of the result are one   *)
(* step.  Delays are arbitrary: what the code does once a tick is due, the *)
(* model may do at any time.                                               *)
(***************************************************************************)
EXTENDS Integers, FiniteSets

CONSTANTS
    MaxAttempts,   \* CONFIG_M61_DS5_AUTO_SAVED_ADDR_ATTEMPTS
    Tasks,         \* bound: "auto", and "shell" if the commands that open channels are followed
    OrdersOnLink   \* bound: are settings that nothing reads on a link changed on one

ASSUME LinkAssumption ==
    /\ MaxAttempts \in Nat
    /\ "auto" \in Tasks /\ Tasks \subseteq {"auto", "shell"}
    /\ OrdersOnLink \in BOOLEAN

VARIABLES
    ready,         \* bt_ready
    link,          \* default_conn: "none", or "out" or "in" by who paged whom
    pending,       \* pending_conn: a controller is being paged
    discovery,     \* br_discovery_active
    connectable,   \* br_connectable_enabled: incoming pages are answered
    saved,         \* have_last_dualsense_addr
    enabled,       \* auto_start_enabled
    sequence,      \* auto_sequence_started: the auto task starts nothing
    attempts,      \* auto_saved_addr_attempts
    connectAfter,  \* auto_connect_after_scan
    pairing,       \* pairing_mode_active
    pairingAfter,  \* pairing_mode_after_disconnect
    asking,        \* request_pairing_mode has yet to start its search
    chan,          \* channel -> "idle", "opening" or "up"
    hidpRequested, \* auto_hidp_requested
    cleanup,       \* channels whose prepare is pending
    sweep,         \* task -> where it is in process_deferred_disconnect_cleanup
    open,          \* task -> where it is in its calls of hidp_channel_connect
    raced          \* history: see Race

radioVars == <<ready, link, pending, discovery, connectable>>
autoVars == <<enabled, sequence, attempts, connectAfter>>
pairVars == <<pairing, pairingAfter, asking>>
taskVars == <<sweep, open, raced>>
hidpVars == <<chan, hidpRequested, cleanup, taskVars>>
vars == <<radioVars, saved, autoVars, pairVars, hidpVars>>

Channels == {"control", "interrupt"}
Idle == [c \in Channels |-> "idle"]

(* Where a task is in its cleanup: through (None), or about to wipe a      *)
(* channel.  Where it is in its attempt to open the channels: about to look*)
(* at one, to call the stack for one, or to note the outcome (asked: so far*)
(* each is open or being opened).                                          *)
None == "none"
OpenAt(next, c, asked) == [next |-> next, of |-> c, asked |-> asked]
NoOpen == OpenAt("none", "control", TRUE)
Opens == [next : {"none", "look", "call", "note"}, of : Channels, asked : BOOLEAN]

Init ==
    /\ ready = FALSE /\ link = "none" /\ pending = FALSE /\ discovery = FALSE
    /\ connectable = FALSE
    /\ saved \in BOOLEAN /\ enabled \in BOOLEAN
    /\ sequence = FALSE /\ attempts = 0 /\ connectAfter = FALSE
    /\ pairing = FALSE /\ pairingAfter = FALSE /\ asking = FALSE
    /\ chan = Idle /\ hidpRequested = FALSE /\ cleanup = {}
    /\ sweep = [t \in Tasks |-> None] /\ open = [t \in Tasks |-> NoOpen] /\ raced = {}

(* bt_enable_cb: Bluetooth is up; from now on a page is answered.          *)
BluetoothReady ==
    /\ ~ready
    /\ ready' = TRUE /\ connectable' = TRUE
    /\ UNCHANGED <<link, pending, discovery, saved, autoVars, pairVars, hidpVars>>

-----------------------------------------------------------------------------
(* Cleanup *)

(* A task is between its steps; it has the processor while no task of a    *)
(* higher priority is; it may begin.                                       *)
Busy(t) == sweep[t] # None \/ open[t] # NoOpen
Runs(t) == t = "auto" \/ ~Busy("auto")
Free(t) == Runs(t) /\ ~Busy(t)

(* hidp_channel_prepare wipes a channel for the next use.  One that the    *)
(* stack was opening is lost to it; the flag of one that is up lies outside*)
(* what is wiped.                                                          *)
Wiped(c) == [chan EXCEPT ![c] = IF @ = "up" THEN @ ELSE "idle"]

(* A task has looked at a channel and is not through with what follows,    *)
(* which for the auto task is the note of what became of both channels.    *)
Holds(t, c) ==
    \/ sweep[t] = c
    \/ open[t].next = "call" /\ open[t].of = c
    \/ /\ t = "auto" /\ open[t] # NoOpen
       /\ c = "control" \/ open[t].next = "note"

(* The use of some channels begins or ends: raced keeps those that a task  *)
(* had in its hands, so that it goes on with what it saw before.           *)
Race(cs) == raced' = (raced \ cs) \cup {c \in cs : \E t \in Tasks : Holds(t, c)}

(* process_deferred_disconnect_cleanup in a callback, which nothing here   *)
(* interrupts: each channel that waits is wiped, unless it is up; or it is *)
(* still ahead (~due), and the caller gives up.                            *)
Prepared == [c \in Channels |-> IF c \in cleanup THEN Wiped(c)[c] ELSE chan[c]]
CleanupDone == cleanup' = {}
CleanupAhead == cleanup # {} /\ UNCHANGED cleanup

(* The same in the auto task or the shell, in the loop or at the head of   *)
(* another call: for each channel that waits a test, then, unless it is up,*)
(* the wipe with the end of the waiting.  (Whatever comes between these two*)
(* might as well come before both or after, and a pause between the        *)
(* channels may be as long as one likes, so they come in any order.)       *)
SweepTest(t, c) ==
    /\ Free(t) \/ (Runs(t) /\ sweep[t] = None /\ open[t].next = "look")
    /\ c \in cleanup
    /\ IF chan[c] = "up"
       THEN cleanup' = cleanup \ {c} /\ UNCHANGED sweep
       ELSE sweep' = [sweep EXCEPT ![t] = c] /\ UNCHANGED cleanup
    /\ UNCHANGED <<radioVars, saved, autoVars, pairVars, chan, hidpRequested, open, raced>>
SweepWipe(t, c) ==
    /\ Runs(t) /\ sweep[t] = c
    /\ chan' = Wiped(c) /\ cleanup' = cleanup \ {c}
    /\ sweep' = [sweep EXCEPT ![t] = None]
    /\ UNCHANGED <<radioVars, saved, autoVars, pairVars, hidpRequested, open, raced>>

Sweep(t) == \E c \in Channels : SweepTest(t, c) \/ SweepWipe(t, c)

-----------------------------------------------------------------------------
(* Calls *)

(* connect_addr, after the cleanup: a page begins, or the call fails.      *)
PageStarts ==
    /\ ready /\ ~discovery /\ link = "none" /\ ~pending /\ cleanup = {}
    /\ pending' = TRUE
PageRefused == UNCHANGED pending

(* start_inquiry: a search begins, or the call fails: one is under way or  *)
(* the stack refuses.                                                      *)
SearchStarts == ~discovery /\ discovery' = TRUE
SearchRefused == UNCHANGED discovery

(* auto_schedule_retry, done only while automatic connection is enabled.   *)
FaultRetryNever == UNCHANGED sequence
RetryIfEnabled == sequence' = (sequence /\ ~enabled)

-----------------------------------------------------------------------------
(* The auto task *)

(* Without a link, a sequence is started: the saved controller is paged, a *)
(* few times at most, and then searched for.                               *)
FaultMayStartNotExhausted ==
    /\ Free("auto") /\ ready /\ link = "none" /\ enabled /\ ~pairing /\ ~sequence
    /\ attempts < MaxAttempts
MayStart == Free("auto") /\ ready /\ link = "none" /\ enabled /\ ~pairing /\ ~sequence

FaultPageSavedOnceMore == saved /\ attempts <= MaxAttempts
PageSaved == saved /\ attempts < MaxAttempts

AutoPage ==
    /\ MayStart /\ PageSaved
    /\ attempts' = attempts + 1
    /\ \/ PageStarts /\ sequence' = TRUE
       \/ PageRefused /\ UNCHANGED sequence
    /\ UNCHANGED <<ready, link, discovery, connectable, saved, enabled, connectAfter,
                   pairVars, hidpVars>>

AutoSearch ==
    /\ MayStart /\ ~PageSaved
    /\ connectAfter' = TRUE
    /\ \/ SearchStarts /\ sequence' = TRUE
       \/ SearchRefused /\ UNCHANGED sequence
    /\ UNCHANGED <<ready, link, pending, connectable, saved, enabled, attempts,
                   pairVars, hidpVars>>

(* hidp_channel_connect, for the control and then the interrupt channel:   *)
(* first the tests, then the wipe and the call of the stack, which refuses *)
(* a channel in use.  (Whatever comes between these two might as well come *)
(* before both, or after a call that fails.)  The auto task opens the      *)
(* channels of a link it paged itself, and in the end notes whether each is*)
(* open or being opened; otherwise it tries again.  The shell ("ds5 hidp") *)
(* opens those of any link.                                                *)
MayOpen(t) == IF t = "auto" THEN link = "out" /\ ~hidpRequested ELSE link # "none"

AfterOpen(t, c, asked) ==
    IF c = "control" THEN OpenAt("look", "interrupt", asked \/ t = "shell")
    ELSE IF t = "auto" THEN OpenAt("note", c, asked) ELSE NoOpen

FaultLookWithoutCleanup(t, c) ==
    /\ Runs(t) /\ sweep[t] = None
    /\ IF c = "control" THEN Free(t) /\ MayOpen(t)
                       ELSE open[t].next = "look" /\ open[t].of = c
    /\ IF link # "none" /\ chan[c] = "idle"
       THEN /\ open' = [open EXCEPT ![t] = OpenAt("call", c, open[t].asked)]
            /\ raced' = IF t = "auto" THEN raced \ {c} ELSE raced
       ELSE /\ open' = [open EXCEPT ![t] =
                  AfterOpen(t, c, open[t].asked /\ chan[c] # "idle" /\ link # "none")]
            /\ UNCHANGED raced
    /\ UNCHANGED <<radioVars, saved, autoVars, pairVars, chan, hidpRequested, cleanup, sweep>>
OpenLook(t, c) ==
    /\ Runs(t) /\ sweep[t] = None
    /\ IF c = "control" THEN Free(t) /\ MayOpen(t)
                       ELSE open[t].next = "look" /\ open[t].of = c
    /\ IF cleanup = {} /\ link # "none" /\ chan[c] = "idle"
       THEN /\ open' = [open EXCEPT ![t] = OpenAt("call", c, open[t].asked)]
            /\ raced' = IF t = "auto" THEN raced \ {c} ELSE raced
       ELSE /\ open' = [open EXCEPT ![t] =
                  AfterOpen(t, c, open[t].asked /\ cleanup = {} /\ link # "none")]
            /\ UNCHANGED raced
    /\ UNCHANGED <<radioVars, saved, autoVars, pairVars, chan, hidpRequested, cleanup, sweep>>
OpenCall(t, c) ==
    /\ Runs(t) /\ sweep[t] = None /\ open[t].next = "call" /\ open[t].of = c
    /\ \/ /\ link # "none" /\ Wiped(c)[c] = "idle"
          /\ chan' = [chan EXCEPT ![c] = "opening"]
          /\ open' = [open EXCEPT ![t] = AfterOpen(t, c, open[t].asked)]
          /\ raced' = IF \E u \in Tasks \ {t} : Holds(u, c) THEN raced \cup {c} ELSE raced
       \/ /\ chan' = Wiped(c)
          /\ open' = [open EXCEPT ![t] = AfterOpen(t, c, FALSE)]
          /\ UNCHANGED raced
    /\ UNCHANGED <<radioVars, saved, autoVars, pairVars, hidpRequested, cleanup, sweep>>
OpenNote ==
    /\ sweep["auto"] = None /\ open["auto"].next = "note"
    /\ hidpRequested' = open["auto"].asked
    /\ open' = [open EXCEPT !["auto"] = NoOpen]
    /\ UNCHANGED <<radioVars, saved, autoVars, pairVars, chan, cleanup, sweep, raced>>

OpenStep(t) == \E c \in Channels : OpenLook(t, c) \/ OpenCall(t, c)

(* On a link the controller paged, the controller opens them.              *)
AwaitChannels ==
    /\ Free("auto") /\ link = "in" /\ ~hidpRequested
    /\ hidpRequested' = TRUE
    /\ UNCHANGED <<radioVars, saved, autoVars, pairVars, chan, cleanup, taskVars>>

-----------------------------------------------------------------------------
(* Callbacks of the stack: links *)

(* connected() without an error.                                           *)
LinkUp(direction) ==
    /\ link' = direction
    /\ attempts' = 0 /\ pairingAfter' = FALSE /\ connectAfter' = FALSE
    /\ sequence' = TRUE /\ saved' = TRUE
    /\ hidpRequested' = FALSE /\ chan' = Idle
    /\ UNCHANGED <<ready, discovery, connectable, enabled, pairing, asking, cleanup, taskVars>>

PageAnswered == pending /\ link = "none" /\ pending' = FALSE /\ LinkUp("out")
Incoming == ready /\ connectable /\ link = "none" /\ LinkUp("in") /\ UNCHANGED pending

(* connected() with an error.                                              *)
PageFails ==
    /\ pending
    /\ pending' = FALSE
    /\ RetryIfEnabled
    /\ pairing' = FALSE /\ pairingAfter' = FALSE
    /\ connectable' = TRUE
    /\ UNCHANGED <<ready, link, discovery, saved, enabled, attempts, connectAfter,
                   asking, hidpVars>>

(* What disconnected() leaves of pairing mode: a request that waited for   *)
(* the end of the link goes on as if it were made now.                     *)
PairingGoesOn ==
    IF ~pairingAfter
    THEN pairing' = FALSE /\ connectAfter' = FALSE /\ UNCHANGED discovery
    ELSE \/ pending /\ pairing' = FALSE /\ connectAfter' = FALSE /\ UNCHANGED discovery
         \/ ~pending /\ discovery /\ pairing' = TRUE /\ connectAfter' = TRUE
                     /\ UNCHANGED discovery
         \/ ~pending /\ SearchStarts /\ pairing' = TRUE /\ connectAfter' = TRUE
         \/ /\ ~pending /\ ~discovery /\ SearchRefused
            /\ pairing' = FALSE /\ connectAfter' = FALSE

(* The end of a link: the stack closes its channels, then disconnected().  *)
(* The auto task stays idle until something asks it to go on.              *)
FaultDisconnectedUnreachable ==
    /\ link # "none"
    /\ link' = "none"
    /\ attempts' = 0 /\ sequence' = TRUE
    /\ hidpRequested' = FALSE /\ chan' = Idle /\ cleanup' = Channels /\ Race(Channels)
    /\ pairingAfter' = FALSE
    /\ PairingGoesOn
    /\ UNCHANGED <<ready, pending, connectable, saved, enabled, asking, sweep, open>>
Disconnected ==
    /\ link # "none"
    /\ link' = "none"
    /\ attempts' = 0 /\ sequence' = TRUE
    /\ hidpRequested' = FALSE /\ chan' = Idle /\ cleanup' = Channels /\ Race(Channels)
    /\ connectable' = TRUE
    /\ pairingAfter' = FALSE
    /\ PairingGoesOn
    /\ UNCHANGED <<ready, pending, saved, enabled, asking, sweep, open>>

(* bt_br_discv_cb at the end of a search, which found a DualSense or not.  *)
SearchEnds(found) ==
    /\ discovery
    /\ discovery' = FALSE /\ connectAfter' = FALSE
    /\ saved' = (saved \/ found)
    /\ attempts' = IF found THEN 0 ELSE attempts
    /\ IF connectAfter /\ found /\ link = "none"
       THEN \/ /\ ready /\ ~pending /\ CleanupDone /\ chan' = Prepared
               /\ pending' = TRUE /\ UNCHANGED <<pairing, sequence>>
            \/ /\ (CleanupAhead /\ UNCHANGED chan) \/ (CleanupDone /\ chan' = Prepared)
               /\ PageRefused /\ pairing' = FALSE /\ RetryIfEnabled
       ELSE /\ IF connectAfter THEN pairing' = FALSE /\ RetryIfEnabled
                               ELSE UNCHANGED <<pairing, sequence>>
            /\ UNCHANGED <<pending, chan, cleanup>>
    /\ UNCHANGED <<ready, link, connectable, enabled, pairingAfter, asking, hidpRequested,
                   taskVars>>

-----------------------------------------------------------------------------
(* Callbacks of the stack: channels *)

(* hidp_l2cap_accept_channel: the controller opens a channel.  A channel   *)
(* in use, or any cleanup still ahead, and it is refused.                  *)
FaultAcceptDuringCleanup(c) ==
    /\ link # "none" /\ chan[c] = "idle"
    /\ chan' = [chan EXCEPT ![c] = "opening"]
    /\ hidpRequested' = TRUE /\ Race({c})
    /\ UNCHANGED <<radioVars, saved, autoVars, pairVars, cleanup, sweep, open>>
Accept(c) ==
    /\ link # "none"
    /\ CleanupDone
    /\ Prepared[c] = "idle"
    /\ chan' = [Prepared EXCEPT ![c] = "opening"]
    /\ hidpRequested' = TRUE /\ Race({c})
    /\ UNCHANGED <<radioVars, saved, autoVars, pairVars, sweep, open>>

(* hidp_l2cap_connected: with both channels up, pairing is over and pages  *)
(* are no longer answered.                                                 *)
ChannelUp(c) ==
    /\ chan[c] = "opening"
    /\ chan' = [chan EXCEPT ![c] = "up"]
    /\ IF \A d \in Channels : chan'[d] = "up"
       THEN pairing' = FALSE /\ connectable' = FALSE
       ELSE UNCHANGED <<pairing, connectable>>
    /\ UNCHANGED <<ready, link, pending, discovery, saved, autoVars, pairingAfter,
                   asking, hidpRequested, cleanup, taskVars>>

(* hidp_l2cap_disconnected: a channel is refused or goes down.             *)
FaultChannelDownForgotten(c) ==
    /\ chan[c] # "idle"
    /\ chan' = [chan EXCEPT ![c] = "idle"]
    /\ cleanup' = cleanup \cup {c} /\ Race({c})
    /\ UNCHANGED <<radioVars, saved, autoVars, pairVars, hidpRequested, sweep, open>>
ChannelDown(c) ==
    /\ chan[c] # "idle"
    /\ chan' = [chan EXCEPT ![c] = "idle"]
    /\ hidpRequested' = FALSE
    /\ cleanup' = cleanup \cup {c} /\ Race({c})
    /\ UNCHANGED <<radioVars, saved, autoVars, pairVars, sweep, open>>

-----------------------------------------------------------------------------
(* Commands *)

(* request_pairing_mode, by the button, the shell or the web page, up to   *)
(* the change of the scan mode, which waits for the stack.                 *)
RequestPairing ==
    /\ ready /\ ~asking
    /\ \/ /\ link # "none"
          /\ connectAfter' = TRUE
          /\ pairing' \in BOOLEAN /\ pairingAfter' = pairing'
          /\ UNCHANGED asking
       \/ /\ link = "none" /\ pending
          /\ pairing' = FALSE /\ connectAfter' = FALSE
          /\ UNCHANGED <<pairingAfter, asking>>
       \/ /\ link = "none" /\ ~pending
          /\ pairing' = TRUE /\ connectAfter' = TRUE
          /\ asking' = ~discovery
          /\ UNCHANGED pairingAfter
    /\ UNCHANGED <<radioVars, saved, enabled, sequence, attempts, hidpVars>>

(* The rest of it: scan mode and search.                                   *)
PairingSearch ==
    /\ asking
    /\ asking' = FALSE /\ connectable' = TRUE
    /\ \/ /\ SearchStarts \/ (discovery /\ SearchRefused)
          /\ UNCHANGED <<pairing, connectAfter>>
       \/ /\ ~discovery /\ SearchRefused
          /\ pairing' = FALSE /\ connectAfter' = FALSE
    /\ UNCHANGED <<ready, link, pending, saved, enabled, sequence, attempts,
                   pairingAfter, hidpVars>>

(* Settings that nothing reads while there is a link.                      *)
MayOrder == OrdersOnLink \/ link = "none"

(* "ds5 auto on", and "ds5 auto now", which also gives up the search.      *)
AutoOn(now) ==
    /\ MayOrder
    /\ enabled' = TRUE /\ attempts' = 0 /\ sequence' = FALSE
    /\ connectAfter' = (connectAfter /\ ~now)
    /\ UNCHANGED <<radioVars, saved, pairVars, hidpVars>>

(* "ds5 auto off".                                                         *)
AutoOff ==
    /\ MayOrder
    /\ enabled' = FALSE /\ attempts' = 0 /\ sequence' = FALSE
    /\ connectAfter' = FALSE
    /\ UNCHANGED <<radioVars, saved, pairVars, hidpVars>>

(* apply_m61_web_config changes the flag and nothing else.                 *)
ConfigureAuto ==
    /\ MayOrder
    /\ enabled' = ~enabled
    /\ UNCHANGED <<radioVars, saved, sequence, attempts, connectAfter, pairVars, hidpVars>>

(* Forget, by the shell, or by the web page (web), which also ends pairing.*)
Forget(web) ==
    /\ MayOrder
    /\ saved' = FALSE /\ attempts' = 0
    /\ pairing' = (pairing /\ ~web) /\ pairingAfter' = (pairingAfter /\ ~web)
    /\ UNCHANGED <<radioVars, enabled, sequence, connectAfter, asking, hidpVars>>

(* "ds5 connect": a page, and no more.                                     *)
Connect ==
    /\ \A t \in Tasks : ~Busy(t)
    /\ PageStarts \/ PageRefused
    /\ UNCHANGED <<ready, link, discovery, connectable, saved, autoVars, pairVars, hidpVars>>

(* "ds5 autoconnect" with no saved controller: a search; with one, Connect.*)
SearchAndConnect ==
    /\ link = "none" /\ ~saved
    /\ connectAfter' = TRUE
    /\ (ready /\ SearchStarts) \/ SearchRefused
    /\ UNCHANGED <<ready, link, pending, connectable, saved, enabled, sequence,
                   attempts, pairVars, hidpVars>>

-----------------------------------------------------------------------------
Command ==
    \/ RequestPairing
    \/ \E now \in BOOLEAN : AutoOn(now)
    \/ AutoOff
    \/ ConfigureAuto
    \/ \E web \in BOOLEAN : Forget(web)
    \/ Connect
    \/ SearchAndConnect

AutoTask == AutoPage \/ AutoSearch \/ AwaitChannels \/ OpenNote

PageEnds == PageAnswered \/ PageFails
SearchOver == \E found \in BOOLEAN : SearchEnds(found)


Stack ==
    \/ BluetoothReady
    \/ PageEnds
    \/ Incoming
    \/ Disconnected
    \/ SearchOver
    \/ \E c \in Channels : Accept(c) \/ ChannelUp(c) \/ ChannelDown(c)

Next ==
    \/ \E t \in Tasks : Sweep(t) \/ OpenStep(t)
    \/ AutoTask \/ PairingSearch \/ Command \/ Stack

Spec == Init /\ [][Next]_vars

(* The auto task looks at everything it has to do in every turn, each of   *)
(* which begins with the cleanup, and does not wait for the shell, so each *)
(* of its parts goes on.  The stack does not refuse the same call for ever,*)
(* and answers a page and a search by a success or a failure (both time    *)
(* out).  Nobody owes a link, a channel or a command.                      *)
Fairness ==
    /\ WF_vars(AutoPage \/ AutoSearch)
    /\ SF_vars((AutoPage /\ pending') \/ (AutoSearch /\ discovery'))
    /\ SF_vars(Sweep("auto"))
    /\ SF_vars(OpenStep("auto") \/ OpenNote)
    /\ SF_vars(\E c \in Channels : OpenCall("auto", c) /\ chan'[c] = "opening")
    /\ WF_vars(PageEnds)
    /\ WF_vars(SearchOver)

FairSpec == Spec /\ Fairness

-----------------------------------------------------------------------------
(* Properties *)

(* Every variable has its type.                                            *)
TypeOK ==
    /\ ready \in BOOLEAN /\ pending \in BOOLEAN /\ discovery \in BOOLEAN
    /\ connectable \in BOOLEAN /\ saved \in BOOLEAN
    /\ link \in {"none", "out", "in"}
    /\ enabled \in BOOLEAN /\ sequence \in BOOLEAN /\ connectAfter \in BOOLEAN
    /\ attempts \in 0 .. MaxAttempts
    /\ pairing \in BOOLEAN /\ pairingAfter \in BOOLEAN /\ asking \in BOOLEAN
    /\ chan \in [Channels -> {"idle", "opening", "up"}]
    /\ hidpRequested \in BOOLEAN /\ cleanup \subseteq Channels
    /\ sweep \in [Tasks -> {None} \cup Channels] /\ open \in [Tasks -> Opens] /\ raced \subseteq Channels

(* While there is no link a controller can make one: pages are answered,   *)
(* whatever mixture of pairing, failed pages and dropped links went before *)
(* (br_set_scan_mode turns the answering off only when both channels are   *)
(* up).                                                                    *)
Connectable == ready /\ link = "none" => connectable

(* Only the stack ends a channel: the cleanup of an earlier link, and the  *)
(* preparation of a channel, wipe none that a controller which came back   *)
(* has begun to open, except one whose use began, or whose cleanup came    *)
(* due, after a task had looked at it and before it acted (raced).         *)
NoWipe ==
    [][\A c \in Channels : chan[c] # "idle" /\ chan'[c] = "idle"
          => ChannelDown(c) \/ Disconnected \/ c \in raced]_vars

(* A retry that was scheduled is made: unless a user turns automatic       *)
(* connection off or asks for pairing, the auto task pages or searches     *)
(* until there is a link.                                                  *)
RetryMade ==
    (ready /\ enabled /\ ~sequence /\ link = "none")
        ~> (pending \/ discovery \/ link # "none" \/ pairing \/ ~enabled)

(* Every page, and every search that a connection is to follow, either     *)
(* leads to a link or schedules another, so that with RetryMade a          *)
(* controller that is there is found in the end.                           *)
RetryScheduled ==
    (enabled /\ (pending \/ (discovery /\ connectAfter)))
        ~> (link # "none" \/ ~sequence \/ ~enabled)

(* Automatic connection never stops by itself: every failure leads to a    *)
(* retry and every retry to another attempt (main.c:462, 3292).            *)
KeepsTrying == RetryMade /\ RetryScheduled

(* A link the dongle made is not left with both channels closed: whatever  *)
(* was refused or dropped, they are asked for again after the cleanup;     *)
(* unless a channel was wiped, or refused, behind the back of the task that*)
(* was opening it (raced), which leaves auto_hidp_requested set.           *)
NotStranded ==
    (link = "out" /\ chan = Idle) ~> (link # "out" \/ chan # Idle \/ raced # {})

-----------------------------------------------------------------------------
(* The inductive invariant behind Connectable and NoWipe. *)

(* Channels are open on a link only, so that both come up, and end the     *)
(* answering of pages, while there is one.                                 *)
OpenOnLink == link = "none" => chan = Idle

(* A channel that waits for its cleanup is closed: nothing opens a channel *)
(* between the end of its earlier use and the cleanup, races aside.        *)
CleanupOfIdle == \A c \in cleanup : chan[c] = "idle" \/ c \in raced

(* So is a channel that a task is about to wipe or to open.                *)
AboutTo(t, c) ==
    \/ sweep[t] = c
    \/ open[t].next = "call" /\ open[t].of = c
ActsOnIdle ==
    \A t \in Tasks, c \in Channels : AboutTo(t, c) => chan[c] = "idle" \/ c \in raced

(* A task that opens a channel found the cleanup done; if it is due again  *)
(* since, the channel is marked.                                           *)
OpensClean ==
    \A t \in Tasks, c \in Channels :
        open[t].next = "call" /\ open[t].of = c /\ c \in cleanup => c \in raced

(* Together with the types they are inductive (main.c never has one link's *)
(* leftovers in the channels of the next).                                 *)
IInv == TypeOK /\ Connectable /\ OpenOnLink /\ CleanupOfIdle /\ ActsOnIdle /\ OpensClean
=============================================================================
