-------------------------------- MODULE Bridge --------------------------------
(***************************************************************************)
(* The bridge task of src/m61/dualsense_hidp_probe/main.c: it drains the   *)
(* audio epochs and the host's reports into the transmit scheduler and     *)
(* sends what the scheduler selects to the controller.                     *)
(*                                                                         *)
(* The bridge owns the scheduler, taken here by its abstract specification *)
(* TxQueue, but not what it reads: the Bluetooth task, which runs at a     *)
(* higher priority, changes the link, the headphone flags and what is      *)
(* known of the microphone status, and USB callbacks change the audio      *)
(* generation, between any two steps of the bridge.  The route is set      *)
(* without a lock by the bridge and by the shell task, so that each of     *)
(* their steps is an action here; the Bluetooth task, which neither        *)
(* interrupts, does the same in one.                                       *)
(***************************************************************************)
EXTENDS TxQueue

CONSTANTS
    MaxGeneration,   \* bound: audio generations
    MaxSession,      \* bound: link sessions
    Choices,         \* bound: the routes the host may configure
    HeadphoneStates, \* bound: what the controller may say of headphones
    MicStates        \* bound: what the host may make of the microphone

ASSUME BridgeAssumption ==
    /\ MaxGeneration \in Nat \ {0} /\ MaxSession \in Nat
    /\ Choices \subseteq {"AUTO", "MONO", "STEREO"}
    /\ HeadphoneStates \subseteq BOOLEAN /\ MicStates \subseteq BOOLEAN

VARIABLES
    audioGen,      \* audio_generation
    route,         \* speaker_route
    usbHead,       \* speaker_headphones_connected
    stereo,        \* speaker_stereo_requested
    layouts,       \* layouts requested while this generation is the current one
    setting,       \* task -> its place in m61_usb_gamepad_set_speaker_route
    wanted,        \* task -> stereo of apply_speaker_route_policy (FALSE when not in use)
    overtaken,     \* history: the layout stored last was read before a later change
    btHead,        \* dualsense_headphones_connected
    micOn,         \* m61_usb_gamepad_audio_in_active()
    hostReport,    \* pending_host_report_valid
    linkUp,        \* hid_interrupt.connected
    session,       \* number of the link session
    micKnown,      \* hidp_mic_status_known
    lastMic,       \* hidp_last_mic_active
    refreshDue,    \* tick_due(now, hidp_next_mic_status_tick)
    outputDue,     \* tick_due(now, hidp_usb_output_next_tick)
    told,          \* the controller was told last, in this session, that the mic is on
    schedGen,      \* hidp_tx_scheduler.generation
    schedLink,     \* scheduler_link_ready, and link_ready until the next poll
    pc, bMic, result   \* the bridge: place, bt_mic_active, err

routeVars == <<route, setting, wanted>>
layoutVars == <<audioGen, usbHead, stereo, layouts, overtaken>>
audioVars == <<routeVars, layoutVars>>
usbVars == <<micOn, hostReport>>
linkVars == <<btHead, linkUp, session, told>>
micVars == <<micKnown, lastMic>>
dueVars == <<refreshDue, outputDue>>
locals == <<bMic, result>>
schedVars == <<queueVars, schedGen, schedLink>>
vars == <<audioVars, usbVars, linkVars, micVars, dueVars, schedVars, pc, locals>>

Routes == {"AUTO", "MONO", "STEREO"}
Results == {"SUCCESS", "RETRY", "DROP"}

(* Who sets the route: the bridge for the web page, and the shell.         *)
Setters == {"bridge", "shell"}
Places == {"idle", "read", "store", "late", "reset"}

(* Items remember the session in which the bridge took them, 0 when it had *)
(* not seen the link come up.                                              *)
Now == IF schedLink THEN session ELSE 0

Init ==
    /\ QueueInit
    /\ audioGen = 1 /\ schedGen = 1
    /\ route = "AUTO" /\ stereo = FALSE /\ layouts = {FALSE}
    /\ setting = [t \in Setters |-> "idle"] /\ wanted = [t \in Setters |-> FALSE]
    /\ overtaken = FALSE
    /\ usbHead = FALSE /\ btHead = FALSE
    /\ micOn = FALSE /\ hostReport = FALSE
    /\ linkUp = FALSE /\ session = 0 /\ told = FALSE
    /\ micKnown = FALSE /\ lastMic = FALSE
    /\ refreshDue = TRUE /\ outputDue = TRUE
    /\ schedLink = FALSE
    /\ pc = "poll" /\ bMic = FALSE /\ result = "NONE"

-----------------------------------------------------------------------------
(* The route policy: what apply_speaker_route_policy wants.                *)
WantsStereo(r, head) == r = "STEREO" \/ (r = "AUTO" /\ head)

(* Bound: nobody begins what may start a generation at the last one; what  *)
(* has begun goes on.                                                      *)
MayStart == audioGen < MaxGeneration

(* Whoever has read the route and the headphone flag and is about to store *)
(* the layout they ask for is late when one of them changes now.           *)
Overtake(places) == [t \in Setters |-> IF places[t] = "store" THEN "late" ELSE places[t]]

-----------------------------------------------------------------------------
(* The Bluetooth task                                                      *)

(* m61_usb_gamepad_set_headphones_connected: a new flag changes the layout *)
(* it asks for, and a new layout starts a new audio generation.            *)
SetHeadphones(h) ==
    /\ usbHead' = h
    /\ LET new == WantsStereo(route, h) IN
         IF h = usbHead THEN UNCHANGED <<audioGen, stereo, layouts, setting, overtaken>>
         ELSE /\ setting' = Overtake(setting) /\ overtaken' = FALSE
              /\ stereo' = new
              /\ layouts' = IF new # stereo THEN {new} ELSE layouts
              /\ audioGen' = IF new # stereo THEN audioGen + 1 ELSE audioGen
              /\ new # stereo => MayStart
    /\ UNCHANGED <<route, wanted>>

(* A full input report tells whether headphones are plugged in             *)
(* (hidp_l2cap_recv).                                                      *)
FaultHeadphonesKeepGeneration(h) ==
    /\ linkUp
    /\ btHead' = h /\ usbHead' = h
    /\ stereo' = WantsStereo(route, h) /\ layouts' = layouts \cup {stereo'}
    /\ setting' = Overtake(setting) /\ overtaken' = (overtaken /\ h = usbHead)
    /\ UNCHANGED <<audioGen, route, wanted, usbVars, linkUp, session, told, micVars, dueVars,
                   schedVars, pc, locals>>
Headphones(h) ==
    /\ linkUp
    /\ btHead' = h
    /\ SetHeadphones(h)
    /\ UNCHANGED <<usbVars, linkUp, session, told, micVars, dueVars, schedVars, pc, locals>>

(* hidp_l2cap_disconnected                                                 *)
LinkDown ==
    /\ linkUp /\ linkUp' = FALSE
    /\ micKnown' = FALSE /\ lastMic' = FALSE /\ refreshDue' = TRUE
    /\ UNCHANGED <<audioVars, usbVars, btHead, session, told, outputDue, schedVars,
                   pc, locals>>

(* hidp_l2cap_connected.  A channel is not accepted or opened again until  *)
(* DS5_DISCONNECT_CLEANUP_DELAY_MS (750 ms) after it closed; the bridge,   *)
(* which polls every millisecond, has seen it closed by then.              *)
LinkUp ==
    /\ ~linkUp /\ linkUp' = TRUE
    /\ ~schedLink
    /\ session < MaxSession /\ session' = session + 1
    /\ told' = FALSE
    /\ UNCHANGED <<audioVars, usbVars, btHead, micVars, dueVars, schedVars, pc, locals>>

(* auto_reset_link_state, when a connection comes or goes.                 *)
ResetLinkState ==
    /\ ~linkUp
    /\ micKnown' = FALSE /\ lastMic' = FALSE
    /\ refreshDue' = TRUE /\ outputDue' = TRUE
    /\ btHead' = FALSE
    /\ SetHeadphones(FALSE)
    /\ UNCHANGED <<usbVars, linkUp, session, told, schedVars, pc, locals>>

-----------------------------------------------------------------------------
(* USB callbacks and the clock                                             *)

(* The IN stream opens, closes or is muted: no new generation.             *)
SwitchMic ==
    /\ \E on \in MicStates : on # micOn /\ micOn' = on
    /\ UNCHANGED <<audioVars, hostReport, linkVars, micVars, dueVars, schedVars, pc, locals>>

(* reset_audio_pipeline, under the lock of the USB functions: the first    *)
(* block of the new generation is encoded for the layout requested now.    *)
StartGeneration ==
    /\ audioGen' = audioGen + 1 /\ layouts' = {stereo}
    /\ UNCHANGED <<usbHead, stereo, overtaken>>

(* The OUT stream opens, closes or is muted, the bus suspends, the         *)
(* microphone or the speaker is enabled or disabled.                       *)
NewGeneration ==
    /\ MayStart /\ StartGeneration
    /\ UNCHANGED <<routeVars, usbVars, linkVars, micVars, dueVars, schedVars, pc, locals>>

(* queue_host_report: the last output report replaces one that waits.      *)
HostSends ==
    /\ ~hostReport /\ hostReport' = TRUE
    /\ UNCHANGED <<audioVars, micOn, linkVars, micVars, dueVars, schedVars, pc, locals>>

RefreshComesDue ==
    /\ ~refreshDue /\ refreshDue' = TRUE
    /\ UNCHANGED <<audioVars, usbVars, linkVars, micVars, outputDue, schedVars, pc, locals>>

OutputComesDue ==
    /\ ~outputDue /\ outputDue' = TRUE
    /\ UNCHANGED <<audioVars, usbVars, linkVars, micVars, refreshDue, schedVars, pc, locals>>

-----------------------------------------------------------------------------
(* usb_hid_bridge_task                                                     *)

At(here, next) == pc = here /\ pc' = next

(* A new generation, or a link that went down, clears the scheduler.       *)
FaultMustClearNoEdge == schedGen # audioGen
MustClear == schedGen # audioGen \/ (~linkUp /\ schedLink)

Poll ==
    /\ At("poll", "fill")
    /\ bMic' = micOn
    /\ IF MustClear THEN Clear ELSE UNCHANGED queueVars
    /\ micKnown' = (micKnown /\ schedGen = audioGen)
    /\ schedGen' = audioGen /\ schedLink' = linkUp
    /\ UNCHANGED <<audioVars, usbVars, linkVars, lastMic, dueVars, result>>

(* The pair the epochs hold is of the current audio generation and was     *)
(* encoded for a layout requested in that generation.                      *)
Pair(layout) == [gen |-> audioGen, stereo |-> layout, session |-> Now]

(* m61_bt_tx_scheduler_ingest_epoch_pair until there is no pair or no room;*)
(* a pair of another generation is lost.                                   *)
Fill ==
    /\ pc = "fill"
    /\ \/ /\ audioGen = schedGen /\ UNCHANGED pc
          /\ \E layout \in layouts : Enqueue(Pair(layout))
       \/ At("fill", "status") /\ UNCHANGED queueVars
    /\ UNCHANGED <<audioVars, usbVars, linkVars, micVars, dueVars, schedGen, schedLink, locals>>

(* A microphone status is due when the controller may not know it, and,    *)
(* while the microphone is on, from time to time.                          *)
FaultStatusDueNoRefresh == schedLink /\ (~micKnown \/ lastMic # bMic)
StatusDue == schedLink /\ (~micKnown \/ lastMic # bMic \/ (bMic /\ refreshDue))

Status == [mic |-> bMic, session |-> Now]

PublishStatus ==
    /\ At("status", "host")
    /\ IF StatusDue /\ (mail["STATE32"] = Nothing \/ mail["STATE32"].mic # bMic)
       THEN Post("STATE32", Status)
       ELSE UNCHANGED queueVars
    /\ UNCHANGED <<audioVars, usbVars, linkVars, micVars, dueVars, schedGen, schedLink, locals>>

(* The host's reports: an output report is posted, and a configuration     *)
(* command may set the route, after which the bridge goes on.              *)
TakeOutput ==
    /\ pc = "host" /\ setting["bridge"] = "idle"
    /\ hostReport /\ hostReport' = FALSE
    /\ Post("STATE31", [session |-> Now])
    /\ UNCHANGED <<audioVars, micOn, linkVars, micVars, dueVars, schedGen, schedLink, pc, locals>>

Eligible ==
    IF ~schedLink THEN {}
    ELSE {"REALTIME", "STATE32"} \cup (IF outputDue THEN {"STATE31"} ELSE {})

(* The pairs that grew too old are the first ones.                         *)
Select ==
    /\ pc = "host" /\ setting["bridge"] = "idle"
    /\ \E n \in 0 .. Len(queue) : ChooseNext(Eligible, 1 .. n)
    /\ pc' = IF chosen' = NoChoice THEN "poll" ELSE "check"
    /\ UNCHANGED <<audioVars, usbVars, linkVars, micVars, dueVars, schedGen, schedLink, locals>>

(* The audio generation is read once more before sending.                  *)
FaultCheckSendsAfterClear ==
    /\ At("check", "send")
    /\ IF schedGen # audioGen THEN Clear ELSE UNCHANGED queueVars
    /\ schedGen' = audioGen
    /\ UNCHANGED <<audioVars, usbVars, linkVars, micVars, dueVars, schedLink, locals>>
Check ==
    /\ pc = "check"
    /\ IF schedGen # audioGen
       THEN pc' = "poll" /\ Empty /\ chosen' = NoChoice
       ELSE pc' = "send" /\ UNCHANGED queueVars
    /\ schedGen' = audioGen
    /\ UNCHANGED <<audioVars, usbVars, linkVars, micVars, dueVars, schedLink, locals>>

(* Whether the microphone is on is part of a status and of a pair.         *)
SaysMicOn ==
    IF chosen.class = "REALTIME" THEN bMic ELSE chosen.item.mic

(* hidp_send_audio_pair, hidp_send_usb_output_report and                   *)
(* hidp_send_audio_status_report: without a link the item is dropped,      *)
(* otherwise the stack takes it, has no buffer, or fails.                  *)
Outcomes == IF linkUp THEN Results ELSE {"DROP"}

(* The headphone flag is read here, when a pair is labelled.               *)
Send(r) ==
    /\ At("send", "finish")
    /\ r \in Outcomes /\ result' = r
    /\ told' = IF r = "SUCCESS" /\ chosen.class # "STATE31" THEN SaysMicOn ELSE told
    /\ UNCHANGED <<audioVars, usbVars, btHead, linkUp, session, micVars, dueVars, schedVars, bMic>>

(* m61_bt_tx_scheduler_finish, and what the bridge notes of a report.      *)
Finish ==
    /\ At("finish", "poll")
    /\ Settle(result # "RETRY", result = "SUCCESS") /\ chosen' = NoChoice
    /\ LET sent(c) == chosen.class = c /\ result = "SUCCESS" IN
         /\ outputDue' = (outputDue /\ ~sent("STATE31"))
         /\ refreshDue' = (refreshDue /\ ~sent("STATE32"))
         /\ micKnown' = (micKnown \/ sent("STATE32"))
         /\ lastMic' = IF sent("STATE32") THEN chosen.item.mic ELSE lastMic
    /\ result' = "NONE"
    /\ UNCHANGED <<audioVars, usbVars, linkVars, schedGen, schedLink, bMic>>

-----------------------------------------------------------------------------
(* m61_usb_gamepad_set_speaker_route, by the bridge or the shell.  No lock *)
(* is held: the Bluetooth task, the USB callbacks, and the bridge while    *)
(* the shell is at it, come between any two steps.                         *)

Goes(t, here, next) == setting[t] = here /\ setting' = [setting EXCEPT ![t] = next]

NoChangeButAudio == UNCHANGED <<usbVars, linkVars, micVars, dueVars, schedVars, pc, locals>>

StoreRoute(t, r) ==
    /\ setting[t] = "idle" /\ (t = "bridge" => pc = "host")
    /\ MayStart
    /\ r # route /\ route' = r
    /\ setting' = [Overtake(setting) EXCEPT ![t] = "read"]
    /\ UNCHANGED <<wanted, layoutVars>>
    /\ NoChangeButAudio

(* speaker_route_wants_stereo                                              *)
ReadRoute(t) ==
    /\ Goes(t, "read", "store")
    /\ wanted' = [wanted EXCEPT ![t] = WantsStereo(route, usbHead)]
    /\ UNCHANGED <<route, layoutVars>>
    /\ NoChangeButAudio

(* The comparison and the store are one step: whoever makes the layout the *)
(* wanted one in between starts a generation, and a second one started for *)
(* nothing is a NewGeneration.                                             *)
FaultStoreKeepsGeneration(t) ==
    /\ setting[t] \in {"store", "late"} /\ setting' = [setting EXCEPT ![t] = "idle"]
    /\ stereo' = wanted[t] /\ layouts' = layouts \cup {wanted[t]}
    /\ overtaken' = (setting[t] = "late")
    /\ wanted' = [wanted EXCEPT ![t] = FALSE]
    /\ UNCHANGED <<route, audioGen, usbHead>>
    /\ NoChangeButAudio
StoreLayout(t) ==
    /\ setting[t] \in {"store", "late"}
    /\ IF wanted[t] # stereo
       THEN /\ setting' = [setting EXCEPT ![t] = "reset"]
            /\ stereo' = wanted[t] /\ layouts' = layouts \cup {wanted[t]}
            /\ overtaken' = (setting[t] = "late")
       ELSE /\ setting' = [setting EXCEPT ![t] = "idle"]
            /\ overtaken' = (overtaken /\ setting[t] = "late")
            /\ UNCHANGED <<stereo, layouts>>
    /\ wanted' = [wanted EXCEPT ![t] = FALSE]
    /\ UNCHANGED <<route, audioGen, usbHead>>
    /\ NoChangeButAudio

ResetPipeline(t) ==
    /\ Goes(t, "reset", "idle")
    /\ StartGeneration
    /\ UNCHANGED <<route, wanted>>
    /\ NoChangeButAudio

RouteStep(t) == ReadRoute(t) \/ StoreLayout(t) \/ ResetPipeline(t)

-----------------------------------------------------------------------------
BluetoothTask == (\E h \in HeadphoneStates : Headphones(h)) \/ LinkDown \/ LinkUp \/ ResetLinkState

Usb == SwitchMic \/ NewGeneration \/ HostSends

Clock == RefreshComesDue \/ OutputComesDue

Step ==
    \/ Poll \/ Fill \/ PublishStatus \/ TakeOutput \/ Select \/ Check
    \/ (\E r \in Results : Send(r))
    \/ Finish \/ RouteStep("bridge")

SetRoute == (\E t \in Setters, r \in Choices : StoreRoute(t, r)) \/ RouteStep("shell")

Next == BluetoothTask \/ Usb \/ Clock \/ Step \/ SetRoute

Spec == Init /\ [][Next]_vars

(* The bridge runs, and never stays with the host's reports (it takes at   *)
(* most CONFIG_M61_DS5_HOST_REPORTS_PER_TICK of them).  While the link is  *)
(* up the Bluetooth stack takes a report of each class sooner or later,    *)
(* however often it is out of buffers.                                     *)
Sent(c) == chosen.class = c /\ Send("SUCCESS")

Fairness ==
    /\ WF_vars(Step) /\ WF_vars(Select)
    /\ WF_vars(RefreshComesDue) /\ WF_vars(OutputComesDue)
    /\ \A c \in TxClasses : SF_vars(Sent(c))

FairSpec == Spec /\ Fairness

-----------------------------------------------------------------------------
(* Correctness                                                             *)

Sessions == 0 .. MaxSession
Pairs == [gen : Nat \ {0}, stereo : BOOLEAN, session : Sessions]
OutputReports == [session : Sessions]
Statuses == [mic : BOOLEAN, session : Sessions]

TypeOK ==
    /\ audioGen \in Nat \ {0} /\ schedGen \in Nat \ {0}
    /\ route \in Routes /\ usbHead \in BOOLEAN /\ stereo \in BOOLEAN /\ btHead \in BOOLEAN
    /\ layouts \in SUBSET BOOLEAN /\ overtaken \in BOOLEAN
    /\ setting \in [Setters -> Places] /\ wanted \in [Setters -> BOOLEAN]
    /\ micOn \in BOOLEAN /\ hostReport \in BOOLEAN
    /\ linkUp \in BOOLEAN /\ session \in Sessions /\ told \in BOOLEAN
    /\ micKnown \in BOOLEAN /\ lastMic \in BOOLEAN
    /\ refreshDue \in BOOLEAN /\ outputDue \in BOOLEAN /\ schedLink \in BOOLEAN
    /\ pc \in {"poll", "fill", "status", "host", "check", "send", "finish"}
    /\ bMic \in BOOLEAN /\ result \in Results \cup {"NONE"}
    /\ queue \in Seq(Pairs) /\ Len(queue) <= Depth
    /\ mail \in [Boxes -> OutputReports \cup Statuses \cup {Nothing}]
    /\ mail["STATE31"] \in OutputReports \cup {Nothing}
    /\ mail["STATE32"] \in Statuses \cup {Nothing}
    /\ burst \in 0 .. BurstCap /\ turn \in Boxes
    /\ chosen.class \in TxClasses \cup {"NONE"}

(* What the bridge sends is still in the scheduler when it settles it, so  *)
(* no report is sent twice or settled in place of another: nothing else    *)
(* touches the scheduler, and a reset before sending gives the choice up.  *)
ChosenStays ==
    pc \in {"check", "send", "finish"} =>
        ChosenIsThere /\ (chosen.class \in Boxes => chosen.item # Nothing)

(* A queued pair is of no later generation, and one of the current         *)
(* generation was encoded for the layout that is requested now, but while  *)
(* a task has stored another layout and not yet started its generation     *)
(* (m61_usb_gamepad.c:726-731).                                            *)
Resetting == \E t \in Setters : setting[t] = "reset"

PairFits(pair) ==
    /\ pair.gen <= audioGen
    /\ pair.gen = audioGen => pair.stereo = stereo \/ Resetting

PairsMatchLayout == \A i \in 1 .. Len(queue) : PairFits(queue[i])

(* What waits was taken in the link session the bridge knows of, or while  *)
(* it knew of none: the queue and the mailboxes do not outlive a link.     *)
OfThisLink(item) == item.session \in {0, Now}

WaitsForThisLink ==
    /\ \A i \in 1 .. Len(queue) : OfThisLink(queue[i])
    /\ \A c \in Boxes : mail[c] # Nothing => OfThisLink(mail[c])

(* The layout is the one that the route and the headphones of the          *)
(* controller ask for, once whoever changes the route has stored it; a     *)
(* change of either that comes between the read and the store of a task    *)
(* leaves the older layout in place, and nothing corrects it before the    *)
(* next change (m61_usb_gamepad.c:723-726).                                *)
Storing == \E t \in Setters : setting[t] \in {"read", "store", "late"}

LayoutFollows ==
    /\ ~Storing /\ ~overtaken => stereo = WantsStereo(route, usbHead)
    /\ usbHead = btHead

Sends(c) == pc = "send" /\ pc' = "finish" /\ chosen.class = c /\ result' = "SUCCESS"

(* Nothing that the bridge took from the host or from the epochs with the  *)
(* link up in one session is sent in a later one.                          *)
NoReplayAcrossLink ==
    [][(\E c \in TxClasses : Sends(c)) => chosen.item.session \in {0, session}]_vars

(* What waits in the scheduler and what the bridge holds of it agree with  *)
(* each other, with the link session and with the layout, whichever        *)
(* callback comes between two steps of the bridge (main.c:2611-2681).      *)
Sound == TypeOK /\ ChosenStays /\ PairsMatchLayout /\ WaitsForThisLink /\ LayoutFollows

(* A microphone that stays on while the link stays up: the controller is   *)
(* told in the end and nothing older contradicts it later, although the    *)
(* note of a sent status may overwrite what a disconnection cleared, and   *)
(* statuses are dropped by resets.                                         *)
MicOnReaches == <>[](linkUp /\ micOn) => <>[]told

(* An output report does not wait for ever in its mailbox while the link   *)
(* is up, whatever audio is sent.                                          *)
OutputServed == []<>(mail["STATE31"] = Nothing \/ ~linkUp)

(* A pair is labelled for the layout it was encoded for                    *)
(* (m61_usb_gamepad.c:728, "Do not relabel packets"), with three           *)
(* exceptions: the headphones changed after the check before sending (the  *)
(* flag is read once more at main.c:2628 and nothing compares the          *)
(* generation again), the shell is in the middle of a change of route, or  *)
(* such a change was overtaken by another and left the older layout.       *)
RelabelledAfterCheck ==
    [][Sends("REALTIME") /\ route = "AUTO" /\ btHead # chosen.item.stereo
         => audioGen # chosen.item.gen \/ Storing \/ Resetting \/ overtaken]_vars
==============================================================================
