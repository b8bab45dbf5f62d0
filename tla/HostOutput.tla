----------------------------- MODULE HostOutput -----------------------------
(***************************************************************************)
(* Output reports of the host: the USB callback keeps the latest, the      *)
(* bridge moves it into the mailbox of the scheduler, and when it sends it *)
(* merges the parts the report sets into the state of the controller       *)
(* (dualsense_output.c) and sends that state.  LED stands for all parts    *)
(* with a flag of their own; the motors are set by every report: without   *)
(* the rumble flag they are stopped.                                       *)
(*                                                                         *)
(* The auto task brings a controller up: hidp_send_ds5_output_init builds  *)
(* the state as it is into report 0x31, later 0x32, and sends each over    *)
(* both channels; the shell may order the same.  Both tasks are below the  *)
(* bridge, which merges and sends between any two of their steps.          *)
(***************************************************************************)
EXTENDS UsbSession

CONSTANTS
    Rounds,       \* reports in which a bring-up sends the state: 0x31 and 0x32
    Builders,     \* bound: who brings up, "auto" and perhaps "shell"
    MaxBringUps,  \* CONFIG_M61_DS5_AUTO_BRINGUP_RETRIES
    Reports,      \* bound: the flags that reports of the host have
    MaxOutputs,   \* bound: reports of the host
    MaxClears     \* bound: links lost, generations begun, orders of the shell

ASSUME OutputAssumption ==
    /\ MaxOutputs \in Nat /\ MaxBringUps \in Nat /\ Rounds \in Nat \ {0}
    /\ Builders \subseteq {"auto", "shell"}
    /\ Reports \subseteq SUBSET {"LED", "RUMBLE"}

NoReport == [number |-> 0, led |-> FALSE, rumble |-> FALSE]
Parts == {"LED", "MOTORS"}

(* Steps of hidp_send_ds5_output_init for one report: copy_set_state       *)
(* copies the motors first.                                                *)
BringUp == <<"MOTORS", "LED", "INTERRUPT", "CONTROL">>
Step(i) == BringUp[1 + ((i - 1) % 4)]

VARIABLES
    pendingOut,   \* pending_host_report
    mail,         \* hidp_tx_scheduler.state31
    state,        \* output_ctx.set_state: number of the report a part is of
    controller,   \* what the controller does
    hid,          \* hid_interrupt.connected
    seen,         \* scheduler_link_ready
    newest,       \* what the host asked for last (history)
    lost,         \* parts of which it was replaced or cleared (history)
    late,         \* parts merged of which the last report sent says another
                  \* thing, or none did (history)
    control,      \* hid_control.connected
    fullSeen,     \* full_report_seen
    attempts,     \* auto_bringup_attempts
    at,           \* next step of the bring-up of a task, 0 for none
    built,        \* report31, report32 of hidp_send_ds5_output_init
    since,        \* parts the bridge merged since the task copied them (history)
    said,         \* the state was sent on this link (history)
    outputs, clears   \* used of the bounds (history)

bringVars == <<control, fullSeen, attempts, at, built, since, said>>
outputVars == <<pendingOut, mail, state, controller, hid, seen, newest, lost, late,
                bringVars, outputs, clears>>

Stopped == [p \in Parts |-> 0]
OutputInit ==
    /\ pendingOut = NoReport /\ mail = NoReport
    /\ state = Stopped /\ controller = Stopped
    /\ hid = ("OUTPUT" \in used) /\ seen = hid
    /\ newest = Stopped /\ lost = {} /\ late = {}
    /\ control = hid /\ fullSeen = FALSE /\ attempts = 0 /\ said = FALSE
    /\ at = [t \in Builders |-> 0] /\ built = [t \in Builders |-> Stopped]
    /\ since = [t \in Builders |-> {}]
    /\ outputs = 0 /\ clears = 0

(* Parts a report sets, whether it is there or not.                        *)
Sets(r) == IF r = NoReport THEN {} ELSE IF r.led THEN Parts ELSE {"MOTORS"}

(* apply_usb_set_state.                                                    *)
FaultMerge(old, r) ==
    [old EXCEPT !["LED"] = IF r.led THEN r.number ELSE @,
                !["MOTORS"] = IF r.rumble THEN r.number ELSE @]
Merge(old, r) ==
    [old EXCEPT !["LED"] = IF r.led THEN r.number ELSE @,
                !["MOTORS"] = IF r.rumble THEN r.number ELSE 0]

(* queue_host_report, of the endpoint or of a control transfer.            *)
HostWrites ==
    /\ "OUTPUT" \in used /\ Live /\ outputs < MaxOutputs
    /\ outputs' = outputs + 1
    /\ \E flags \in Reports :
        pendingOut' = [number |-> outputs', led |-> "LED" \in flags,
                       rumble |-> "RUMBLE" \in flags]
    /\ newest' = [newest EXCEPT !["LED"] = IF pendingOut'.led THEN outputs' ELSE @,
                                !["MOTORS"] = IF pendingOut'.rumble THEN outputs' ELSE 0]
    /\ lost' = (lost \cup Sets(pendingOut)) \ Sets(pendingOut')
    /\ UNCHANGED <<mail, state, controller, hid, seen, late, bringVars, clears>>

(* Bus reset; nothing else clears a report that the bridge has not taken.  *)
OutputReset ==
    /\ pendingOut' = NoReport /\ lost' = lost \cup Sets(pendingOut)
    /\ UNCHANGED <<mail, state, controller, hid, seen, newest, late, bringVars,
                   outputs, clears>>

(* usb_hid_bridge_task: m61_usb_gamepad_take_host_report, then             *)
(* m61_bt_tx_scheduler_publish_state31, with a link or without.            *)
TakeReport ==
    /\ pendingOut # NoReport
    /\ mail' = pendingOut /\ pendingOut' = NoReport
    /\ lost' = lost \cup (Sets(mail) \ Sets(pendingOut))
    /\ UNCHANGED <<state, controller, hid, seen, newest, late, bringVars,
                   outputs, clears>>

(* The scheduler is cleared when the bridge sees the link down, and for a  *)
(* new audio generation.                                                   *)
ClearMail ==
    /\ mail' = NoReport /\ lost' = lost \cup Sets(mail)
    /\ UNCHANGED <<pendingOut, state, controller, hid, newest, late, bringVars, outputs>>
SeeLink ==
    /\ hid # seen /\ seen' = hid
    /\ IF hid THEN UNCHANGED <<pendingOut, mail, state, controller, hid, newest, lost,
                               late, bringVars, outputs>>
       ELSE ClearMail
    /\ UNCHANGED clears
NewEpoch ==
    /\ mail # NoReport /\ clears < MaxClears /\ clears' = clears + 1
    /\ ClearMail /\ UNCHANGED seen

(* Parts that the bring-up of a task has copied and has yet to send.       *)
Copies(t) == CASE at[t] = 0 -> {}
               [] Step(at[t]) \in {"INTERRUPT", "CONTROL"} -> Parts
               [] Step(at[t]) = "LED" -> {"MOTORS"}
               [] OTHER -> {}

(* hidp_send_usb_output_report: the buffer comes first, a report that has  *)
(* none is sent again; one that was merged is not, whatever the stack says.*)
SendOutcomes == {"NO BUFFER", "SENT", "REFUSED"}
Unsent(result) == IF result = "NO BUFFER" THEN mail ELSE NoReport
SendReport(result) ==
    /\ mail # NoReport /\ hid /\ seen
    /\ result = "REFUSED" => clears < MaxClears
    /\ clears' = IF result = "REFUSED" THEN clears + 1 ELSE clears
    /\ mail' = Unsent(result)
    /\ state' = IF result = "NO BUFFER" THEN state ELSE Merge(state, mail)
    /\ controller' = IF result = "SENT" THEN state' ELSE controller
    /\ late' = CASE result = "SENT" -> {} [] result = "REFUSED" -> late \cup Sets(mail)
                 [] OTHER -> late
    /\ said' = (said \/ result = "SENT")
    /\ since' = [t \in Builders |-> since[t] \cup (Copies(t) \cap (Sets(mail) \ Sets(mail')))]
    /\ UNCHANGED <<pendingOut, hid, seen, newest, lost, outputs,
                   control, fullSeen, attempts, at, built>>

(* A link that ends takes what the controller did with it, and what was    *)
(* late for it.  auto_reset_link_state runs at its end, and before the     *)
(* next; not when a channel is only closed and opened again.  The control  *)
(* channel is opened before, or after, or not at all.                      *)
LinkGoes ==
    /\ clears < MaxClears /\ clears' = clears + 1
    /\ controller' = Stopped /\ late' = {} /\ said' = FALSE /\ control' = FALSE
    /\ \/ fullSeen' = FALSE /\ attempts' = 0
       \/ UNCHANGED <<fullSeen, attempts>>
LinkComes ==
    /\ control' \in BOOLEAN
    /\ UNCHANGED <<clears, controller, late, said, fullSeen, attempts>>
LinkTurns ==
    /\ "OUTPUT" \in used
    /\ hid' = ~hid /\ hid = seen
    /\ IF hid THEN LinkGoes ELSE LinkComes
    /\ UNCHANGED <<pendingOut, mail, state, seen, newest, lost, at, built, since, outputs>>

ControlTurns ==
    /\ "OUTPUT" \in used /\ hid /\ control' = ~control
    /\ IF control THEN clears < MaxClears /\ clears' = clears + 1 ELSE UNCHANGED clears
    /\ UNCHANGED <<pendingOut, mail, state, controller, hid, seen, newest, lost, late,
                   fullSeen, attempts, at, built, since, said, outputs>>

(* A full report comes, brought up or not: other tasks send, too.          *)
ControllerReports ==
    /\ "OUTPUT" \in used /\ hid /\ ~fullSeen /\ fullSeen' = TRUE
    /\ UNCHANGED <<pendingOut, mail, state, controller, hid, seen, newest, lost, late,
                   control, attempts, at, built, since, said, outputs, clears>>

(* The auto task's test and count, or ds5 output-init and ds5 bringup of   *)
(* the shell; the auto task is not held up between the two for as long as  *)
(* a new link takes.                                                       *)
BringUpBegins(t) ==
    /\ "OUTPUT" \in used /\ at[t] = 0
    /\ at' = [at EXCEPT ![t] = 1]
    /\ IF t = "auto"
       THEN /\ control /\ hid /\ ~fullSeen /\ attempts < MaxBringUps
            /\ attempts' = attempts + 1 /\ UNCHANGED clears
       ELSE clears < MaxClears /\ clears' = clears + 1 /\ UNCHANGED attempts
    /\ UNCHANGED <<pendingOut, mail, state, controller, hid, seen, newest, lost, late,
                   control, fullSeen, built, since, said, outputs>>

(* The next of its steps: a part is copied, or the report is sent over a   *)
(* channel, which waits for a buffer; the stack may refuse it: no matter.  *)
FaultCopied(p) == 0
Copied(p) == state[p]
CopyPart(t, p) ==
    /\ built' = [built EXCEPT ![t][p] = Copied(p)]
    /\ UNCHANGED <<since, controller, late, said>>
SendBuilt(t, channel) ==
    /\ \/ /\ IF channel = "CONTROL" THEN control ELSE hid
          /\ controller' = built[t] /\ late' = since[t] /\ said' = TRUE
       \/ UNCHANGED <<controller, late, said>>
    /\ IF channel = "CONTROL"
       THEN /\ built' = [built EXCEPT ![t] = Stopped] /\ since' = [since EXCEPT ![t] = {}]
       ELSE UNCHANGED <<built, since>>
BringUpStep(t) ==
    /\ at[t] # 0 /\ at' = [at EXCEPT ![t] = IF @ = 4 * Rounds THEN 0 ELSE @ + 1]
    /\ IF Step(at[t]) \in Parts THEN CopyPart(t, Step(at[t])) ELSE SendBuilt(t, Step(at[t]))
    /\ UNCHANGED <<pendingOut, mail, state, hid, seen, newest, lost,
                   control, fullSeen, attempts, outputs, clears>>

BringsUp(t) == BringUpBegins(t) \/ BringUpStep(t)
OutputBridge == TakeReport \/ SeeLink \/ NewEpoch \/ \E r \in SendOutcomes : SendReport(r)

OutputOK ==
    /\ {pendingOut, mail} \subseteq
            [number : 0 .. MaxOutputs, led : BOOLEAN, rumble : BOOLEAN]
    /\ \A s \in {state, controller, newest} : s \in [Parts -> 0 .. MaxOutputs]
    /\ outputs \in 0 .. MaxOutputs
    /\ {hid, seen, control, fullSeen, said} \subseteq BOOLEAN
    /\ {lost, late} \subseteq SUBSET Parts
    /\ attempts \in 0 .. MaxBringUps /\ at \in [Builders -> 0 .. 4 * Rounds]
    /\ built \in [Builders -> [Parts -> 0 .. MaxOutputs]]
    /\ since \in [Builders -> SUBSET Parts]

-----------------------------------------------------------------------------
(* Properties                                                              *)

(* "USB output state is merged into the controller's ... state"            *)
(* (PROTOCOL.md:34): what the host asked for last of a part is what the    *)
(* report before the mailbox says of it, else the report in the mailbox,   *)
(* else the state - so it is in the state once the reports are through -   *)
(* unless a report that waited was replaced by one that does not set the   *)
(* part, or was cleared; merging happens only when a report is sent.  A    *)
(* stop of the motors is never replaced away.                              *)
Asks(r, p) == IF p = "LED" \/ r.rumble THEN r.number ELSE 0
Coming(p) == IF p \in Sets(pendingOut) THEN Asks(pendingOut, p)
             ELSE IF p \in Sets(mail) THEN Asks(mail, p) ELSE state[p]
MergedOrReplaced == \A p \in Parts : newest[p] = Coming(p) \/ p \in lost

(* On a link the controller does in the end what the host asked for last,  *)
(* however often there is no buffer and however the link comes and goes,   *)
(* with the same exceptions and these.  A report the stack refused, and a  *)
(* report sent while a bring-up held an older state, are late until the    *)
(* state is sent again.  A link on which no report came and the bring-up   *)
(* sent nothing does nothing: the auto task gives up at a full report      *)
(* (main.c:3365), which a GET of the host may have fetched, without a      *)
(* control channel, or after its attempts (main.c:3366).                   *)
GivenUp == ~said /\ (fullSeen \/ ~control \/ attempts = MaxBringUps)
ControllerFollows ==
    []<>(hid => \A p \in Parts : \/ controller[p] = newest[p] \/ p \in lost \cup late
                                 \/ GivenUp)
=============================================================================
