----------------------------- MODULE InputPump ------------------------------
(***************************************************************************)
(* Input reports to the host: the latest report is kept, and whoever finds *)
(* it pending and the endpoint idle copies it to the buffer of the         *)
(* endpoint and starts the transfer.  usb_input_pump is called by the      *)
(* Bluetooth task that brings a report, by the bridge in every turn and by *)
(* the callbacks; for the tasks the copy and the start are two steps.      *)
(***************************************************************************)
EXTENDS UsbSession

CONSTANTS MaxReports   \* bound: reports of a behaviour

ASSUME InputAssumption == MaxReports \in Nat

VARIABLES
    latest,    \* last_input_payload: number of the report, zero for idle
    pending,   \* usb_input_pending
    busy,      \* usb_busy
    buffer,    \* usb_in_buffer
    starting,  \* a task has copied and not yet started the transfer
    wire,      \* the hardware has the buffer
    shown,     \* last report the host has received
    repeats    \* polling_rate_repeats_latest: the mode at registration

inputVars == <<latest, pending, busy, buffer, starting, wire, shown, repeats>>

InputInit ==
    /\ latest = 0 /\ pending = FALSE /\ busy = FALSE /\ buffer = 0
    /\ starting = FALSE /\ wire = FALSE /\ shown = 0
    /\ repeats \in IF "INPUT" \in used THEN BOOLEAN ELSE {FALSE}

FaultMayClaim(asked, taken) == asked /\ ready /\ Configured /\ ~suspended
MayClaim(asked, taken) ==
    asked /\ ready /\ ~taken /\ ~suspended /\ Configured

(* m61_usb_gamepad_send_report01; its call of the pump is PumpClaims.      *)
ReportArrives ==
    /\ "INPUT" \in used /\ latest < MaxReports
    /\ latest' = latest + 1 /\ pending' = TRUE
    /\ UNCHANGED <<busy, buffer, starting, wire, shown, repeats>>

PumpClaims ==
    /\ MayClaim(pending, busy)
    /\ buffer' = latest /\ pending' = FALSE /\ busy' = TRUE /\ starting' = TRUE
    /\ UNCHANGED <<latest, wire, shown, repeats>>

(* The stack refuses when a bus reset came in between.                     *)
PumpStarts ==
    /\ starting /\ starting' = FALSE
    /\ IF Configured THEN wire' = TRUE /\ UNCHANGED <<pending, busy>>
       ELSE busy' = FALSE /\ pending' = TRUE /\ UNCHANGED wire
    /\ UNCHANGED <<latest, buffer, shown, repeats>>

(* In a callback the copy and the start are one step.                      *)
FaultPumpAtOnce(asked) ==
    IF asked /\ ready'
    THEN buffer' = latest /\ pending' = FALSE /\ busy' = TRUE /\ wire' = TRUE
    ELSE pending' = asked /\ wire' = FALSE /\ UNCHANGED <<buffer, busy>>
PumpAtOnce(asked) ==
    IF asked /\ ready'
    THEN buffer' = latest /\ pending' = FALSE /\ busy' = TRUE /\ wire' = TRUE
    ELSE pending' = asked /\ busy' = FALSE /\ wire' = FALSE /\ UNCHANGED buffer

(* usbd_hid_in_callback: the host has taken the report.                    *)
InputSent ==
    /\ wire /\ Live
    /\ shown' = buffer
    /\ PumpAtOnce(pending \/ repeats)
    /\ UNCHANGED <<latest, starting, repeats>>

InputReset ==
    /\ busy' = FALSE /\ pending' = FALSE /\ wire' = FALSE
    /\ UNCHANGED <<latest, buffer, starting, shown, repeats>>
InputConfigured ==
    /\ PumpAtOnce(pending \/ repeats)
    /\ UNCHANGED <<latest, starting, shown, repeats>>

(* Deinit and the registration that follows it when the stack is started.  *)
NewMode(on) == repeats' \in IF on /\ "INPUT" \in used THEN BOOLEAN ELSE {repeats}
InputRestart(on) ==
    /\ busy' = (busy /\ bus = "OFF")
    /\ wire' = FALSE /\ NewMode(on)
    /\ UNCHANGED <<latest, pending, buffer, starting, shown>>
InputInitAgain(on) ==
    /\ latest' = 0 /\ wire' = FALSE /\ NewMode(on)
    /\ UNCHANGED <<pending, busy, buffer, starting, shown>>

InputOK ==
    /\ {latest, buffer, shown} \subseteq 0 .. MaxReports
    /\ {pending, busy, starting, wire, repeats} \subseteq BOOLEAN

-----------------------------------------------------------------------------
(* Properties                                                              *)

(* The endpoint is marked busy exactly while a transfer is on the wire or  *)
(* about to be started: a mark that stays behind stops the input reports,  *)
(* one that is missing lets the pump write into the buffer the hardware    *)
(* sends (m61_usb_gamepad.c:810).  After the session ended the mark of a   *)
(* refused start may be cleared late.                                      *)
BusyTracks ==
    /\ Configured => (busy <=> wire \/ starting)
    /\ wire => Configured /\ ~starting

(* A report that is pending reaches the host, or a later one does: no      *)
(* wake-up is lost between the callback, the tasks and the marks           *)
(* (m61_usb_gamepad.c:2180).                                               *)
InputReaches == pending ~> shown = latest \/ ~Live
=============================================================================
