----------------------------- MODULE UsbAttach ------------------------------
(***************************************************************************)
(* Who puts the device on the bus and takes it off (main.c): the start     *)
(* task once, at the first full report; the auto task in every turn; the   *)
(* shell.  Each pulls the data lines low for 350 ms before, and so leaves  *)
(* the others and the Bluetooth callbacks time to act.  An action says     *)
(* with `call` what it does to the device: UsbDevice adds its effect.      *)
(* A behaviour that does not look at the attachment (used) starts with the *)
(* controller there, and sees only ds5 usb-reinit and, where it uses the   *)
(* input reports or the audio of the host, the start task.                 *)
(***************************************************************************)
EXTENDS UsbSession

VARIABLES
    link,        \* default_conn and both channels
    report,      \* full_report_seen
    attached,    \* usb_controller_attached
    detachPending,  \* usb_controller_detach_pending
    start,       \* the start task: "WAIT", "DELAY", "PULSE" or "DONE"
    auto,        \* the auto task: "IDLE" or "PULSE"
    shell,       \* ds5 usb-cycle: "IDLE" or "PULSE"
    unnoticed    \* attached without a look whether it is still there (history)

attachVars == <<link, report, attached, detachPending, start, auto, shell, unnoticed>>

None == "NONE"                 \* no call of the device
Calls == {None, "DEINIT", "REINIT", "INIT"}

AttachInit ==
    IF "ATTACH" \in used
    THEN /\ link = FALSE /\ report = FALSE /\ attached = FALSE
         /\ detachPending = FALSE /\ start = "WAIT"
         /\ auto = "IDLE" /\ shell = "IDLE" /\ unnoticed = FALSE
    ELSE /\ link = TRUE /\ report = TRUE /\ attached = TRUE
         /\ detachPending = FALSE
         /\ start \in IF used \cap {"INPUT", "OUT"} = {} THEN {"DONE"} ELSE {"PULSE", "DONE"}
         /\ auto = "IDLE" /\ shell = "IDLE" /\ unnoticed = FALSE

-----------------------------------------------------------------------------
(* Bluetooth callbacks                                                     *)

ControllerComes ==
    /\ "ATTACH" \in used /\ ~link
    /\ link' = TRUE
    /\ UNCHANGED <<report, attached, detachPending, start, auto, shell, unnoticed>>

FullReport ==
    /\ link /\ ~report
    /\ report' = TRUE
    /\ UNCHANGED <<link, attached, detachPending, start, auto, shell, unnoticed>>

(* disconnected, which also forgets the reports (auto_reset_link_state).   *)
ControllerGoes ==
    /\ "ATTACH" \in used /\ link
    /\ link' = FALSE /\ report' = FALSE
    /\ detachPending' = attached
    /\ unnoticed' = FALSE
    /\ UNCHANGED <<attached, start, auto, shell>>

-----------------------------------------------------------------------------
(* The start task                                                          *)

StartSees ==
    /\ start = "WAIT" /\ report
    /\ start' = "DELAY"
    /\ UNCHANGED <<link, report, attached, detachPending, auto, shell, unnoticed>>
StartChecks ==
    /\ start = "DELAY"
    /\ start' = IF report /\ link THEN "PULSE" ELSE "WAIT"
    /\ UNCHANGED <<link, report, attached, detachPending, auto, shell, unnoticed>>

FaultMustDetach(ok) == FALSE
MustDetach(ok) == ok /\ ~(report /\ link)
StartInits(ok) ==
    /\ start = "PULSE"
    /\ start' = "DONE" /\ attached' = ok
    /\ detachPending' = (detachPending \/ MustDetach(ok)) /\ unnoticed' = FALSE
    /\ UNCHANGED <<link, report, auto, shell>>

-----------------------------------------------------------------------------
(* The auto task: first what is to be detached, then what is to be         *)
(* attached.                                                               *)

AutoDetaches ==
    /\ auto = "IDLE" /\ detachPending
    /\ detachPending' = FALSE /\ attached' = FALSE
    /\ UNCHANGED <<link, report, start, auto, shell, unnoticed>>

MayAttach == ~attached /\ link /\ report
AutoPulses ==
    /\ "ATTACH" \in used /\ auto = "IDLE" /\ ~detachPending /\ MayAttach
    /\ auto' = "PULSE"
    /\ UNCHANGED <<link, report, attached, detachPending, start, shell, unnoticed>>
FaultIsAttached(ok) == TRUE
IsAttached(ok) == ok
AutoAttaches(ok) ==
    /\ auto = "PULSE"
    /\ auto' = "IDLE" /\ attached' = IsAttached(ok) /\ unnoticed' = (ok /\ ~link)
    /\ UNCHANGED <<link, report, detachPending, start, shell>>

-----------------------------------------------------------------------------
(* ds5 usb-reinit, ds5 usb-cycle                                           *)

ShellReinits(ok) ==
    /\ shell = "IDLE"
    /\ UNCHANGED attachVars
ShellCycles ==
    /\ "ATTACH" \in used /\ shell = "IDLE"
    /\ shell' = "PULSE" /\ attached' = FALSE
    /\ UNCHANGED <<link, report, detachPending, start, auto, unnoticed>>
ShellCycleEnds(ok) ==
    /\ shell = "PULSE"
    /\ shell' = "IDLE" /\ attached' = ok /\ unnoticed' = (ok /\ ~link)
    /\ UNCHANGED <<link, report, detachPending, start, auto>>

-----------------------------------------------------------------------------
(* Every step with the call it makes and the result of that call.          *)

AutoStep(call, ok) ==
    \/ AutoDetaches /\ call = "DEINIT"
    \/ AutoPulses /\ call = None
    \/ AutoAttaches(ok) /\ call = "REINIT"
StartStep(call, ok) ==
    \/ (StartSees \/ StartChecks) /\ call = None
    \/ StartInits(ok) /\ call = "INIT"
ShellStep(call, ok) ==
    \/ ShellReinits(ok) /\ call = "REINIT"
    \/ ShellCycles /\ call = "DEINIT"
    \/ ShellCycleEnds(ok) /\ call = "REINIT"
LinkStep(call) ==
    (ControllerComes \/ FullReport \/ ControllerGoes) /\ call = None

AttachOK ==
    /\ {link, report, attached, detachPending, unnoticed} \subseteq BOOLEAN
    /\ start \in {"WAIT", "DELAY", "PULSE", "DONE"}
    /\ auto \in {"IDLE", "PULSE"} /\ shell \in {"IDLE", "PULSE"}
=============================================================================
