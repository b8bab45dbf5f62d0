----------------------------- MODULE UsbDevice ------------------------------
(***************************************************************************)
(* The USB side of the dongle: the session events and the attachment       *)
(* composed with the input pump, the host's output reports, the audio OUT  *)
(* ring and the microphone.                                                *)
(* An event of the bus, or a call of m61_usb_gamepad_init, ..._deinit or   *)
(* ..._reinit, is a step of all of them.                                   *)
(*                                                                         *)
(* A task is not held up between its choice of a buffer and its call of    *)
(* the stack for as long as a host needs to configure a device, to resume  *)
(* or to select a setting again (Settled).                                 *)
(***************************************************************************)
EXTENDS UsbAttach, InputPump, AudioIngress, MicPipeline, HostOutput

vars == <<sessionVars, attachVars, inputVars, ringVars, micVars, outputVars>>

Init == SessionInit /\ AttachInit /\ InputInit /\ IngressInit /\ MicInit /\ OutputInit

Settled == ~starting /\ reader.pc \notin {"HAVE", "CHOOSE", "START"}

-----------------------------------------------------------------------------
(* usbd_event_handler, usbd_audio_open, usbd_audio_close                   *)

BusReset ==
    /\ SessionReset /\ InputReset /\ MicReset /\ UNCHANGED attachVars
    /\ IngressCancelled /\ OutputReset
BusConfigured ==
    /\ Settled /\ SessionConfigured /\ InputConfigured
    /\ UNCHANGED <<attachVars, outputVars>>
    /\ IngressArms /\ MicArms
(* For the output reports alone a suspension only means that the host      *)
(* writes none, as it may not anyway: such behaviours are left out.        *)
BusSuspended ==
    /\ used # {"OUTPUT"}
    /\ SessionSuspend /\ UNCHANGED <<inputVars, attachVars, outputVars>>
    /\ IngressSuspended /\ MicSuspended
BusResumed ==
    /\ Settled /\ SessionResume /\ UNCHANGED <<inputVars, attachVars, outputVars>>
    /\ IngressArms /\ MicArms

OpenOut ==
    /\ Settled /\ SessionOpen("OUT") /\ IngressOpened
    /\ UNCHANGED <<inputVars, micVars, attachVars, outputVars>>
CloseOut ==
    /\ SessionClose("OUT") /\ IngressCancelled
    /\ UNCHANGED <<inputVars, micVars, attachVars, outputVars>>
OpenMic ==
    /\ SessionOpen("MIC") /\ MicOpened
    /\ UNCHANGED <<inputVars, ringVars, attachVars, outputVars>>
CloseMic ==
    /\ SessionClose("MIC") /\ MicReset
    /\ UNCHANGED <<inputVars, ringVars, attachVars, outputVars>>

BusEvent ==
    \/ BusReset \/ BusConfigured \/ BusSuspended \/ BusResumed
    \/ OpenOut \/ CloseOut \/ OpenMic \/ CloseMic

-----------------------------------------------------------------------------
(* m61_usb_gamepad_init, ..._deinit and ..._reinit                         *)

DeviceCall(call, ok) ==
    /\ UNCHANGED outputVars
    /\ CASE call = None ->
            ok /\ UNCHANGED <<sessionVars, inputVars, ringVars, micVars>>
         [] call = "DEINIT" ->
            /\ ok /\ SessionRestart(FALSE) /\ InputRestart(FALSE)
            /\ IngressRestart /\ MicRestart
         [] call = "REINIT" ->
            /\ SessionRestart(ok) /\ InputRestart(TRUE)
            /\ IngressRestart /\ MicRestart
         [] call = "INIT" ->
            /\ SessionInitAgain(ok) /\ InputInitAgain(TRUE)
            /\ IngressInitAgain /\ MicInitAgain

AutoTurn == \E call \in Calls, ok \in BOOLEAN : AutoStep(call, ok) /\ DeviceCall(call, ok)
StartTurn == \E call \in Calls, ok \in BOOLEAN : StartStep(call, ok) /\ DeviceCall(call, ok)
ShellTurn == \E call \in Calls, ok \in BOOLEAN : ShellStep(call, ok) /\ DeviceCall(call, ok)
Controller == LinkStep(None) /\ DeviceCall(None, TRUE)
Attaching == AutoTurn \/ StartTurn \/ ShellTurn \/ Controller

-----------------------------------------------------------------------------
(* The steps of one part                                                   *)

InputOnly == UNCHANGED <<sessionVars, attachVars, ringVars, micVars, outputVars>>
MicOnly == UNCHANGED <<sessionVars, attachVars, inputVars, ringVars, outputVars>>
OutputOnly == UNCHANGED <<sessionVars, attachVars, inputVars, ringVars, micVars>>
InputSteps ==
    InputOnly /\ (ReportArrives \/ PumpClaims \/ PumpStarts \/ InputSent)
IngressSteps ==
    /\ UNCHANGED <<sessionVars, attachVars, inputVars, micVars, outputVars>>
    /\ IngressTask \/ SettingResets \/ \E empty \in BOOLEAN : PacketDone(empty)
MicSteps == MicOnly /\ (MicTask \/ PacketSent \/ SetMute \/ EnableMic)
OutputSteps ==
    /\ OutputOnly
    /\ \/ HostWrites \/ OutputBridge \/ LinkTurns \/ ControlTurns
       \/ ControllerReports
       \/ \E t \in Builders : BringsUp(t)

Next ==
    BusEvent \/ Attaching \/ InputSteps \/ IngressSteps \/ MicSteps \/ OutputSteps

Spec == Init /\ [][Next]_vars

(* The bridge pumps and sends in every turn and the Bluetooth task         *)
(* finishes what it began; the host polls an endpoint that is armed; the   *)
(* auto and the start task go on; the stack can be started in the end, and *)
(* the Bluetooth stack has a buffer from time to time.                     *)
Restarts(ok) == AutoAttaches(ok) /\ DeviceCall("REINIT", ok)
FairSpec ==
    /\ Spec
    /\ WF_vars(InputOnly /\ (PumpClaims \/ PumpStarts)) /\ WF_vars(InputOnly /\ InputSent)
    /\ WF_vars(AutoTurn) /\ WF_vars(StartTurn) /\ SF_vars(Restarts(TRUE))
    /\ WF_vars(OutputOnly /\ (TakeReport \/ SeeLink))
    /\ SF_vars(OutputOnly /\ SendReport("SENT")) /\ WF_vars(OutputOnly /\ BringsUp("auto"))

TypeOK == SessionOK /\ AttachOK /\ InputOK /\ IngressOK /\ MicOK /\ OutputOK

-----------------------------------------------------------------------------
(* Properties of the attachment                                            *)

(* With a controller that reports, the device gets on the bus, whatever    *)
(* goes wrong on the way: the auto task tries again (main.c:3225).         *)
UsbComes ==
    "ATTACH" \in used /\ link /\ report /\ ~attached
        ~> (attached /\ bus # "OFF") \/ ~report

(* Without a controller the device leaves the bus, also when the           *)
(* controller went during the start (main.c:3194).  The code has one hole: *)
(* what happens while the auto task or the shell pulls the lines low goes  *)
(* unnoticed.                                                              *)
UsbGoes == attached /\ ~link ~> ~attached \/ link \/ unnoticed

(* The device is on the bus while a controller is there, and only then, in *)
(* the end.                                                                *)
FollowsController == UsbComes /\ UsbGoes

-----------------------------------------------------------------------------
(* Properties of the parts under the events of the bus                     *)

(* The marks and counts that tell the tasks and callbacks what the hardware*)
(* and the rings hold are right after every reset, suspension and restart. *)
MarksExact == TypeOK /\ BusyTracks /\ CountExact /\ MicCountExact

(* The audio OUT ring: the hardware never fills a buffer in use, and goes  *)
(* on filling.                                                             *)
RingSound == NoOverwrite /\ KeepsListening /\ EndpointFollows /\ InHand /\ InSequence

(* The microphone rings: what was said before a flush is gone, what waits  *)
(* is sent.                                                                *)
MicSound == FlushForgets /\ MicFlows /\ WindowHolds /\ CodecHolds /\ InOrder

(* Sound arrives in the order it was made, in both directions: no hole in  *)
(* what the epoch store takes, nothing twice in what the host hears.       *)
AudioInOrder == [][NoHole /\ HeardInOrder]_vars
=============================================================================
