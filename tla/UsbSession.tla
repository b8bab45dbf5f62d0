----------------------------- MODULE UsbSession -----------------------------
(***************************************************************************)
(* The USB device as the rest of m61_usb_gamepad.c sees it: what the stack *)
(* and the host have agreed on (bus), and the flags that the event handler *)
(* keeps of it.  USB callbacks run in the interrupt: each is one step.     *)
(* InputPump, HostOutput, AudioIngress, MicPipeline and UsbAttach add what *)
(* they do.                                                                *)
(***************************************************************************)
EXTENDS Integers

CONSTANTS Uses   \* functions of the device a behaviour may use together

Streams == {"OUT", "MIC"}
Functions == Streams \cup {"INPUT", "OUTPUT", "ATTACH"}

ASSUME UsesAssumption == Uses \subseteq SUBSET Functions

VARIABLES
    used,       \* functions used in this behaviour
    bus,        \* "OFF", "ATTACHED", "RESET" or "CONFIGURED" (stack and host)
    ready,      \* usb_ready, usb_configured
    suspended,  \* usb_suspended
    open        \* audio_out_open, audio_in_open: streams

sessionVars == <<used, bus, ready, suspended, open>>

Configured == bus = "CONFIGURED"
Live == Configured /\ ~suspended           \* the host polls the endpoints
Streaming(s) == Live /\ s \in open

(* Init; a behaviour that does not look at the attachment starts attached. *)
SessionInit ==
    /\ used \in Uses
    /\ bus = IF "ATTACH" \in used THEN "OFF" ELSE "ATTACHED"
    /\ ready = FALSE /\ suspended = FALSE /\ open = {}

(* USBD_EVENT_RESET and USBD_EVENT_DISCONNECTED.                           *)
SessionReset ==
    /\ bus # "OFF"
    /\ bus' \in {"RESET", "ATTACHED"}
    /\ ready' = FALSE /\ suspended' = FALSE /\ open' = {}
    /\ UNCHANGED used

(* USBD_EVENT_CONFIGURED: the host configures once after a reset.          *)
SessionConfigured ==
    /\ bus = "RESET"
    /\ bus' = "CONFIGURED" /\ ready' = TRUE /\ suspended' = FALSE
    /\ UNCHANGED <<used, open>>

SessionSuspend ==
    /\ bus \in {"RESET", "CONFIGURED"} /\ ~suspended
    /\ suspended' = TRUE
    /\ UNCHANGED <<used, bus, ready, open>>

SessionResume ==
    /\ bus # "OFF" /\ suspended
    /\ suspended' = FALSE
    /\ UNCHANGED <<used, bus, ready, open>>

(* usbd_audio_open and usbd_audio_close: the host selects a setting of the *)
(* streaming interface.                                                    *)
SessionOpen(s) ==
    /\ Live /\ s \in used
    /\ open' = open \cup {s}
    /\ UNCHANGED <<used, bus, ready, suspended>>
SessionClose(s) ==
    /\ Live /\ s \in used
    /\ open' = open \ {s}
    /\ UNCHANGED <<used, bus, ready, suspended>>

(* m61_usb_gamepad_deinit if there is a session, then the stack is started *)
(* (m61_usb_gamepad_reinit) or left off.                                   *)
SessionRestart(on) ==
    /\ bus' = IF on THEN "ATTACHED" ELSE "OFF"
    /\ IF bus = "OFF" THEN UNCHANGED <<ready, suspended>>
       ELSE ready' = FALSE /\ suspended' = FALSE
    /\ UNCHANGED <<used, open>>

(* m61_usb_gamepad_init: the stack is started whatever went before.        *)
SessionInitAgain(on) ==
    /\ bus' = IF on THEN "ATTACHED" ELSE "OFF"
    /\ UNCHANGED <<used, ready, suspended, open>>

(* Well typed; the stack is never ahead of the flags.                      *)
SessionOK ==
    /\ bus \in {"OFF", "ATTACHED", "RESET", "CONFIGURED"}
    /\ ready \in BOOLEAN /\ suspended \in BOOLEAN
    /\ used \in Uses /\ open \subseteq Streams \cap used
    /\ Configured => ready
=============================================================================
