-------------------------- MODULE UsbDeviceProofs --------------------------
(* Proofs about the USB side for every size of its rings, every number of  *)
(* reports, packets and frames, and every set of functions used together.  *)
EXTENDS UsbDevice, FiniteSetTheorems, SequenceTheorems, WellFoundedInduction, TLAPS

-----------------------------------------------------------------------------
(* What a step is for the parts of the device                              *)

(* The device was stopped, and started again or left off.                  *)
Restarted ==
    /\ \E on, again \in BOOLEAN : SessionRestart(on) /\ InputRestart(again)
    /\ IngressRestart /\ MicRestart /\ UNCHANGED outputVars

(* m61_usb_gamepad_init.                                                   *)
Started ==
    /\ \E on \in BOOLEAN : SessionInitAgain(on)
    /\ InputInitAgain(TRUE) /\ IngressInitAgain /\ MicInitAgain /\ UNCHANGED outputVars

(* A step of the attachment that does not call the device.                 *)
Quiet == UNCHANGED <<sessionVars, inputVars, ringVars, micVars, outputVars>>

LEMMA CallKinds ==
  ASSUME NEW call \in Calls, NEW ok \in BOOLEAN, DeviceCall(call, ok)
  PROVE  Quiet \/ Restarted \/ Started
<1>1. /\ None # "DEINIT" /\ None # "REINIT" /\ None # "INIT"
      /\ call \in {None, "DEINIT", "REINIT", "INIT"} /\ UNCHANGED outputVars
  BY DEF None, Calls, DeviceCall
<1>2. CASE call = None
  BY <1>1, <1>2 DEF DeviceCall, Quiet
<1>3. CASE call = "DEINIT"
  BY <1>1, <1>3 DEF DeviceCall, Restarted
<1>4. CASE call = "REINIT"
  BY <1>1, <1>4 DEF DeviceCall, Restarted
<1>5. CASE call = "INIT"
  BY <1>1, <1>5 DEF DeviceCall, Started
<1> QED
  BY <1>1, <1>2, <1>3, <1>4, <1>5

LEMMA Kinds ==
  ASSUME [Next]_vars
  PROVE  \/ BusReset \/ BusConfigured \/ BusSuspended \/ BusResumed
         \/ OpenOut \/ CloseOut \/ OpenMic \/ CloseMic
         \/ Restarted \/ Started \/ Quiet
         \/ InputSteps \/ IngressSteps \/ MicSteps \/ OutputSteps
<1>1. CASE BusEvent
  BY <1>1 DEF BusEvent
<1>2. CASE Attaching
  <2>1. \E call \in Calls, ok \in BOOLEAN : DeviceCall(call, ok)
    BY <1>2 DEF Attaching, AutoTurn, StartTurn, ShellTurn, Controller, Calls
  <2> QED
    BY <2>1, CallKinds
<1>3. CASE UNCHANGED vars
  BY <1>3 DEF vars, Quiet
<1> QED
  BY <1>1, <1>2, <1>3 DEF Next

-----------------------------------------------------------------------------
(* The session                                                             *)

LEMMA InitSession == Init => SessionOK
BY DEF Init, SessionInit, SessionOK, Configured

LEMMA NextSession ==
  ASSUME SessionOK, [Next]_vars
  PROVE  SessionOK'
<1> USE DEF SessionOK, Configured, Live, Streams
<1>1. CASE BusReset
  BY <1>1 DEF BusReset, SessionReset
<1>2. CASE BusConfigured
  BY <1>2 DEF BusConfigured, SessionConfigured
<1>3. CASE BusSuspended
  BY <1>3 DEF BusSuspended, SessionSuspend
<1>4. CASE BusResumed
  BY <1>4 DEF BusResumed, SessionResume
<1>5. CASE OpenOut
  BY <1>5 DEF OpenOut, SessionOpen
<1>6. CASE CloseOut
  BY <1>6 DEF CloseOut, SessionClose
<1>7. CASE OpenMic
  BY <1>7 DEF OpenMic, SessionOpen
<1>8. CASE CloseMic
  BY <1>8 DEF CloseMic, SessionClose
<1>9. CASE Restarted
  BY <1>9 DEF Restarted, SessionRestart
<1>10. CASE Started
  BY <1>10 DEF Started, SessionInitAgain
<1>11. CASE UNCHANGED sessionVars
  BY <1>11 DEF sessionVars
<1>12. Quiet \/ InputSteps \/ IngressSteps \/ MicSteps \/ OutputSteps => UNCHANGED sessionVars
  BY DEF Quiet, InputSteps, InputOnly, IngressSteps, MicSteps, MicOnly, OutputSteps, OutputOnly
<1> QED
  BY <1>1, <1>2, <1>3, <1>4, <1>5, <1>6, <1>7, <1>8, <1>9, <1>10, <1>11, <1>12, Kinds

-----------------------------------------------------------------------------
(* The attachment                                                          *)

LEMMA InitAttach == Init => AttachOK
BY DEF Init, AttachInit, AttachOK

LEMMA NextAttach ==
  ASSUME AttachOK, [Next]_vars
  PROVE  AttachOK'
<1> USE DEF AttachOK, attachVars
<1>1. CASE UNCHANGED attachVars
  BY <1>1
<1>2. ASSUME NEW call, NEW ok \in BOOLEAN, AutoStep(call, ok)
      PROVE  AttachOK'
  BY <1>2 DEF AutoStep, AutoDetaches, AutoPulses, AutoAttaches, IsAttached
<1>3. ASSUME NEW call, NEW ok \in BOOLEAN, StartStep(call, ok)
      PROVE  AttachOK'
  BY <1>3 DEF StartStep, StartSees, StartChecks, StartInits, MustDetach
<1>4. ASSUME NEW call, NEW ok \in BOOLEAN, ShellStep(call, ok)
      PROVE  AttachOK'
  BY <1>4 DEF ShellStep, ShellReinits, ShellCycles, ShellCycleEnds
<1>5. ASSUME LinkStep(None)
      PROVE  AttachOK'
  BY <1>5 DEF LinkStep, ControllerComes, FullReport, ControllerGoes
<1>6. Attaching => AttachOK'
  BY <1>2, <1>3, <1>4, <1>5 DEF Attaching, AutoTurn, StartTurn, ShellTurn, Controller
<1>7. ~Attaching => UNCHANGED attachVars
  BY DEF Next, vars, BusEvent, BusReset, BusConfigured, BusSuspended, BusResumed, OpenOut,
         CloseOut, OpenMic, CloseMic, InputSteps, InputOnly, IngressSteps, MicSteps,
         MicOnly, OutputSteps, OutputOnly
<1> QED
  BY <1>1, <1>6, <1>7

-----------------------------------------------------------------------------
(* The input reports                                                       *)

InputInv == InputOK /\ BusyTracks

LEMMA InitInput == Init => InputInv
<1> USE InputAssumption
<1>1. ASSUME Init PROVE InputOK
  <2>1. repeats \in BOOLEAN
    BY <1>1 DEF Init, InputInit
  <2>2. /\ pending = FALSE /\ busy = FALSE /\ starting = FALSE /\ wire = FALSE
        /\ latest = 0 /\ buffer = 0 /\ shown = 0
    BY <1>1 DEF Init, InputInit
  <2>3. {pending, busy, starting, wire, repeats} \subseteq BOOLEAN
    BY <2>1, <2>2
  <2>4. {latest, buffer, shown} \subseteq 0 .. MaxReports
    BY <2>2
  <2> QED
    BY <2>3, <2>4 DEF InputOK
<1>2. ASSUME Init PROVE BusyTracks
  BY <1>2 DEF Init, InputInit, SessionInit, BusyTracks, Configured
<1> QED
  BY <1>1, <1>2 DEF InputInv

LEMMA InputKept ==
  ASSUME InputInv, UNCHANGED inputVars, UNCHANGED bus
  PROVE  InputInv'
BY DEF InputInv, InputOK, BusyTracks, inputVars, Configured

LEMMA NextInput ==
  ASSUME SessionOK, InputInv, [Next]_vars
  PROVE  InputInv'
<1> USE InputAssumption
    DEF InputInv, InputOK, BusyTracks, Configured
<1>1. CASE BusReset
  BY <1>1 DEF BusReset, SessionReset, InputReset
<1>2. CASE BusConfigured
  BY <1>2 DEF BusConfigured, Settled, SessionConfigured, InputConfigured, PumpAtOnce
<1>3. CASE Restarted
  BY <1>3 DEF Restarted, SessionRestart, InputRestart, NewMode
<1>4. CASE Started
  <2>1. /\ bus' # "CONFIGURED" /\ wire' = FALSE /\ latest' = 0
        /\ UNCHANGED <<pending, busy, buffer, starting, shown>>
    BY <1>4 DEF Started, SessionInitAgain, InputInitAgain
  <2>2. repeats' \in BOOLEAN
    BY <1>4 DEF Started, InputInitAgain, NewMode
  <2>3. {pending', busy', starting', wire', repeats'} \subseteq BOOLEAN
    BY <2>1, <2>2
  <2>4. {latest', buffer', shown'} \subseteq 0 .. MaxReports
    BY <2>1
  <2> QED
    BY <2>1, <2>3, <2>4
<1>5. CASE InputSteps
  <2>1. UNCHANGED <<bus, ready, suspended>>
    BY <1>5 DEF InputSteps, InputOnly, sessionVars
  <2>2. CASE ReportArrives
    BY <2>1, <2>2 DEF ReportArrives
  <2>3. CASE PumpClaims
    BY <2>1, <2>3 DEF PumpClaims, MayClaim
  <2>4. CASE PumpStarts
    BY <2>1, <2>4 DEF PumpStarts
  <2>5. CASE InputSent
    BY <2>1, <2>5 DEF InputSent, PumpAtOnce, Live, SessionOK
  <2> QED
    BY <1>5, <2>2, <2>3, <2>4, <2>5 DEF InputSteps
<1>6. ASSUME BusSuspended \/ BusResumed \/ OpenOut \/ CloseOut \/ OpenMic \/ CloseMic
             \/ Quiet \/ IngressSteps \/ MicSteps \/ OutputSteps
      PROVE  InputInv'
  <2>1. UNCHANGED inputVars /\ UNCHANGED bus
    BY <1>6 DEF BusSuspended, BusResumed, OpenOut, CloseOut, OpenMic, CloseMic,
        SessionSuspend, SessionResume, SessionOpen, SessionClose, Quiet, IngressSteps,
        MicSteps, MicOnly, OutputSteps, OutputOnly, sessionVars
  <2> QED
    BY <2>1, InputKept
<1> QED
  BY <1>1, <1>2, <1>3, <1>4, <1>5, <1>6, Kinds

-----------------------------------------------------------------------------
(* The output reports                                                      *)

OutputInv == OutputOK /\ MergedOrReplaced

(* What a report says of the two parts, and where the wish for each is.    *)
LEMMA SetsIs ==
  ASSUME NEW r, NEW p \in Parts, r # NoReport
  PROVE  p \in Sets(r) <=> r.led \/ p = "MOTORS"
BY DEF Sets, Parts

LEMMA MergedParts ==
  /\ NoReport.number = 0 /\ Sets(NoReport) = {} /\ Parts = {"LED", "MOTORS"}
  /\ \A r : Sets(r) \subseteq Parts
BY DEF NoReport, Sets, Parts

OutputTyped ==
    /\ pendingOut \in [number : 0 .. MaxOutputs, led : BOOLEAN, rumble : BOOLEAN]
    /\ mail \in [number : 0 .. MaxOutputs, led : BOOLEAN, rumble : BOOLEAN]
    /\ state \in [Parts -> 0 .. MaxOutputs] /\ controller \in [Parts -> 0 .. MaxOutputs]
    /\ newest \in [Parts -> 0 .. MaxOutputs] /\ outputs \in 0 .. MaxOutputs
    /\ lost \subseteq Parts /\ late \subseteq Parts
BuiltTyped ==
    /\ built \in [Builders -> [Parts -> 0 .. MaxOutputs]]
    /\ since \in [Builders -> SUBSET Parts]
PlaceTyped == attempts \in 0 .. MaxBringUps /\ at \in [Builders -> 0 .. 4 * Rounds]
LinkTyped == {hid, seen, control, fullSeen, said} \subseteq BOOLEAN

LEMMA OutputTypes == OutputOK <=> OutputTyped /\ BuiltTyped /\ PlaceTyped /\ LinkTyped
BY DEF OutputOK, OutputTyped, BuiltTyped, PlaceTyped, LinkTyped

LEMMA InitOutput == Init => OutputInv
<1> USE OutputAssumption
<1>1. ASSUME Init PROVE OutputOK
  <2>1. OutputInit
    BY <1>1 DEF Init
  <2>2. OutputTyped
    BY <2>1 DEF OutputInit, OutputTyped, NoReport, Stopped
  <2>3. BuiltTyped
    BY <2>1 DEF OutputInit, BuiltTyped, Stopped
  <2>4. PlaceTyped
    BY <2>1 DEF OutputInit, PlaceTyped
  <2>5. LinkTyped
    <3>1. ("OUTPUT" \in used) \in BOOLEAN
      OBVIOUS
    <3>2. hid \in BOOLEAN
      BY <2>1, <3>1 DEF OutputInit
    <3>3. seen = hid /\ control = hid /\ fullSeen = FALSE /\ said = FALSE
      BY <2>1 DEF OutputInit
    <3> QED
      BY <3>2, <3>3 DEF LinkTyped
  <2> QED
    BY <2>2, <2>3, <2>4, <2>5, OutputTypes
<1>2. ASSUME Init PROVE MergedOrReplaced
  BY <1>2 DEF Init, OutputInit, MergedOrReplaced, Coming, Sets, NoReport, Stopped, Parts
<1> QED
  BY <1>1, <1>2 DEF OutputInv

(* The steps of the output reports.                                        *)
OutputStep ==
    \/ OutputReset \/ HostWrites \/ TakeReport \/ SeeLink \/ NewEpoch
    \/ \E r \in SendOutcomes : SendReport(r)
    \/ LinkTurns \/ ControlTurns \/ ControllerReports
    \/ \E t \in Builders : BringUpBegins(t) \/ BringUpStep(t)

LEMMA NextLink ==
  ASSUME LinkTyped, OutputStep
  PROVE  LinkTyped'
<1> DEFINE LinkSame == UNCHANGED <<hid, seen, control, fullSeen, said>>
<1>2. ASSUME LinkSame PROVE LinkTyped'
  BY <1>2 DEF LinkTyped
<1>3. OutputReset \/ HostWrites \/ TakeReport \/ NewEpoch => LinkSame
  BY DEF OutputReset, HostWrites, TakeReport, NewEpoch, ClearMail, bringVars
<1>4. ASSUME SeeLink PROVE LinkTyped'
  <2>1. UNCHANGED <<hid, control, fullSeen, said>> /\ seen' = hid
    BY <1>4 DEF SeeLink, ClearMail, bringVars
  <2> QED
    BY <2>1 DEF LinkTyped
<1>5. ASSUME NEW r \in SendOutcomes, SendReport(r) PROVE LinkTyped'
  <2>1. UNCHANGED <<hid, seen, control, fullSeen>> /\ said' = (said \/ r = "SENT")
    BY <1>5 DEF SendReport
  <2> QED
    BY <2>1 DEF LinkTyped
<1>6. ASSUME LinkTurns PROVE LinkTyped'
  <2>1. /\ hid' = ~hid /\ seen' = seen /\ control' \in BOOLEAN
        /\ said' = FALSE \/ said' = said
        /\ fullSeen' = FALSE \/ fullSeen' = fullSeen
    BY <1>6 DEF LinkTurns, LinkGoes, LinkComes
  <2> QED
    BY <2>1 DEF LinkTyped
<1>7. ASSUME ControlTurns PROVE LinkTyped'
  <2>1. UNCHANGED <<hid, seen, fullSeen, said>> /\ control' = ~control
    BY <1>7 DEF ControlTurns
  <2> QED
    BY <2>1 DEF LinkTyped
<1>8. ASSUME ControllerReports PROVE LinkTyped'
  <2>1. UNCHANGED <<hid, seen, control, said>> /\ fullSeen' = TRUE
    BY <1>8 DEF ControllerReports
  <2> QED
    BY <2>1 DEF LinkTyped
<1>9. ASSUME NEW t \in Builders, BringUpBegins(t) PROVE LinkSame
  BY <1>9 DEF BringUpBegins
<1>10. ASSUME NEW t \in Builders, BringUpStep(t) PROVE LinkTyped'
  <2>1. UNCHANGED <<hid, seen, control, fullSeen>> /\ (said' = said \/ said' = TRUE)
    BY <1>10 DEF BringUpStep, CopyPart, SendBuilt
  <2> QED
    BY <2>1 DEF LinkTyped
<1> QED
  BY <1>2, <1>3, <1>4, <1>5, <1>6, <1>7, <1>8, <1>9, <1>10 DEF OutputStep

LEMMA NextPlace ==
  ASSUME PlaceTyped, OutputStep
  PROVE  PlaceTyped'
<1> USE OutputAssumption
<1>1. ASSUME UNCHANGED <<attempts, at>> PROVE PlaceTyped'
  BY <1>1 DEF PlaceTyped
<1>2. OutputReset \/ HostWrites \/ TakeReport \/ SeeLink \/ NewEpoch \/ ControlTurns
        \/ ControllerReports \/ (\E r \in SendOutcomes : SendReport(r))
      => UNCHANGED <<attempts, at>>
  BY DEF OutputReset, HostWrites, TakeReport, SeeLink, NewEpoch, ClearMail, ControlTurns,
         ControllerReports, SendReport, bringVars
<1>3. ASSUME LinkTurns PROVE PlaceTyped'
  <2>1. at' = at /\ attempts' \in {0, attempts}
    BY <1>3 DEF LinkTurns, LinkGoes, LinkComes
  <2> QED
    BY <2>1 DEF PlaceTyped
<1>4. ASSUME NEW t \in Builders, BringUpBegins(t) PROVE PlaceTyped'
  <2>1. at' = [at EXCEPT ![t] = 1]
    BY <1>4 DEF BringUpBegins
  <2>2. attempts' = attempts \/ (attempts < MaxBringUps /\ attempts' = attempts + 1)
    BY <1>4 DEF BringUpBegins
  <2>3. at' \in [Builders -> 0 .. 4 * Rounds] /\ attempts' \in 0 .. MaxBringUps
    BY <2>1, <2>2 DEF PlaceTyped
  <2> QED
    BY <2>3 DEF PlaceTyped
<1>5. ASSUME NEW t \in Builders, BringUpStep(t) PROVE PlaceTyped'
  <2>1. at' = [at EXCEPT ![t] = IF @ = 4 * Rounds THEN 0 ELSE @ + 1] /\ attempts' = attempts
    BY <1>5 DEF BringUpStep
  <2> QED
    BY <2>1 DEF PlaceTyped
<1> QED
  BY <1>1, <1>2, <1>3, <1>4, <1>5 DEF OutputStep

LEMMA NextBuilt ==
  ASSUME OutputTyped, BuiltTyped, OutputStep
  PROVE  BuiltTyped'
<1> USE OutputAssumption
<1>1. ASSUME UNCHANGED <<built, since>> PROVE BuiltTyped'
  BY <1>1 DEF BuiltTyped
<1>2. OutputReset \/ HostWrites \/ TakeReport \/ SeeLink \/ NewEpoch \/ LinkTurns
        \/ ControlTurns \/ ControllerReports
      => UNCHANGED <<built, since>>
  BY DEF OutputReset, HostWrites, TakeReport, SeeLink, NewEpoch, ClearMail, LinkTurns,
         ControlTurns, ControllerReports, bringVars
<1>3. ASSUME NEW r \in SendOutcomes, SendReport(r) PROVE BuiltTyped'
  <2>1. /\ built' = built
        /\ since' = [t \in Builders |->
                       since[t] \cup (Copies(t) \cap (Sets(mail) \ Sets(mail')))]
    BY <1>3 DEF SendReport
  <2>2. Sets(mail) \subseteq Parts
    BY MergedParts
  <2>3. since' \in [Builders -> SUBSET Parts]
    BY <2>1, <2>2 DEF BuiltTyped
  <2> QED
    BY <2>1, <2>3 DEF BuiltTyped
<1>4. ASSUME NEW t \in Builders, BringUpBegins(t) PROVE UNCHANGED <<built, since>>
  BY <1>4 DEF BringUpBegins
<1>5. ASSUME NEW t \in Builders, BringUpStep(t) PROVE BuiltTyped'
  <2>1. \/ \E p \in Parts : built' = [built EXCEPT ![t][p] = state[p]] /\ since' = since
        \/ built' = [built EXCEPT ![t] = Stopped] /\ since' = [since EXCEPT ![t] = {}]
        \/ UNCHANGED <<built, since>>
    BY <1>5 DEF BringUpStep, CopyPart, SendBuilt, Copied
  <2>2. Stopped \in [Parts -> 0 .. MaxOutputs]
    BY DEF Stopped
  <2>3. ASSUME NEW p \in Parts, built' = [built EXCEPT ![t][p] = state[p]], since' = since
        PROVE  BuiltTyped'
    BY <2>3 DEF BuiltTyped, OutputTyped
  <2>4. ASSUME built' = [built EXCEPT ![t] = Stopped], since' = [since EXCEPT ![t] = {}]
        PROVE  BuiltTyped'
    BY <2>2, <2>4 DEF BuiltTyped
  <2> QED
    BY <1>1, <2>1, <2>3, <2>4
<1> QED
  BY <1>1, <1>2, <1>3, <1>4, <1>5 DEF OutputStep

LEMMA NextOutput ==
  ASSUME OutputInv, [Next]_vars
  PROVE  OutputInv'
<1> USE OutputAssumption
<1>1. OutputTyped /\ BuiltTyped /\ PlaceTyped /\ LinkTyped /\ MergedOrReplaced
  BY OutputTypes DEF OutputInv
<1> DEFINE Goal == OutputTyped' /\ MergedOrReplaced'
<1>2. ASSUME UNCHANGED outputVars
      PROVE  Goal
  <2>1. UNCHANGED <<pendingOut, mail, state, controller, newest, lost, late, outputs>>
    BY <1>2 DEF outputVars
  <2>2. OutputTyped'
    BY <1>1, <2>1 DEF OutputTyped
  <2>3. MergedOrReplaced'
    BY <1>1, <2>1 DEF MergedOrReplaced, Coming, Sets, Asks
  <2> QED
    BY <2>2, <2>3
<1>3. ASSUME OutputReset
      PROVE  Goal
  BY <1>1, <1>3, MergedParts DEF OutputReset, OutputTyped, MergedOrReplaced, Coming, Sets, Asks, NoReport
<1>4. ASSUME HostWrites
      PROVE  Goal
  <2>1. PICK led \in BOOLEAN, rumble \in BOOLEAN :
          pendingOut' = [number |-> outputs', led |-> led, rumble |-> rumble]
    <3>1. PICK flags \in Reports :
            pendingOut' = [number |-> outputs', led |-> "LED" \in flags,
                           rumble |-> "RUMBLE" \in flags]
      BY <1>4 DEF HostWrites
    <3>2. ("LED" \in flags) \in BOOLEAN /\ ("RUMBLE" \in flags) \in BOOLEAN
      OBVIOUS
    <3> QED
      BY <3>1, <3>2
  <2>2. /\ outputs' = outputs + 1 /\ outputs' \in 1 .. MaxOutputs
        /\ lost' = (lost \cup Sets(pendingOut)) \ Sets(pendingOut')
        /\ UNCHANGED <<mail, state, controller, late>>
    BY <1>1, <1>4 DEF HostWrites, OutputTyped
  <2>3. /\ newest' \in [Parts -> 0 .. MaxOutputs]
        /\ newest'["LED"] = IF led THEN outputs' ELSE newest["LED"]
        /\ newest'["MOTORS"] = IF rumble THEN outputs' ELSE 0
    BY <1>1, <1>4, <2>1, <2>2 DEF HostWrites, OutputTyped, Parts
  <2>4. OutputTyped'
    <3>1. pendingOut' \in [number : 0 .. MaxOutputs, led : BOOLEAN, rumble : BOOLEAN]
      BY <2>1, <2>2
    <3>2. lost' \subseteq Parts
      BY <1>1, <2>2, MergedParts DEF OutputTyped
    <3>3. outputs' \in 0 .. MaxOutputs
      BY <2>2
    <3> QED
      BY <1>1, <2>2, <2>3, <3>1, <3>2, <3>3 DEF OutputTyped
  <2>5. pendingOut' # NoReport
    BY <2>1, <2>2 DEF NoReport
  <2>6. ASSUME NEW p \in Parts, p \in Sets(pendingOut')
        PROVE  newest'[p] = Asks(pendingOut', p)
    BY <2>1, <2>3, <2>5, <2>6, SetsIs DEF Asks, Parts
  <2>7. ASSUME NEW p \in Parts, p \notin Sets(pendingOut'), p \notin lost'
        PROVE  newest'[p] = IF p \in Sets(mail') THEN Asks(mail', p) ELSE state'[p]
    <3>1. p = "LED" /\ ~led
      BY <2>1, <2>5, <2>7, SetsIs DEF Parts
    <3>2. newest'[p] = newest[p]
      BY <2>3, <3>1
    <3>3. p \notin Sets(pendingOut) /\ p \notin lost
      BY <2>2, <2>7
    <3>4. newest[p] = IF p \in Sets(mail) THEN Asks(mail, p) ELSE state[p]
      BY <1>1, <3>3 DEF MergedOrReplaced, Coming
    <3> QED
      BY <2>2, <3>2, <3>4
  <2>8. MergedOrReplaced'
    BY <2>6, <2>7 DEF MergedOrReplaced, Coming
  <2> QED
    BY <2>4, <2>8
<1>5. ASSUME TakeReport
      PROVE  Goal
  BY <1>1, <1>5, MergedParts DEF TakeReport, OutputTyped, MergedOrReplaced, Coming, Sets, Asks, NoReport
<1>6. ASSUME mail' = NoReport, lost' = lost \cup Sets(mail),
             UNCHANGED <<pendingOut, state, controller, newest, late, outputs>>
      PROVE  Goal
  BY <1>1, <1>6, MergedParts DEF OutputTyped, MergedOrReplaced, Coming, Sets, Asks, NoReport
<1>7. ASSUME SeeLink
      PROVE  Goal
  <2>1. CASE hid
    BY <1>1, <1>7, <2>1 DEF SeeLink, OutputTyped, MergedOrReplaced, Coming, Sets, Asks
  <2>2. CASE ~hid
    BY <1>6, <1>7, <2>2 DEF SeeLink, ClearMail
  <2> QED
    BY <2>1, <2>2
<1>8. ASSUME NewEpoch
      PROVE  Goal
  BY <1>6, <1>8 DEF NewEpoch, ClearMail
<1>9. ASSUME NEW r \in SendOutcomes, SendReport(r)
      PROVE  Goal
  <2>1. CASE r = "NO BUFFER"
    BY <1>1, <1>9, <2>1 DEF SendReport, Unsent, OutputTyped, MergedOrReplaced, Coming, Sets, Asks
  <2>2. CASE r # "NO BUFFER"
    <3>1. /\ mail # NoReport /\ mail' = NoReport /\ state' = Merge(state, mail)
          /\ UNCHANGED <<pendingOut, newest, lost, outputs>>
          /\ controller' \in {state', controller} /\ late' \in {{}, late \cup Sets(mail), late}
      BY <1>9, <2>2 DEF SendReport, Unsent, SendOutcomes
    <3>2. /\ state' \in [Parts -> 0 .. MaxOutputs]
          /\ state'["LED"] = IF mail.led THEN mail.number ELSE state["LED"]
          /\ state'["MOTORS"] = IF mail.rumble THEN mail.number ELSE 0
      BY <1>1, <3>1 DEF Merge, OutputTyped, Parts
    <3>3. OutputTyped'
      <4>1. mail' \in [number : 0 .. MaxOutputs, led : BOOLEAN, rumble : BOOLEAN]
        BY <3>1 DEF NoReport
      <4>2. late' \subseteq Parts
        BY <1>1, <3>1, MergedParts DEF OutputTyped
      <4>3. controller' \in [Parts -> 0 .. MaxOutputs]
        BY <1>1, <3>1, <3>2 DEF OutputTyped
      <4> QED
        BY <1>1, <3>1, <3>2, <4>1, <4>2, <4>3 DEF OutputTyped
    <3>4. ASSUME NEW p \in Parts, p \notin lost, p \notin Sets(pendingOut)
          PROVE  newest[p] = state'[p]
      <4>1. newest[p] = IF p \in Sets(mail) THEN Asks(mail, p) ELSE state[p]
        BY <1>1, <3>4 DEF MergedOrReplaced, Coming
      <4> QED
        BY <3>1, <3>2, <4>1, SetsIs DEF Asks, Parts
    <3>5. MergedOrReplaced'
      BY <1>1, <3>1, <3>4, MergedParts DEF MergedOrReplaced, Coming
    <3> QED
      BY <3>3, <3>5
  <2> QED
    BY <2>1, <2>2
<1>10. ASSUME \/ UNCHANGED <<controller, late>>
              \/ controller' = Stopped /\ late' = {}
              \/ \E t \in Builders : controller' = built[t] /\ late' = since[t],
              UNCHANGED <<pendingOut, mail, state, newest, lost, outputs>>
       PROVE  Goal
  <2>1. Stopped \in [Parts -> 0 .. MaxOutputs]
    BY DEF Stopped
  <2>2. controller' \in [Parts -> 0 .. MaxOutputs] /\ late' \subseteq Parts
    BY <1>1, <1>10, <2>1 DEF OutputTyped, BuiltTyped
  <2>3. OutputTyped'
    BY ONLY <1>1, <1>10, <2>2 DEF OutputTyped
  <2>4. MergedOrReplaced'
    BY <1>1, <1>10 DEF MergedOrReplaced, Coming, Sets, Asks
  <2> QED
    BY <2>3, <2>4
<1>11. ASSUME LinkTurns PROVE Goal
  BY <1>10, <1>11 DEF LinkTurns, LinkGoes, LinkComes
<1>12. ASSUME ControlTurns \/ ControllerReports PROVE Goal
  BY <1>10, <1>12 DEF ControlTurns, ControllerReports
<1>13. ASSUME NEW t \in Builders, BringUpBegins(t) PROVE Goal
  BY <1>10, <1>13 DEF BringUpBegins
<1>14. ASSUME NEW t \in Builders, BringUpStep(t) PROVE Goal
  <2>1. \/ UNCHANGED <<controller, late>>
        \/ controller' = built[t] /\ late' = since[t]
    BY <1>14 DEF BringUpStep, CopyPart, SendBuilt
  <2>2. UNCHANGED <<pendingOut, mail, state, newest, lost, outputs>>
    BY <1>14 DEF BringUpStep
  <2> QED
    BY <1>10, <2>1, <2>2
<1>15. OutputSteps \/ BusReset => OutputStep
  BY DEF OutputSteps, BusReset, OutputStep, OutputBridge, BringsUp
<1>16. ~OutputSteps /\ ~BusReset => UNCHANGED outputVars
  BY Kinds DEF BusConfigured, BusSuspended, BusResumed, OpenOut, CloseOut, OpenMic, CloseMic,
     Restarted, Started, Quiet, InputSteps, InputOnly, IngressSteps, MicSteps, MicOnly
<1>17. CASE UNCHANGED outputVars
  <2>1. BuiltTyped' /\ PlaceTyped' /\ LinkTyped'
    BY <1>1, <1>17 DEF outputVars, bringVars, BuiltTyped, PlaceTyped, LinkTyped
  <2> QED
    BY <1>2, <1>17, <2>1, OutputTypes, PTL DEF OutputInv
<1>18. CASE OutputStep
  <2>1. Goal
    BY <1>3, <1>4, <1>5, <1>7, <1>8, <1>9, <1>11, <1>12, <1>13, <1>14, <1>18 DEF OutputStep
  <2>2. BuiltTyped' /\ PlaceTyped' /\ LinkTyped'
    BY <1>1, <1>18, NextLink, NextPlace, NextBuilt
  <2> QED
    BY <2>1, <2>2, OutputTypes, PTL DEF OutputInv
<1> QED
  BY <1>15, <1>16, <1>17, <1>18

-----------------------------------------------------------------------------
(* Positions of a ring                                                     *)

(* A set of numbers has a least one.                                       *)
LEMMA LeastNat ==
  ASSUME NEW T, T \subseteq Nat, T # {}
  PROVE  \E x \in T : \A y \in T : x <= y
<1>1. PICK x \in T : \A y \in T : ~(<<y, x>> \in OpToRel(<, Nat))
  BY NatLessThanWellFounded, WFMin, Zenon
<1>2. \A y \in T : ~(y < x)
  BY <1>1 DEF OpToRel
<1> QED
  BY <1>2

(* Positions of a ring wrap at most once.                                  *)
LEMMA Wrap ==
  ASSUME NEW D \in Nat \ {0}, NEW t \in 0 .. D - 1, NEW i \in 0 .. D
  PROVE  /\ (t + i) % D = IF t + i < D THEN t + i ELSE t + i - D
         /\ (t + i) % D \in 0 .. D - 1
OBVIOUS

LEMMA WrapBack ==
  ASSUME NEW D \in Nat \ {0}, NEW c \in 0 .. D - 1, NEW s \in 0 .. D - 1
  PROVE  /\ (s + D - c) % D = IF c <= s THEN s - c ELSE s + D - c
         /\ (s + D - c) % D \in 0 .. D - 1
OBVIOUS

LEMMA Sizes ==
  IngressDepth \in Nat \ {0} /\ Slots = 0 .. IngressDepth - 1 /\ NoSlot = IngressDepth
BY IngressAssumption DEF Slots, NoSlot

LEMMA FromIs ==
  ASSUME NEW c \in Slots, NEW n \in Slots
  PROVE  /\ From(c, n) = IF c + n < IngressDepth THEN c + n ELSE c + n - IngressDepth
         /\ From(c, n) \in Slots
<1>1. \A D \in Nat \ {0} : \A t \in 0 .. D - 1 : \A i \in 0 .. D :
         /\ (t + i) % D = IF t + i < D THEN t + i ELSE t + i - D
         /\ (t + i) % D \in 0 .. D - 1
  BY Wrap
<1>2. c \in 0 .. IngressDepth - 1 /\ n \in 0 .. IngressDepth /\ IngressDepth \in Nat \ {0}
  BY Sizes
<1>3. /\ (c + n) % IngressDepth = IF c + n < IngressDepth THEN c + n ELSE c + n - IngressDepth
      /\ (c + n) % IngressDepth \in 0 .. IngressDepth - 1
  BY ONLY <1>1, <1>2, Zenon
<1> QED
  BY <1>3, Sizes DEF From

LEMMA AheadIs ==
  ASSUME NEW c \in Slots, NEW s \in Slots
  PROVE  /\ Ahead(c, s) = IF c <= s THEN s - c ELSE s + IngressDepth - c
         /\ Ahead(c, s) \in Slots
<1>1. \A D \in Nat \ {0} : \A t \in 0 .. D - 1 : \A i \in 0 .. D - 1 :
         /\ (i + D - t) % D = IF t <= i THEN i - t ELSE i + D - t
         /\ (i + D - t) % D \in 0 .. D - 1
  BY WrapBack
<1>2. c \in 0 .. IngressDepth - 1 /\ s \in 0 .. IngressDepth - 1 /\ IngressDepth \in Nat \ {0}
  BY Sizes
<1>3. /\ (s + IngressDepth - c) % IngressDepth = IF c <= s THEN s - c ELSE s + IngressDepth - c
      /\ (s + IngressDepth - c) % IngressDepth \in 0 .. IngressDepth - 1
  BY ONLY <1>1, <1>2, Zenon
<1> QED
  BY <1>3, Sizes DEF Ahead

LEMMA AfterIs ==
  ASSUME NEW s \in Slots
  PROVE  /\ After(s) = IF s + 1 < IngressDepth THEN s + 1 ELSE 0
         /\ After(s) \in Slots
<1>1. \A D \in Nat \ {0} : \A t \in 0 .. D - 1 : \A i \in 0 .. D :
         /\ (t + i) % D = IF t + i < D THEN t + i ELSE t + i - D
         /\ (t + i) % D \in 0 .. D - 1
  BY Wrap
<1>2. s \in 0 .. IngressDepth - 1 /\ 1 \in 0 .. IngressDepth /\ IngressDepth \in Nat \ {0}
  BY Sizes
<1>3. /\ (s + 1) % IngressDepth = IF s + 1 < IngressDepth THEN s + 1 ELSE s + 1 - IngressDepth
      /\ (s + 1) % IngressDepth \in 0 .. IngressDepth - 1
  BY ONLY <1>1, <1>2, Zenon
<1> QED
  BY <1>2, <1>3, Sizes DEF After

LEMMA FromAhead ==
  ASSUME NEW c \in Slots, NEW s \in Slots
  PROVE  From(c, Ahead(c, s)) = s
<1>1. PICK a \in Slots : a = Ahead(c, s)
  BY AheadIs
<1>2. a = IF c <= s THEN s - c ELSE s + IngressDepth - c
  BY <1>1, AheadIs
<1>3. From(c, a) = IF c + a < IngressDepth THEN c + a ELSE c + a - IngressDepth
  BY FromIs
<1> QED
  BY <1>1, <1>2, <1>3, Sizes

LEMMA AheadFrom ==
  ASSUME NEW c \in Slots, NEW n \in Slots
  PROVE  Ahead(c, From(c, n)) = n
<1>1. PICK s \in Slots : s = From(c, n)
  BY FromIs
<1>2. s = IF c + n < IngressDepth THEN c + n ELSE c + n - IngressDepth
  BY <1>1, FromIs
<1>3. Ahead(c, s) = IF c <= s THEN s - c ELSE s + IngressDepth - c
  BY AheadIs
<1> QED
  BY <1>1, <1>2, <1>3, Sizes

LEMMA AheadDistinct ==
  ASSUME NEW c \in Slots, NEW s \in Slots, NEW t \in Slots, s # t
  PROVE  Ahead(c, s) # Ahead(c, t)
BY FromAhead

(* Behind the first of them the others keep their order.                   *)
LEMMA AheadOrder ==
  ASSUME NEW c \in Slots, NEW s \in Slots, NEW t \in Slots, NEW u \in Slots,
         Ahead(c, s) < Ahead(c, t), Ahead(c, s) < Ahead(c, u)
  PROVE  Ahead(After(s), t) < Ahead(After(s), u) <=> Ahead(c, t) < Ahead(c, u)
<1>1. PICK n \in Slots : n = After(s) /\ n = IF s + 1 < IngressDepth THEN s + 1 ELSE 0
  BY AfterIs
<1>2. /\ Ahead(c, s) = IF c <= s THEN s - c ELSE s + IngressDepth - c
      /\ Ahead(c, t) = IF c <= t THEN t - c ELSE t + IngressDepth - c
      /\ Ahead(c, u) = IF c <= u THEN u - c ELSE u + IngressDepth - c
      /\ Ahead(n, t) = IF n <= t THEN t - n ELSE t + IngressDepth - n
      /\ Ahead(n, u) = IF n <= u THEN u - n ELSE u + IngressDepth - n
  BY AheadIs
<1>3. /\ c \in 0 .. IngressDepth - 1 /\ s \in 0 .. IngressDepth - 1 /\ t \in 0 .. IngressDepth - 1
      /\ u \in 0 .. IngressDepth - 1 /\ n \in 0 .. IngressDepth - 1 /\ IngressDepth \in Nat \ {0}
  BY Sizes
<1>4. Ahead(n, t) = Ahead(c, t) - Ahead(c, s) - 1
  BY ONLY <1>1, <1>2, <1>3, Ahead(c, s) < Ahead(c, t)
<1>5. Ahead(n, u) = Ahead(c, u) - Ahead(c, s) - 1
  BY ONLY <1>1, <1>2, <1>3, Ahead(c, s) < Ahead(c, u)
<1>6. Ahead(c, s) \in Int /\ Ahead(c, t) \in Int /\ Ahead(c, u) \in Int
  BY ONLY <1>2, <1>3
<1> QED
  BY <1>1, <1>4, <1>5, <1>6

(* The search from a cursor finds the first.                               *)
LEMMA FirstFrom ==
  ASSUME NEW c \in Slots, NEW T, T \subseteq Slots, T # {},
         NEW n, n = CHOOSE k \in Slots : /\ From(c, k) \in T
                                         /\ \A m \in 0 .. k - 1 : From(c, m) \notin T
  PROVE  /\ From(c, n) \in T
         /\ \A t \in T : Ahead(c, From(c, n)) <= Ahead(c, t)
<1> DEFINE A == {Ahead(c, t) : t \in T}
           P(k) == From(c, k) \in T /\ \A m \in 0 .. k - 1 : From(c, m) \notin T
<1>1. A \subseteq Nat /\ A # {}
  <2>1. \A t \in T : Ahead(c, t) \in Slots
    BY AheadIs
  <2>2. Slots \subseteq Nat
    BY Sizes
  <2>3. PICK t0 : t0 \in T
    OBVIOUS
  <2> HIDE DEF P
  <2>4. Ahead(c, t0) \in A
    BY <2>3
  <2>5. \A a \in A : a \in Nat
    BY <2>1, <2>2
  <2> HIDE DEF A
  <2> QED
    BY <2>4, <2>5
<1>2. PICK k \in A : \A y \in A : k <= y
  BY <1>1, LeastNat
<1>3. k \in Slots /\ From(c, k) \in T
  BY FromAhead, AheadIs
<1>4. \A m \in 0 .. k - 1 : From(c, m) \notin T
  <2> SUFFICES ASSUME NEW m \in 0 .. k - 1, From(c, m) \in T PROVE FALSE
    OBVIOUS
  <2>1. m \in Slots
    BY <1>3, Sizes
  <2>2. m \in A
    BY <2>1, AheadFrom
  <2> QED
    BY <1>2, <1>3, <2>2, Sizes
<1>5. \E j \in Slots : P(j)
  BY <1>3, <1>4
<1>6. n = CHOOSE j \in Slots : P(j)
  OBVIOUS
<1>7. n \in Slots /\ P(n)
  BY ONLY <1>5, <1>6
<1>8. ASSUME NEW t \in T PROVE n <= Ahead(c, t)
  <2>1. Ahead(c, t) \in Slots /\ From(c, Ahead(c, t)) = t
    BY AheadIs, FromAhead
  <2> QED
    BY <1>7, <2>1, Sizes
<1> QED
  BY <1>7, <1>8, AheadFrom

-----------------------------------------------------------------------------
(* The audio OUT ring                                                      *)

Entry == [state : {"FREE", "DMA_ACTIVE", "READY", "READING"}, gen : Nat, seq : Nat]
RingTyped ==
    /\ ring \in [Slots -> Entry] /\ producer \in Slots /\ consumer \in Slots
    /\ active \in Slots \cup {NoSlot} /\ hardware \in Slots \cup {NoSlot}
    /\ accepted \in [gen : Nat, seq : Nat] /\ generation \in Nat /\ sequence \in Nat
ReaderTyped ==
    reader \in [pc : TaskPlaces, slot : Slots \cup {NoSlot}, known : BOOLEAN,
                gen : Nat, expected : Nat]
RingFlags == {armed, deaf, overtaken} \subseteq BOOLEAN
Endpoint == NoOverwrite /\ KeepsListening /\ EndpointFollows /\ InHand
RingInv ==
    /\ RingTyped /\ ReaderTyped /\ RingFlags /\ CountExact
    /\ Endpoint /\ InSequence

LEMMA SlotsFinite ==
  ASSUME NEW T, T \subseteq Slots
  PROVE  IsFiniteSet(T) /\ Cardinality(T) \in 0 .. IngressDepth
<1>1. IngressDepth \in Nat /\ IngressDepth - 1 \in Int /\ 0 \in Int
  BY Sizes
<1>2. IsFiniteSet(Slots) /\ Cardinality(Slots) = IngressDepth
  BY <1>1, Sizes, FS_Interval
<1>3. IsFiniteSet(T) /\ Cardinality(T) <= Cardinality(Slots)
  BY <1>2, FS_Subset
<1>4. Cardinality(T) \in Nat
  BY <1>3, FS_CardinalityType
<1> QED
  BY <1>1, <1>2, <1>3, <1>4

LEMMA InStateIn ==
  ASSUME NEW st
  PROVE  InState(st) \subseteq Slots
BY DEF InState

LEMMA RingTypes == RingInv => IngressOK
<1> SUFFICES ASSUME RingInv PROVE IngressOK
  OBVIOUS
<1>1. count \in 0 .. IngressDepth
  BY SlotsFinite, InStateIn DEF RingInv, CountExact
<1>2. RingTyped /\ ReaderTyped /\ RingFlags
  BY DEF RingInv
<1> QED
  BY <1>1, <1>2 DEF IngressOK, RingTyped, ReaderTyped, RingFlags, Entry

LEMMA RingSafe == RingInv => CountExact /\ RingSound
BY DEF RingInv, Endpoint, RingSound

LEMMA InitRing == Init => RingInv
<1> SUFFICES ASSUME Init PROVE RingInv
  OBVIOUS
<1> USE Sizes
<1>1. /\ ring = [s \in Slots |-> [state |-> "FREE", gen |-> 0, seq |-> 0]]
      /\ producer = 0 /\ consumer = 0 /\ active = NoSlot /\ armed = FALSE
      /\ count = 0 /\ generation = 0 /\ sequence = 1
      /\ reader = [pc |-> "IDLE", slot |-> NoSlot, known |-> FALSE, gen |-> 0, expected |-> 0]
      /\ hardware = NoSlot /\ accepted = [gen |-> 0, seq |-> 0]
      /\ deaf = FALSE /\ overtaken = FALSE /\ open = {} /\ bus # "CONFIGURED"
  BY DEF Init, IngressInit, SessionInit
<1>2. RingTyped
  BY <1>1 DEF RingTyped, Entry
<1>3. ReaderTyped
  BY <1>1 DEF ReaderTyped, TaskPlaces
<1>4. RingFlags
  BY <1>1 DEF RingFlags
<1>5. \A s \in Slots : ring[s].state = "FREE" /\ ring[s].gen = 0
  BY <1>1
<1>6. \A st : "FREE" \notin st => InState(st) = {}
  BY <1>5 DEF InState
<1>7. CountExact
  BY <1>1, <1>6, FS_EmptySet DEF CountExact
<1>8. Endpoint
  BY <1>1, <1>6 DEF Endpoint, NoOverwrite, KeepsListening, Streaming, Live, Configured,
     EndpointFollows, InHand, At
<1>9. Waiting = {} /\ Taken = {} /\ Numbers = {}
  BY <1>6 DEF Waiting, Taken, Numbers
<1>10. Unmuddled
  <2>1. Numbers = 1 .. sequence - 1 /\ 1 \in 0 .. sequence
    BY <1>1, <1>9
  <2> QED
    BY <1>1, <1>9, <2>1 DEF Unmuddled, At
<1>11. GenerationsRise
  BY <1>1, <1>5, <1>6, <1>9 DEF GenerationsRise, At
<1>12. Continues
  <2>1. Numbers = accepted.seq + 1 .. sequence - 1
    BY <1>1, <1>9
  <2> QED
    BY <1>1, <1>9, <2>1 DEF Continues, At
<1> QED
  BY <1>2, <1>3, <1>4, <1>7, <1>8, <1>10, <1>11, <1>12 DEF RingInv, InSequence

(* While nothing of the ring changes.                                      *)
LEMMA RingKept ==
  ASSUME RingInv, UNCHANGED ringVars, UNCHANGED used, "OUT" \in open' => "OUT" \in open,
         hardware # NoSlot => /\ Configured' /\ "OUT" \in open'
                              /\ ~suspended' => armed /\ ~At("START"),
         At("START") /\ active = NoSlot => ~Streaming("OUT")',
         Streaming("OUT")' => armed \/ Streaming("OUT"),
         RingEmptied => RingEmptied'
  PROVE  RingInv'
<1>1. UNCHANGED <<ring, producer, consumer, active, armed, count, generation,
                  sequence, reader, hardware, accepted, deaf, overtaken>>
  BY DEF ringVars
<1>2. \A st : InState(st)' = InState(st)
  BY <1>1 DEF InState
<1>3. /\ (RingTyped /\ ReaderTyped /\ RingFlags /\ CountExact)'
      /\ RingTyped /\ ReaderTyped /\ Endpoint /\ InSequence
  BY <1>1, <1>2 DEF RingInv, RingTyped, ReaderTyped, RingFlags, CountExact
<1>4. NoOverwrite' /\ KeepsListening' /\ InHand'
  BY <1>1, <1>2, <1>3 DEF Endpoint, NoOverwrite, KeepsListening, WillArm, InHand, At
<1>5. EndpointFollows'
  BY <1>1, <1>2, <1>3 DEF Endpoint, EndpointFollows, At
<1>6. UNCHANGED <<Waiting, Taken, Numbers, Cursor>>
  BY <1>1, <1>2 DEF Waiting, Taken, Numbers, Cursor
<1>7. Unmuddled' /\ GenerationsRise'
  BY <1>1, <1>2, <1>3, <1>6 DEF InSequence, Unmuddled, GenerationsRise, At, Ahead
<1>8. Continues'
  BY <1>1, <1>2, <1>3, <1>6 DEF InSequence, Continues, At
<1> QED
  BY <1>3, <1>4, <1>5, <1>7, <1>8 DEF RingInv, Endpoint, InSequence

(* What a reset of the pipeline leaves in the ring.                        *)
LEMMA ResetEntries ==
  ASSUME RingTyped, NEW cancel \in BOOLEAN, RingReset(cancel)
  PROVE  /\ ring' \in [Slots -> Entry] /\ generation' = generation + 1
         /\ \A s \in Slots :
              /\ ring'[s].gen = ring[s].gen /\ ring'[s].seq = ring[s].seq
              /\ ring'[s].state = IF ring[s].state = "READY" \/ (cancel /\ ring[s].state = "DMA_ACTIVE")
                                  THEN "FREE" ELSE ring[s].state
         /\ Waiting' = {} /\ Taken' = Taken /\ InState({"READY", "READING"})' = Taken
         /\ InState({"DMA_ACTIVE"})' = IF cancel THEN {} ELSE InState({"DMA_ACTIVE"})
<1>1. /\ ring' = [s \in Slots |-> IF ring[s].state \in Freed(cancel)
                                  THEN [ring[s] EXCEPT !.state = "FREE"] ELSE ring[s]]
      /\ generation' = generation + 1
  BY DEF RingReset, NewGeneration
<1>2. \A s \in Slots : ring[s] \in Entry
  BY DEF RingTyped
<1>3. \A s \in Slots : /\ [ring[s] EXCEPT !.state = "FREE"] \in Entry
                       /\ [ring[s] EXCEPT !.state = "FREE"].state = "FREE"
                       /\ [ring[s] EXCEPT !.state = "FREE"].gen = ring[s].gen
                       /\ [ring[s] EXCEPT !.state = "FREE"].seq = ring[s].seq
  BY <1>2 DEF Entry
<1>4. \A st : st \in Freed(cancel) <=> st = "READY" \/ (cancel /\ st = "DMA_ACTIVE")
  BY DEF Freed
<1>5. ring' \in [Slots -> Entry]
  BY <1>1, <1>2, <1>3
<1>6. \A s \in Slots :
        /\ ring'[s].gen = ring[s].gen /\ ring'[s].seq = ring[s].seq
        /\ ring'[s].state = IF ring[s].state = "READY" \/ (cancel /\ ring[s].state = "DMA_ACTIVE")
                            THEN "FREE" ELSE ring[s].state
  BY <1>1, <1>3, <1>4
<1>7. /\ Waiting' = {} /\ Taken' = Taken /\ InState({"READY", "READING"})' = Taken
      /\ InState({"DMA_ACTIVE"})' = IF cancel THEN {} ELSE InState({"DMA_ACTIVE"})
  BY <1>6 DEF Waiting, Taken, InState
<1> QED
  BY <1>1, <1>5, <1>6, <1>7

(* With the packets the order is settled: all that comes is of a new       *)
(* generation.                                                             *)
LEMMA ResetData ==
  ASSUME RingInv, NEW cancel \in BOOLEAN, RingReset(cancel), hardware' \in {hardware, NoSlot},
         "OUT" \in used, UNCHANGED used,
         reader' = reader \/ (At("GAP") /\ reader' = [reader EXCEPT !.pc = "IDLE"])
  PROVE  (RingTyped /\ ReaderTyped /\ RingFlags /\ CountExact /\ InSequence)'
<1>1. RingTyped /\ ReaderTyped /\ RingFlags /\ InSequence /\ CountExact
  BY DEF RingInv
<1>2. /\ ring' \in [Slots -> Entry] /\ generation' = generation + 1
      /\ \A s \in Slots : /\ ring'[s].gen = ring[s].gen /\ ring'[s].seq = ring[s].seq
      /\ Waiting' = {} /\ Taken' = Taken /\ InState({"READY", "READING"})' = Taken
      /\ InState({"DMA_ACTIVE"})' \subseteq InState({"DMA_ACTIVE"})
  BY <1>1, ResetEntries
<1>3. /\ UNCHANGED <<producer, consumer, sequence, accepted>> /\ overtaken' = FALSE
      /\ active' \in {active, NoSlot} /\ count' = Cardinality(Taken)
  BY DEF RingReset, Taken
<1>4. RingTyped'
  BY <1>1, <1>2, <1>3 DEF RingTyped
<1>5. ReaderTyped'
  BY <1>1 DEF ReaderTyped, TaskPlaces
<1>6. RingFlags'
  <2>1. armed \in BOOLEAN
    BY <1>1 DEF RingFlags
  <2>2. armed' \in BOOLEAN
    BY <2>1 DEF RingReset
  <2>3. deaf' \in BOOLEAN
    BY DEF RingReset
  <2> QED
    BY <1>3, <2>2, <2>3 DEF RingFlags
<1>7. CountExact'
  BY <1>2, <1>3 DEF CountExact
<1>8. \A s \in Slots : ring[s].gen \in Nat /\ ring'[s].gen \in Nat
  BY <1>1, <1>2 DEF RingTyped, Entry
<1>9. /\ generation \in Nat /\ sequence \in Nat /\ accepted.gen \in Nat /\ accepted.seq \in Nat
      /\ accepted.gen <= generation /\ accepted.seq < sequence
      /\ \A s \in Slots : ring[s].gen <= generation
  BY <1>1 DEF RingTyped, InSequence, GenerationsRise
<1>10. /\ \A s \in Slots : ring'[s].gen < generation' /\ ring'[s].gen # generation'
       /\ accepted'.gen < generation' /\ generation' # 0
  BY <1>2, <1>3, <1>8, <1>9
<1>11. /\ Taken \subseteq Slots /\ InState({"DMA_ACTIVE"}) \subseteq Slots
       /\ InState({"DMA_ACTIVE"})' \subseteq Slots
  BY DEF Taken, InState
<1>12. Unmuddled'
  <2>1. Numbers' = {}
    BY <1>2 DEF Numbers
  <2>2. Numbers' = sequence' .. sequence' - 1 /\ sequence' \in 0 .. sequence'
    BY <1>3, <1>9, <2>1
  <2>3. At("HAVE")' /\ reader'.slot \in Taken' => ring'[reader'.slot].gen # generation'
    BY <1>2, <1>10, <1>11
  <2> QED
    BY <1>2, <2>2, <2>3 DEF Unmuddled
<1>13. GenerationsRise'
  <2>1. /\ \A s \in Slots : ring'[s].gen <= generation'
        /\ accepted'.gen <= generation' /\ accepted'.seq < sequence'
    BY <1>3, <1>4, <1>8, <1>9, <1>10 DEF RingTyped
  <2>2. \A s \in Taken :
          /\ ring'[s].seq < sequence'
          /\ accepted'.seq < ring'[s].seq => accepted'.gen <= ring'[s].gen
          /\ \A t \in Taken : ring'[s].seq < ring'[t].seq => ring'[s].gen <= ring'[t].gen
    BY <1>1, <1>2, <1>3, <1>11 DEF InSequence, GenerationsRise
  <2>3. \A d \in InState({"DMA_ACTIVE"})' :
          /\ accepted'.gen <= ring'[d].gen
          /\ \A s \in Taken : ring'[s].gen <= ring'[d].gen
    BY <1>1, <1>2, <1>3, <1>11 DEF InSequence, GenerationsRise
  <2> QED
    BY <1>2, <1>10, <2>1, <2>2, <2>3 DEF GenerationsRise
<1>14. Continues'
  <2>1. \A s \in Taken' : reader'.pc \in {"HAVE", "DROP", "RELEASE"} /\ reader'.slot = s
    BY <1>1, <1>2 DEF InSequence, Continues, At
  <2>2. At("HAVE")' => reader'.slot \in Taken' \/ ring'[reader'.slot].gen < generation'
    <3>1. SUFFICES ASSUME At("HAVE")' PROVE ring'[reader'.slot].gen < generation'
      OBVIOUS
    <3>2. reader' = reader /\ At("HAVE")
      BY <1>1, <3>1 DEF At, ReaderTyped
    <3>3. reader.slot \in Slots
      BY <1>1, <3>2 DEF RingInv, Endpoint, InHand, At, ReaderTyped
    <3> QED
      BY <1>10, <3>2, <3>3
  <2>3. accepted'.gen # generation'
    BY <1>10, <1>4 DEF RingTyped
  <2>4. At("HAVE")' => reader'.known
    BY <1>1 DEF InSequence, Continues, At, ReaderTyped
  <2> QED
    BY <2>1, <2>2, <2>3, <2>4 DEF Continues
<1> QED
  BY <1>4, <1>5, <1>6, <1>7, <1>12, <1>13, <1>14 DEF InSequence

(* A reset that takes the endpoint away, or leaves it to a suspended bus.  *)
LEMMA CancelKeeps ==
  ASSUME RingInv, RingReset(TRUE), reader' = reader, hardware' \in {hardware, NoSlot},
         "OUT" \in used, UNCHANGED used,
         hardware' # NoSlot => Configured' /\ "OUT" \in open' /\ suspended',
         ~Streaming("OUT")'
  PROVE  RingInv'
<1>1. RingTyped /\ ReaderTyped /\ Endpoint
  BY DEF RingInv
<1>2. (RingTyped /\ ReaderTyped /\ RingFlags /\ CountExact /\ InSequence)'
  BY ResetData
<1>3. /\ \A s \in Slots :
              ring'[s].state = IF ring[s].state \in {"READY", "DMA_ACTIVE"} THEN "FREE"
                               ELSE ring[s].state
      /\ InState({"DMA_ACTIVE"})' = {} /\ armed' = FALSE /\ active' = NoSlot
  <2>1. /\ \A s \in Slots :
              ring'[s].state = IF ring[s].state = "READY" \/ (TRUE /\ ring[s].state = "DMA_ACTIVE")
                               THEN "FREE" ELSE ring[s].state
        /\ InState({"DMA_ACTIVE"})' = IF TRUE THEN {} ELSE InState({"DMA_ACTIVE"})
    BY <1>1, ResetEntries, Zenon
  <2>2. armed' = FALSE /\ active' = NoSlot
    BY DEF RingReset
  <2> QED
    BY <2>1, <2>2
<1>4. hardware' # NoSlot => hardware' = hardware /\ hardware \in Slots
  BY <1>1 DEF RingTyped
<1>5. NoOverwrite'
  BY <1>1, <1>3, <1>4 DEF Endpoint, NoOverwrite
<1>6. KeepsListening'
  BY DEF KeepsListening
<1>7. EndpointFollows'
  BY <1>3 DEF EndpointFollows
<1>8. InHand'
  <2>1. reader.pc \in {"HAVE", "DROP", "RELEASE", "START"} => reader.slot \in Slots
    BY <1>1 DEF Endpoint, InHand, ReaderTyped
  <2> QED
    BY <1>1, <1>3, <1>4, <2>1 DEF Endpoint, InHand, At
<1> QED
  BY <1>2, <1>5, <1>6, <1>7, <1>8 DEF RingInv, Endpoint

(* A setting, or the task at a gap: the endpoint keeps its slot.           *)
LEMMA SettingKeeps ==
  ASSUME RingInv, RingReset(FALSE), UNCHANGED <<hardware, sessionVars>>, "OUT" \in used,
         reader' = reader \/ (At("GAP") /\ reader' = [reader EXCEPT !.pc = "IDLE"])
  PROVE  RingInv'
<1>1. RingTyped /\ ReaderTyped /\ Endpoint
  BY DEF RingInv
<1>2. (RingTyped /\ ReaderTyped /\ RingFlags /\ CountExact /\ InSequence)'
  BY ResetData DEF sessionVars
<1>3. /\ \A s \in Slots :
              ring'[s].state = IF ring[s].state = "READY" THEN "FREE" ELSE ring[s].state
      /\ InState({"DMA_ACTIVE"})' = InState({"DMA_ACTIVE"}) /\ UNCHANGED <<armed, active, hardware>>
      /\ deaf' = (~armed /\ reader.pc \in {"IDLE", "GAP"})
      /\ UNCHANGED <<used, bus, suspended, open>>
  <2>1. /\ \A s \in Slots :
              ring'[s].state = IF ring[s].state = "READY" \/ (FALSE /\ ring[s].state = "DMA_ACTIVE")
                               THEN "FREE" ELSE ring[s].state
        /\ InState({"DMA_ACTIVE"})' = IF FALSE THEN {} ELSE InState({"DMA_ACTIVE"})
    BY <1>1, ResetEntries, Zenon
  <2>2. UNCHANGED <<armed, active, hardware>>
    BY DEF RingReset
  <2>3. deaf' = (~armed /\ reader.pc \in {"IDLE", "GAP"})
    BY DEF RingReset
  <2>4. UNCHANGED <<used, bus, suspended, open>>
    BY DEF sessionVars
  <2> QED
    BY <2>1, <2>2, <2>3, <2>4
<1>4. /\ reader'.slot = reader.slot
      /\ reader'.pc = reader.pc \/ (reader.pc = "GAP" /\ reader'.pc = "IDLE")
  BY <1>1 DEF At, ReaderTyped
<1>5. hardware # NoSlot => hardware \in Slots
  BY <1>1 DEF RingTyped
<1>6. reader.pc \in {"HAVE", "DROP", "RELEASE", "START"} => reader.slot \in Slots
  BY <1>1 DEF Endpoint, InHand, ReaderTyped
<1>7. NoOverwrite'
  BY <1>1, <1>3, <1>4, <1>5 DEF Endpoint, NoOverwrite
<1>8. KeepsListening'
  <2>1. At("START") => ~Streaming("OUT") \/ armed
    BY <1>1 DEF Endpoint, EndpointFollows
  <2>2. Streaming("OUT")' = Streaming("OUT")
    BY <1>3 DEF Streaming, Live, Configured
  <2> QED
    BY <1>3, <1>4, <2>1, <2>2 DEF KeepsListening, WillArm, At
<1>9. EndpointFollows'
  BY <1>1, <1>3, <1>4 DEF Endpoint, EndpointFollows, At, Streaming, Live, Configured
<1>10. InHand'
  BY <1>1, <1>3, <1>4, <1>6 DEF Endpoint, InHand, At
<1> QED
  BY <1>2, <1>7, <1>8, <1>9, <1>10 DEF RingInv, Endpoint

(* m61_usb_gamepad_init under the task.                                    *)
LEMMA InitAgainKeeps ==
  ASSUME RingInv, SessionOK, IngressInitAgain, UNCHANGED <<used, open>>,
         bus' \in {"OFF", "ATTACHED"}
  PROVE  RingInv'
<1>1. RingTyped /\ ReaderTyped /\ RingFlags /\ Endpoint /\ InSequence
  BY DEF RingInv
<1>2. /\ ring' = [s \in Slots |-> [state |-> "FREE", gen |-> 0, seq |-> 0]]
      /\ producer' = 0 /\ consumer' = 0 /\ active' = NoSlot /\ armed' = FALSE
      /\ count' = 0 /\ hardware' = NoSlot /\ deaf' = FALSE
      /\ UNCHANGED <<generation, sequence, reader, accepted, overtaken>>
  BY DEF IngressInitAgain
<1>3. \A s \in Slots : ring'[s].state = "FREE" /\ ring'[s].gen = 0 /\ ring'[s] \in Entry
  BY <1>2 DEF Entry
<1>4. \A st : "FREE" \notin st => InState(st)' = {}
  BY <1>3 DEF InState
<1>5. Waiting' = {} /\ Taken' = {} /\ Numbers' = {} /\ InState({"DMA_ACTIVE"})' = {}
  BY <1>4 DEF Waiting, Taken, Numbers
<1>6. RingTyped'
  BY <1>1, <1>2, <1>3, Sizes DEF RingTyped
<1>7. ReaderTyped' /\ RingFlags'
  BY <1>1, <1>2 DEF ReaderTyped, RingFlags
<1>8. CountExact'
  BY <1>2, <1>4, FS_EmptySet DEF CountExact
<1>9. reader.pc \in {"HAVE", "DROP", "RELEASE", "START"} => reader.slot \in Slots
  BY <1>1 DEF Endpoint, InHand, ReaderTyped
<1>10. Endpoint'
  <2>1. ~Streaming("OUT")'
    BY DEF Streaming, Live, Configured
  <2>2. NoOverwrite' /\ KeepsListening'
    BY <1>2, <2>1 DEF NoOverwrite, KeepsListening
  <2>3. EndpointFollows'
    BY <1>2, <1>5, <2>1 DEF EndpointFollows
  <2>4. InHand'
    BY <1>1, <1>2, <1>3, <1>9 DEF Endpoint, InHand, At
  <2> QED
    BY <2>2, <2>3, <2>4 DEF Endpoint
<1>11. Unmuddled'
  <2>1. Numbers' = sequence' .. sequence' - 1 /\ sequence' \in 0 .. sequence'
    <3>1. sequence' \in Nat
      BY <1>6 DEF RingTyped
    <3>2. \A n \in Nat : n .. n - 1 = {} /\ n \in 0 .. n
      OBVIOUS
    <3> QED
      BY <1>5, <3>1, <3>2
  <2> QED
    BY <1>5, <2>1 DEF Unmuddled
<1>12. GenerationsRise'
  <2>1. \A s \in Slots : ring'[s].gen <= generation'
    BY <1>3, <1>6 DEF RingTyped
  <2> QED
    BY <1>1, <1>2, <1>5, <2>1 DEF InSequence, GenerationsRise, At
<1>13. Continues'
  <2>1. At("HAVE") => generation # 0
    BY <1>1 DEF InSequence, GenerationsRise, At
  <2>2. At("HAVE")' => ring'[reader'.slot].gen < generation'
    BY <1>2, <1>3, <1>6, <1>9, <2>1 DEF At, RingTyped
  <2>3. "OUT" \in used => RingEmptied'
    BY <1>5 DEF RingEmptied
  <2>4. CASE "OUT" \in used
    <3>1. At("HAVE")' => reader'.known
      BY <1>1, <1>2 DEF InSequence, Continues, At
    <3> QED
      BY <1>5, <2>2, <2>3, <2>4, <3>1 DEF Continues
  <2>5. CASE "OUT" \notin used
    <3>1. ~RingEmptied /\ generation = 0 /\ Waiting = {} /\ At("IDLE")
      BY <1>1, <2>5 DEF RingEmptied, InSequence, GenerationsRise
    <3>2. accepted.gen = generation /\ ~overtaken => Numbers = accepted.seq + 1 .. sequence - 1
      BY <1>1, <3>1 DEF InSequence, Continues, At
    <3>3. Numbers = {}
      BY <3>1 DEF Numbers
    <3>4. accepted.gen = generation /\ ~overtaken => Numbers' = accepted'.seq + 1 .. sequence' - 1
      BY <1>2, <1>5, <3>2, <3>3
    <3> QED
      BY <1>2, <1>5, <2>2, <3>1, <3>4 DEF Continues, At
  <2> QED
    BY <2>4, <2>5
<1> QED
  BY <1>6, <1>7, <1>8, <1>10, <1>11, <1>12, <1>13 DEF RingInv, InSequence

(* What arm_audio_out does in a callback, with the ring r.                 *)
ArmsSlot(r, s) ==
    /\ r[s].state = "FREE"
    /\ ring' = [r EXCEPT ![s] = [state |-> "DMA_ACTIVE", gen |-> generation', seq |-> r[s].seq]]
    /\ active' = s /\ hardware' = s /\ armed' = TRUE /\ deaf' = FALSE
ArmsNone(r) ==
    /\ \A s \in Slots : r[s].state # "FREE"
    /\ ring' = r /\ active' = NoSlot /\ hardware' = NoSlot /\ armed' = FALSE /\ deaf' = deaf
Arms(r) == (\E s \in Slots : ArmsSlot(r, s)) \/ ArmsNone(r)

LEMMA NextFreeIs ==
  ASSUME NEW r, NEW c \in Slots, FreeSlots(r) # {}
  PROVE  NextFree(r, c) \in FreeSlots(r)
<1>1. FreeSlots(r) \subseteq Slots
  BY DEF FreeSlots
<1>2. PICK n : n = CHOOSE k \in Slots : /\ From(c, k) \in FreeSlots(r)
                                        /\ \A m \in 0 .. k - 1 : From(c, m) \notin FreeSlots(r)
  OBVIOUS
<1>3. From(c, n) \in FreeSlots(r)
  BY <1>1, <1>2, FirstFrom
<1> QED
  BY <1>2, <1>3 DEF NextFree

LEMMA EditEntry ==
  ASSUME NEW e \in Entry, NEW g
  PROVE  [[e EXCEPT !.state = "DMA_ACTIVE"] EXCEPT !.gen = g]
           = [state |-> "DMA_ACTIVE", gen |-> g, seq |-> e.seq]
<1>1. PICK a, b, c : e = [state |-> a, gen |-> b, seq |-> c]
  BY DEF Entry
<1>2. [e EXCEPT !.state = "DMA_ACTIVE"] = [state |-> "DMA_ACTIVE", gen |-> b, seq |-> c]
  BY <1>1
<1>3. [[state |-> "DMA_ACTIVE", gen |-> b, seq |-> c] EXCEPT !.gen = g]
        = [state |-> "DMA_ACTIVE", gen |-> g, seq |-> c]
  OBVIOUS
<1>4. e.seq = c
  BY <1>1
<1> QED
  BY <1>2, <1>3, <1>4, Zenon

LEMMA Activates ==
  ASSUME NEW r \in [Slots -> Entry], NEW s \in Slots
  PROVE  Activated(r, s)
           = [r EXCEPT ![s] = [state |-> "DMA_ACTIVE", gen |-> generation', seq |-> r[s].seq]]
<1>1. r[s] \in Entry
  OBVIOUS
<1>2. [[r[s] EXCEPT !.state = "DMA_ACTIVE"] EXCEPT !.gen = generation']
        = [state |-> "DMA_ACTIVE", gen |-> generation', seq |-> r[s].seq]
  BY <1>1, EditEntry
<1>3. Activated(r, s) = [r EXCEPT ![s] = [[r[s] EXCEPT !.state = "DMA_ACTIVE"] EXCEPT !.gen = generation']]
  BY DEF Activated
<1> QED
  BY <1>2, <1>3

LEMMA ArmFromIs ==
  ASSUME NEW r \in [Slots -> Entry], NEW c \in Slots, ArmFrom(r, c)
  PROVE  Arms(r)
<1>1. CASE FreeSlots(r) # {}
  <2>1. PICK s \in Slots : s = NextFree(r, c) /\ r[s].state = "FREE"
    BY <1>1, NextFreeIs DEF FreeSlots
  <2>2. /\ ring' = Activated(r, s) /\ active' = s /\ armed' = TRUE
        /\ hardware' = s /\ deaf' = FALSE
    BY <1>1, <2>1 DEF ArmFrom
  <2> QED
    BY <2>1, <2>2, Activates DEF Arms, ArmsSlot
<1>2. CASE FreeSlots(r) = {}
  <2>1. \A s \in Slots : r[s].state # "FREE"
    BY <1>2 DEF FreeSlots
  <2> QED
    BY <1>2, <2>1 DEF ArmFrom, Arms, ArmsNone
<1> QED
  BY <1>1, <1>2

(* The entries after that, and the endpoint.                               *)
LEMMA ArmedEntries ==
  ASSUME NEW r \in [Slots -> Entry], generation' \in Nat, Arms(r),
         \A s \in Slots : r[s].state # "DMA_ACTIVE"
  PROVE  /\ ring' \in [Slots -> Entry]
         /\ \A s \in Slots :
              /\ ring'[s].seq = r[s].seq
              /\ ring'[s].state \in {"READY", "READING"} \/ r[s].state \in {"READY", "READING"}
                   => ring'[s].state = r[s].state /\ ring'[s].gen = r[s].gen
              /\ ring'[s].gen \in {r[s].gen, generation'}
              /\ ring'[s].state = "DMA_ACTIVE" => ring'[s].gen = generation'
         /\ active' \in Slots \cup {NoSlot} /\ hardware' = active'
         /\ armed' = (active' # NoSlot) /\ deaf' \in {FALSE, deaf}
         /\ InState({"DMA_ACTIVE"})' = {active'} \ {NoSlot}
         /\ active' = NoSlot => \A s \in Slots : ring'[s].state \in {"READY", "READING"}
<1> USE Sizes
<1>1. \A s \in Slots : r[s] \in Entry /\ s # NoSlot
  OBVIOUS
<1>2. ASSUME NEW s \in Slots, ArmsSlot(r, s)
      PROVE  /\ ring' \in [Slots -> Entry]
             /\ ring'[s] = [state |-> "DMA_ACTIVE", gen |-> generation', seq |-> r[s].seq]
             /\ \A t \in Slots : t # s => ring'[t] = r[t]
             /\ active' = s /\ hardware' = s /\ armed' = TRUE /\ deaf' = FALSE
  BY <1>1, <1>2 DEF ArmsSlot, Entry
<1>3. CASE \E s \in Slots : ArmsSlot(r, s)
  <2>1. PICK s \in Slots : ArmsSlot(r, s)
    BY <1>3
  <2>2. r[s].state = "FREE"
    BY <2>1 DEF ArmsSlot
  <2>3. /\ ring' \in [Slots -> Entry]
        /\ ring'[s] = [state |-> "DMA_ACTIVE", gen |-> generation', seq |-> r[s].seq]
        /\ \A t \in Slots : t # s => ring'[t] = r[t]
        /\ active' = s /\ hardware' = s /\ armed' = TRUE /\ deaf' = FALSE
    BY <1>2, <2>1
  <2>4. /\ ring'[s].state = "DMA_ACTIVE" /\ ring'[s].gen = generation' /\ ring'[s].seq = r[s].seq
    BY <2>3
  <2>5. InState({"DMA_ACTIVE"})' = {t \in Slots : ring'[t].state = "DMA_ACTIVE"}
    BY DEF InState
  <2>6. InState({"DMA_ACTIVE"})' = {s}
    BY <2>3, <2>4, <2>5
  <2>7. \A t \in Slots :
              /\ ring'[t].seq = r[t].seq
              /\ ring'[t].state \in {"READY", "READING"} \/ r[t].state \in {"READY", "READING"}
                   => ring'[t].state = r[t].state /\ ring'[t].gen = r[t].gen
              /\ ring'[t].gen \in {r[t].gen, generation'}
              /\ ring'[t].state = "DMA_ACTIVE" => ring'[t].gen = generation'
    <3> TAKE t \in Slots
    <3>1. CASE t = s
      BY <2>2, <2>4, <3>1
    <3>2. CASE t # s
      BY <2>3, <3>2
    <3> QED
      BY <3>1, <3>2
  <2>8. s # NoSlot /\ {s} = {active'} \ {NoSlot} /\ armed' = (active' # NoSlot)
    BY <1>1, <2>3
  <2> QED
    BY <2>3, <2>6, <2>7, <2>8
<1>4. CASE ArmsNone(r)
  <2>1. \A s \in Slots : r[s].state \in {"READY", "READING"}
    BY <1>1, <1>4 DEF ArmsNone, Entry
  <2>2. InState({"DMA_ACTIVE"})' = {}
    BY <1>4, <2>1 DEF ArmsNone, InState
  <2> QED
    BY <1>4, <2>1, <2>2 DEF ArmsNone
<1> QED
  BY <1>3, <1>4 DEF Arms

LEMMA ArmedEndpoint ==
  ASSUME RingTyped, ReaderTyped, RingFlags, InHand,
         NEW r \in [Slots -> Entry], generation' \in Nat, Arms(r),
         \A s \in Slots : r[s].state # "DMA_ACTIVE",
         reader' = reader, ~At("START"), At("HAVE") => r[reader.slot].state = "READING",
         Configured', "OUT" \in open'
  PROVE  Endpoint' /\ armed' \in BOOLEAN /\ deaf' \in BOOLEAN
<1>1. /\ ring' \in [Slots -> Entry]
      /\ \A s \in Slots :
           ring'[s].state \in {"READY", "READING"} \/ r[s].state \in {"READY", "READING"}
             => ring'[s].state = r[s].state
      /\ active' \in Slots \cup {NoSlot} /\ hardware' = active'
      /\ armed' = (active' # NoSlot) /\ deaf' \in {FALSE, deaf}
      /\ InState({"DMA_ACTIVE"})' = {active'} \ {NoSlot}
      /\ active' = NoSlot => \A s \in Slots : ring'[s].state \in {"READY", "READING"}
  BY ArmedEntries
<1>2. At("HAVE") => reader.slot \in Slots
  BY DEF InHand, ReaderTyped, At
<1>3. hardware' # NoSlot => hardware' \in Slots /\ ring'[hardware'].state = "DMA_ACTIVE"
  BY <1>1 DEF InState
<1>4. At("HAVE") => ring'[reader.slot].state = "READING"
  BY <1>1, <1>2
<1>5. NoOverwrite'
  BY <1>3, <1>4 DEF NoOverwrite, At
<1>6. KeepsListening'
  <2>1. 0 \in Slots
    BY Sizes
  <2>2. active' = NoSlot => 0 \in InState({"READY", "READING"})'
    BY <1>1, <2>1 DEF InState
  <2>3. WillArm'
    BY <1>1, <2>2 DEF WillArm
  <2> QED
    BY <2>3 DEF KeepsListening
<1>7. EndpointFollows'
  BY <1>1 DEF EndpointFollows, At
<1>8. InHand'
  BY <1>4 DEF InHand, At
<1>9. armed' \in BOOLEAN /\ deaf' \in BOOLEAN
  BY <1>1 DEF RingFlags
<1> QED
  BY <1>5, <1>6, <1>7, <1>8, <1>9 DEF Endpoint

(* Arming alone leaves the packets and their order.                        *)
LEMMA ArmedData ==
  ASSUME RingInv, NEW r \in [Slots -> Entry], Arms(r),
         \A s \in Slots : /\ r[s].state # "DMA_ACTIVE" /\ r[s].gen = ring[s].gen /\ r[s].seq = ring[s].seq
                          /\ r[s].state = ring[s].state \/ (ring[s].state = "DMA_ACTIVE" /\ r[s].state = "FREE"),
         UNCHANGED <<generation, sequence, reader, producer, consumer, count, accepted, overtaken>>,
         UNCHANGED <<used, open>>, RingEmptied => RingEmptied', At("HAVE") => reader.slot \in Taken
  PROVE  (RingTyped /\ ReaderTyped /\ CountExact /\ InSequence)'
<1>1. RingTyped /\ ReaderTyped /\ CountExact /\ InSequence
  BY DEF RingInv
<1>2. generation \in Nat /\ generation' \in Nat
  BY <1>1 DEF RingTyped
<1>3. /\ ring' \in [Slots -> Entry]
      /\ \A s \in Slots :
           /\ ring'[s].seq = r[s].seq
           /\ ring'[s].state \in {"READY", "READING"} \/ r[s].state \in {"READY", "READING"}
                => ring'[s].state = r[s].state /\ ring'[s].gen = r[s].gen
           /\ ring'[s].gen \in {r[s].gen, generation'}
           /\ ring'[s].state = "DMA_ACTIVE" => ring'[s].gen = generation'
      /\ active' \in Slots \cup {NoSlot} /\ hardware' = active'
  BY <1>2, ArmedEntries
<1>4. \A s \in Slots :
        /\ ring'[s].seq = ring[s].seq
        /\ ring'[s].state \in {"READY", "READING"} \/ ring[s].state \in {"READY", "READING"}
             => ring'[s].state = ring[s].state /\ ring'[s].gen = ring[s].gen
        /\ ring'[s].gen \in {ring[s].gen, generation}
        /\ ring'[s].state = "DMA_ACTIVE" => ring'[s].gen = generation
  BY <1>3
<1>5. RingTyped' /\ ReaderTyped'
  BY <1>1, <1>3 DEF RingTyped, ReaderTyped
<1>6. /\ Waiting' = Waiting /\ Taken' = Taken
      /\ InState({"READY", "READING"})' = InState({"READY", "READING"})
  BY <1>4 DEF Waiting, Taken, InState
<1>7. CountExact'
  BY <1>1, <1>6 DEF CountExact
<1>8. Waiting \subseteq Slots /\ Taken \subseteq Slots /\ InState({"DMA_ACTIVE"})' \subseteq Slots
  BY DEF Waiting, Taken, InState
<1>9. \A s \in Waiting \cup Taken : ring'[s].seq = ring[s].seq /\ ring'[s].gen = ring[s].gen
  BY <1>4 DEF Waiting, Taken, InState
<1>10. Numbers' = Numbers /\ Cursor' = Cursor
  BY <1>6, <1>9 DEF Numbers, Cursor, Taken, After
<1>11. Unmuddled'
  <2>1. \A s, t \in Waiting : Ahead(Cursor, s)' = Ahead(Cursor, s)
    BY <1>10 DEF Ahead
  <2> QED
    BY <1>1, <1>6, <1>9, <1>10, <2>1 DEF InSequence, Unmuddled, At
<1>12. GenerationsRise'
  <2>1. /\ accepted.gen <= generation /\ accepted.seq < sequence
        /\ \A s \in Slots : ring'[s].gen <= generation
    BY <1>1, <1>2, <1>4 DEF InSequence, GenerationsRise
  <2>2. \A d \in InState({"DMA_ACTIVE"})' : ring'[d].gen = generation
    BY <1>4 DEF InState
  <2>3. \A s \in Waiting \cup Taken : ring'[s].gen <= generation
    BY <1>8, <2>1
  <2>4. \A d \in InState({"DMA_ACTIVE"})' :
          /\ accepted.gen <= ring'[d].gen
          /\ \A s \in Waiting \cup Taken : ring'[s].gen <= ring'[d].gen
    BY <2>1, <2>2, <2>3
  <2> QED
    BY <1>1, <1>6, <1>9, <2>1, <2>4 DEF InSequence, GenerationsRise, At
<1>13. Continues'
  <2>1. \A s \in Taken' : reader'.pc \in {"HAVE", "DROP", "RELEASE"} /\ reader'.slot = s
    BY <1>1, <1>6 DEF InSequence, Continues
  <2>2. At("HAVE")' => reader'.known /\ reader'.slot \in Taken'
    BY <1>1, <1>6 DEF At, InSequence, Continues
  <2>3. accepted.gen = generation /\ ~overtaken /\ (reader.known \/ At("IDLE"))
          => IF At("HAVE") /\ reader.slot \in Taken
             THEN ring[reader.slot].seq = accepted.seq + 1
             ELSE RingEmptied \/ (~At("HAVE") /\ Numbers = accepted.seq + 1 .. sequence - 1)
    BY <1>1 DEF InSequence, Continues
  <2>4. accepted.gen = generation /\ ~overtaken /\ (reader.known \/ At("IDLE"))
          => IF At("HAVE") /\ reader.slot \in Taken
             THEN ring'[reader.slot].seq = accepted.seq + 1
             ELSE RingEmptied' \/ (~At("HAVE") /\ Numbers = accepted.seq + 1 .. sequence - 1)
    BY <1>9, <2>3
  <2> QED
    BY <1>6, <1>10, <2>1, <2>2, <2>4 DEF Continues, At
<1> QED
  BY <1>5, <1>7, <1>11, <1>12, <1>13 DEF InSequence

(* The bus is configured or resumed.                                       *)
LEMMA ArmsKeep ==
  ASSUME RingInv, SessionOK, ready', Settled, UNCHANGED <<used, open>>, ~suspended',
         bus' = bus \/ (bus = "RESET" /\ bus' = "CONFIGURED"), IngressArms
  PROVE  RingInv'
<1>1. RingTyped /\ ReaderTyped /\ RingFlags /\ Endpoint /\ InSequence
  BY DEF RingInv
<1>2. ~At("HAVE") /\ ~At("START")
  BY DEF Settled, At
<1>3. RingEmptied => RingEmptied'
  <2>1. SUFFICES ASSUME RingEmptied, ringVars' = ringVars \/ Waiting' = Waiting
                 PROVE  RingEmptied'
    <3>1. CASE ringVars' = ringVars
      BY <2>1, <3>1
    <3>2. CASE ringVars' # ringVars
      <4>1. Configured'
        BY <3>2 DEF IngressArms
      <4>2. ~RingEmptied
        BY <4>1 DEF RingEmptied, Configured
      <4> QED
        BY <4>2
    <3> QED
      BY <3>1, <3>2
  <2>2. Waiting' = Waiting
    BY <2>1 DEF ringVars, Waiting, InState
  <2>3. bus' \in {"OFF", "ATTACHED"}
    BY <2>1 DEF RingEmptied
  <2> QED
    BY <2>1, <2>2, <2>3 DEF RingEmptied
<1>4. CASE UNCHANGED ringVars /\ ~("OUT" \in open' /\ ready' /\ ~armed /\ active = NoSlot /\ Configured')
  <2>1. armed <=> active # NoSlot
    BY <1>1 DEF Endpoint, EndpointFollows
  <2>2. hardware # NoSlot => Configured /\ "OUT" \in open
    BY <1>1 DEF Endpoint, EndpointFollows
  <2>3. hardware # NoSlot => Configured' /\ "OUT" \in open' /\ armed
    BY <1>4, <2>1, <2>2 DEF Configured
  <2>4. Streaming("OUT")' => armed
    BY <1>4, <2>1 DEF Streaming, Live
  <2> QED
    BY <1>2, <1>3, <1>4, <2>3, <2>4, RingKept
<1>5. CASE /\ "OUT" \in open' /\ Configured' /\ active = NoSlot
           /\ UNCHANGED <<producer, consumer, count, generation, sequence, reader, accepted, overtaken>>
           /\ ArmFrom(ring, producer)
  <2>1. PICK r \in [Slots -> Entry] : r = ring
    BY <1>1 DEF RingTyped
  <2>2. ArmFrom(r, producer) /\ producer \in Slots /\ generation' \in Nat
    BY <1>1, <1>5, <2>1 DEF RingTyped
  <2>3. Arms(r)
    BY <2>2, ArmFromIs
  <2>4. \A s \in Slots : r[s].state # "DMA_ACTIVE"
    BY <1>1, <1>5, <2>1 DEF Endpoint, EndpointFollows, InState
  <2>5. Endpoint' /\ armed' \in BOOLEAN /\ deaf' \in BOOLEAN
    BY <1>1, <1>2, <1>5, <2>2, <2>3, <2>4, ArmedEndpoint DEF Endpoint
  <2>6. (RingTyped /\ ReaderTyped /\ CountExact /\ InSequence)'
    BY <1>2, <1>3, <1>5, <2>1, <2>3, <2>4, ArmedData
  <2>7. RingFlags'
    BY <1>1, <1>5, <2>5 DEF RingFlags
  <2> QED
    BY <2>5, <2>6, <2>7 DEF RingInv
<1> QED
  BY <1>4, <1>5 DEF IngressArms

(* usbd_audio_open.                                                        *)
LEMMA OpenKeeps ==
  ASSUME RingInv, OpenOut
  PROVE  RingInv'
<1>1. RingTyped /\ ReaderTyped /\ RingFlags /\ Endpoint /\ InSequence
  BY DEF RingInv
<1>2. /\ "OUT" \in used /\ UNCHANGED <<used, bus, suspended>> /\ Configured' /\ "OUT" \in open'
      /\ ~At("HAVE") /\ ~At("START") /\ IngressOpened
  BY DEF OpenOut, SessionOpen, Live, Configured, Settled, At
<1>3. PICK r : r = [s \in Slots |-> IF ring[s].state \in Freed(TRUE)
                                    THEN [ring[s] EXCEPT !.state = "FREE"] ELSE ring[s]]
  OBVIOUS
<1>4. \A s \in Slots : ring[s] \in Entry
  BY <1>1 DEF RingTyped
<1>5. \A s \in Slots : /\ [ring[s] EXCEPT !.state = "FREE"] \in Entry
                       /\ [ring[s] EXCEPT !.state = "FREE"].state = "FREE"
                       /\ [ring[s] EXCEPT !.state = "FREE"].gen = ring[s].gen
                       /\ [ring[s] EXCEPT !.state = "FREE"].seq = ring[s].seq
  BY <1>4 DEF Entry
<1>6. \A st : st \in Freed(TRUE) <=> st = "READY" \/ st = "DMA_ACTIVE"
  BY DEF Freed
<1>7. /\ r \in [Slots -> Entry]
      /\ \A s \in Slots :
           /\ r[s].gen = ring[s].gen /\ r[s].seq = ring[s].seq
           /\ r[s].state = IF ring[s].state \in {"READY", "DMA_ACTIVE"} THEN "FREE" ELSE ring[s].state
  BY <1>3, <1>4, <1>5, <1>6
<1>8. /\ generation' = generation + 1 /\ count' = Cardinality(InState({"READING"}))
      /\ ArmFrom(r, producer) /\ overtaken' = FALSE
      /\ UNCHANGED <<producer, consumer, sequence, reader, accepted>>
  BY <1>2, <1>3 DEF IngressOpened
<1>9. producer \in Slots /\ generation \in Nat /\ generation' \in Nat
  BY <1>1, <1>8 DEF RingTyped
<1>10. Arms(r)
  BY <1>7, <1>8, <1>9, ArmFromIs
<1>11. \A s \in Slots : r[s].state # "DMA_ACTIVE"
  BY <1>7
<1>12. Endpoint' /\ armed' \in BOOLEAN /\ deaf' \in BOOLEAN
  BY <1>1, <1>2, <1>7, <1>8, <1>9, <1>10, <1>11, ArmedEndpoint DEF Endpoint
<1>13. /\ ring' \in [Slots -> Entry]
       /\ \A s \in Slots :
            /\ ring'[s].seq = r[s].seq
            /\ ring'[s].state \in {"READY", "READING"} \/ r[s].state \in {"READY", "READING"}
                 => ring'[s].state = r[s].state /\ ring'[s].gen = r[s].gen
            /\ ring'[s].gen \in {r[s].gen, generation'}
            /\ ring'[s].state = "DMA_ACTIVE" => ring'[s].gen = generation'
       /\ active' \in Slots \cup {NoSlot} /\ hardware' = active'
  BY <1>7, <1>9, <1>10, <1>11, ArmedEntries
<1>14. \A s \in Slots :
         /\ ring'[s].state # "READY"
         /\ ring'[s].state = "READING" <=> ring[s].state = "READING"
         /\ ring'[s].state = "READING" => ring'[s].gen = ring[s].gen /\ ring'[s].seq = ring[s].seq
         /\ ring'[s].gen \in {ring[s].gen, generation'}
         /\ ring'[s].state = "DMA_ACTIVE" => ring'[s].gen = generation'
  BY <1>7, <1>13
<1>15. /\ Waiting' = {} /\ Taken' = Taken
       /\ InState({"READY", "READING"})' = InState({"READING"})
  BY <1>14 DEF Waiting, Taken, InState
<1>16. CountExact'
  BY <1>8, <1>15 DEF CountExact
<1>17. RingTyped' /\ ReaderTyped'
  BY <1>1, <1>8, <1>9, <1>13 DEF RingTyped, ReaderTyped
<1>18. RingFlags'
  BY <1>8, <1>12 DEF RingFlags
<1>19. /\ sequence \in Nat /\ accepted.gen \in Nat /\ accepted.gen <= generation
       /\ accepted.seq < sequence /\ generation' # 0
       /\ \A s \in Slots : ring[s].gen <= generation /\ ring[s].gen \in Nat
  BY <1>1, <1>4, <1>8, <1>9 DEF RingTyped, Entry, InSequence, GenerationsRise
<1>20. Unmuddled'
  <2>1. \A n \in Nat : n .. n - 1 = {} /\ n \in 0 .. n
    OBVIOUS
  <2>2. Numbers' = sequence' .. sequence' - 1 /\ sequence' \in 0 .. sequence'
    BY <1>8, <1>15, <1>19, <2>1 DEF Numbers
  <2> QED
    BY <1>2, <1>8, <1>15, <2>2 DEF Unmuddled, At
<1>21. Taken \subseteq Slots /\ InState({"DMA_ACTIVE"})' \subseteq Slots
  BY DEF Taken, InState
<1>22. \A s \in Taken : ring'[s].seq = ring[s].seq /\ ring'[s].gen = ring[s].gen
  BY <1>14 DEF Taken, InState
<1>23. GenerationsRise'
  <2>1. \A s \in Slots : ring'[s].gen <= generation'
    BY <1>8, <1>9, <1>14, <1>19
  <2>2. accepted'.gen < generation' /\ accepted'.seq < sequence'
    BY <1>8, <1>9, <1>19
  <2>3. \A d \in InState({"DMA_ACTIVE"})' : ring'[d].gen = generation'
    BY <1>14 DEF InState
  <2>4. \A s \in Taken :
          /\ ring'[s].seq < sequence'
          /\ accepted'.seq < ring'[s].seq => accepted'.gen <= ring'[s].gen
          /\ \A t \in Taken : ring'[s].seq < ring'[t].seq => ring'[s].gen <= ring'[t].gen
    BY <1>1, <1>8, <1>22 DEF InSequence, GenerationsRise
  <2>5. \A d \in InState({"DMA_ACTIVE"})' :
          accepted'.gen <= ring'[d].gen /\ \A s \in Taken : ring'[s].gen <= ring'[d].gen
    BY <1>8, <1>9, <1>19, <1>21, <2>1, <2>3
  <2>6. accepted'.gen <= generation'
    BY <1>8, <1>9, <1>19
  <2> QED
    BY <1>2, <1>8, <1>15, <1>19, <2>1, <2>2, <2>4, <2>5, <2>6 DEF GenerationsRise
<1>24. Continues'
  <2>1. accepted'.gen # generation'
    BY <1>8, <1>9, <1>19
  <2> QED
    BY <1>1, <1>2, <1>8, <1>15, <2>1 DEF InSequence, Continues, At
<1> QED
  BY <1>12, <1>16, <1>17, <1>18, <1>20, <1>23, <1>24 DEF RingInv, InSequence

(* Before the callback of the endpoint the hardware has the active slot.   *)
LEMMA BeforeCallback ==
  ASSUME RingInv, Streaming("OUT"), hardware # NoSlot
  PROVE  /\ active \in Slots /\ hardware = active /\ ring[active].state = "DMA_ACTIVE"
         /\ InState({"DMA_ACTIVE"}) = {active} /\ ~At("START")
         /\ At("HAVE") => reader.slot \in Taken /\ ring[reader.slot].state = "READING"
<1>1. RingTyped /\ ReaderTyped /\ EndpointFollows /\ InHand
  BY DEF RingInv, Endpoint
<1>2. armed /\ ~At("START") /\ active # NoSlot /\ hardware = active
  BY <1>1 DEF EndpointFollows, Streaming, Live
<1>3. active \in Slots /\ InState({"DMA_ACTIVE"}) = {active}
  BY <1>1, <1>2 DEF EndpointFollows, RingTyped
<1>4. ring[active].state = "DMA_ACTIVE"
  BY <1>3 DEF InState
<1>5. At("HAVE") => reader.slot \in Taken /\ ring[reader.slot].state = "READING"
  BY <1>1 DEF InHand, At, ReaderTyped, Taken, InState
<1> QED
  BY <1>2, <1>3, <1>4, <1>5

(* An empty packet.                                                        *)
LEMMA EmptyKeeps ==
  ASSUME RingInv, PacketDone(TRUE), UNCHANGED sessionVars
  PROVE  RingInv'
<1>1. RingTyped /\ ReaderTyped /\ RingFlags /\ Endpoint /\ InSequence
  BY DEF RingInv
<1>2. Streaming("OUT") /\ hardware # NoSlot
  BY DEF PacketDone
<1>3. /\ active \in Slots /\ hardware = active /\ ring[active].state = "DMA_ACTIVE"
      /\ InState({"DMA_ACTIVE"}) = {active} /\ ~At("START")
      /\ At("HAVE") => reader.slot \in Taken /\ ring[reader.slot].state = "READING"
  BY <1>2, BeforeCallback
<1>4. active # NoSlot
  BY <1>3, Sizes
<1>5. /\ ArmFrom(Received(active, TRUE), producer)
      /\ UNCHANGED <<generation, sequence, reader, producer, consumer, count, accepted, overtaken>>
  <2>1. overtaken \in BOOLEAN
    BY <1>1 DEF RingFlags
  <2>2. overtaken' = overtaken
    BY <1>3, <1>4, <2>1 DEF PacketDone
  <2> QED
    BY <1>3, <1>4, <2>2 DEF PacketDone
<1>6. PICK r : r = [ring EXCEPT ![active].state = "FREE"]
  OBVIOUS
<1>7. ring[active] \in Entry /\ ring \in [Slots -> Entry]
  BY <1>1, <1>3 DEF RingTyped
<1>8. [ring[active] EXCEPT !.state = "FREE"] \in Entry
  BY <1>7 DEF Entry
<1>9. /\ r \in [Slots -> Entry]
      /\ r[active] = [ring[active] EXCEPT !.state = "FREE"]
      /\ \A s \in Slots : s # active => r[s] = ring[s]
  BY <1>3, <1>6, <1>7, <1>8
<1>10. /\ r[active].state = "FREE" /\ r[active].gen = ring[active].gen
       /\ r[active].seq = ring[active].seq
  BY <1>7, <1>9 DEF Entry
<1>11. \A s \in Slots : s # active => ring[s].state # "DMA_ACTIVE"
  BY <1>3 DEF InState
<1>12. \A s \in Slots :
         /\ r[s].state # "DMA_ACTIVE" /\ r[s].gen = ring[s].gen /\ r[s].seq = ring[s].seq
         /\ r[s].state = ring[s].state \/ (ring[s].state = "DMA_ACTIVE" /\ r[s].state = "FREE")
  BY <1>3, <1>9, <1>10, <1>11
<1>13. ArmFrom(r, producer) /\ producer \in Slots /\ generation' \in Nat
  BY <1>1, <1>5, <1>6 DEF Received, RingTyped
<1>14. Arms(r)
  BY <1>9, <1>13, ArmFromIs
<1>15. /\ UNCHANGED <<used, open, bus>> /\ Configured' /\ "OUT" \in open' /\ ~RingEmptied
  BY <1>2 DEF sessionVars, Streaming, Live, Configured, RingEmptied
<1>16. At("HAVE") => r[reader.slot].state = "READING"
  <2>1. At("HAVE") => reader.slot \in Slots
    BY <1>3 DEF Taken, InState
  <2> QED
    BY <1>3, <1>9, <2>1
<1>17. Endpoint' /\ armed' \in BOOLEAN /\ deaf' \in BOOLEAN
  BY <1>1, <1>3, <1>5, <1>9, <1>12, <1>13, <1>14, <1>15, <1>16, ArmedEndpoint DEF Endpoint
<1>18. (RingTyped /\ ReaderTyped /\ CountExact /\ InSequence)'
  BY <1>3, <1>5, <1>9, <1>12, <1>14, <1>15, ArmedData
<1>19. RingFlags'
  BY <1>1, <1>5, <1>17 DEF RingFlags
<1> QED
  BY <1>17, <1>18, <1>19 DEF RingInv

(* A packet.                                                               *)
LEMMA PacketKeeps ==
  ASSUME RingInv, PacketDone(FALSE), UNCHANGED sessionVars
  PROVE  RingInv'
<1>1. RingTyped /\ ReaderTyped /\ RingFlags /\ CountExact /\ Endpoint /\ InSequence
  BY DEF RingInv
<1>2. Streaming("OUT") /\ hardware # NoSlot
  BY DEF PacketDone
<1>3. /\ active \in Slots /\ hardware = active /\ ring[active].state = "DMA_ACTIVE"
      /\ InState({"DMA_ACTIVE"}) = {active} /\ ~At("START")
      /\ At("HAVE") => reader.slot \in Taken /\ ring[reader.slot].state = "READING"
  BY <1>2, BeforeCallback
<1>4. active # NoSlot
  BY <1>3, Sizes
<1>5. /\ ArmFrom(Received(active, FALSE), After(active)) /\ producer' = After(active)
      /\ count' = count + 1 /\ sequence' = sequence + 1
      /\ overtaken' = (overtaken \/ Overtakes(active))
      /\ UNCHANGED <<generation, consumer, reader, accepted>>
  BY <1>3, <1>4 DEF PacketDone
<1>6. PICK r : r = [ring EXCEPT ![active] = [ring[active] EXCEPT !.state = "READY", !.seq = sequence]]
  OBVIOUS
<1>7. /\ ring[active] \in Entry /\ ring \in [Slots -> Entry] /\ sequence \in Nat
      /\ generation \in Nat /\ accepted.gen \in Nat /\ accepted.seq \in Nat
  BY <1>1, <1>3 DEF RingTyped
<1>8. PICK e : e = [ring[active] EXCEPT !.state = "READY", !.seq = sequence]
  OBVIOUS
<1>9. e \in Entry /\ e.state = "READY" /\ e.gen = ring[active].gen /\ e.seq = sequence
  BY <1>7, <1>8 DEF Entry
<1>10. /\ r \in [Slots -> Entry] /\ r[active] = e
       /\ \A s \in Slots : s # active => r[s] = ring[s]
  BY <1>3, <1>6, <1>7, <1>8, <1>9
<1>11. \A s \in Slots : s # active => ring[s].state # "DMA_ACTIVE"
  BY <1>3 DEF InState
<1>12. \A s \in Slots : r[s].state # "DMA_ACTIVE"
  BY <1>9, <1>10, <1>11
<1>13. ArmFrom(r, After(active)) /\ After(active) \in Slots /\ generation' \in Nat
  BY <1>3, <1>5, <1>6, <1>7, AfterIs DEF Received
<1>14. Arms(r)
  BY <1>10, <1>13, ArmFromIs
<1>15. /\ UNCHANGED <<used, open, bus>> /\ Configured' /\ "OUT" \in open' /\ ~RingEmptied
       /\ "OUT" \in open
  BY <1>2 DEF sessionVars, Streaming, Live, Configured, RingEmptied
<1>16. At("HAVE") => r[reader.slot].state = "READING"
  <2>1. At("HAVE") => reader.slot \in Slots
    BY <1>3 DEF Taken, InState
  <2> QED
    BY <1>3, <1>10, <2>1
<1>17. Endpoint' /\ armed' \in BOOLEAN /\ deaf' \in BOOLEAN
  BY <1>1, <1>3, <1>5, <1>10, <1>12, <1>13, <1>14, <1>15, <1>16, ArmedEndpoint DEF Endpoint
<1>18. /\ ring' \in [Slots -> Entry]
       /\ \A s \in Slots :
            /\ ring'[s].seq = r[s].seq
            /\ ring'[s].state \in {"READY", "READING"} \/ r[s].state \in {"READY", "READING"}
                 => ring'[s].state = r[s].state /\ ring'[s].gen = r[s].gen
            /\ ring'[s].gen \in {r[s].gen, generation'}
            /\ ring'[s].state = "DMA_ACTIVE" => ring'[s].gen = generation'
       /\ active' \in Slots \cup {NoSlot} /\ hardware' = active'
  BY <1>10, <1>12, <1>13, <1>14, ArmedEntries
<1>19. /\ ring'[active].state = "READY" /\ ring'[active].gen = ring[active].gen
       /\ ring'[active].seq = sequence
  BY <1>3, <1>9, <1>10, <1>18
<1>20. \A s \in Slots : s # active =>
         /\ ring'[s].seq = ring[s].seq
         /\ ring'[s].state \in {"READY", "READING"} \/ ring[s].state \in {"READY", "READING"}
              => ring'[s].state = ring[s].state /\ ring'[s].gen = ring[s].gen
         /\ ring'[s].gen \in {ring[s].gen, generation}
         /\ ring'[s].state = "DMA_ACTIVE" => ring'[s].gen = generation
  BY <1>5, <1>10, <1>18
<1>21. /\ Waiting' = Waiting \cup {active} /\ Taken' = Taken
       /\ active \notin Waiting /\ active \notin Taken
       /\ InState({"READY", "READING"})' = InState({"READY", "READING"}) \cup {active}
       /\ active \notin InState({"READY", "READING"})
       /\ \A d \in InState({"DMA_ACTIVE"})' : d \in Slots /\ ring'[d].gen = generation
       /\ Waiting \subseteq Slots /\ Taken \subseteq Slots
  BY <1>3, <1>19, <1>20 DEF Waiting, Taken, InState
<1>22. \A s \in Waiting \cup Taken : ring'[s].seq = ring[s].seq /\ ring'[s].gen = ring[s].gen
  BY <1>20, <1>21 DEF Waiting, Taken, InState
<1>23. RingTyped' /\ ReaderTyped'
  <2>1. sequence' \in Nat
    BY <1>5, <1>7
  <2> QED
    BY <1>1, <1>5, <1>13, <1>18, <2>1 DEF RingTyped, ReaderTyped
<1>24. CountExact'
  <2>1. IsFiniteSet(InState({"READY", "READING"}))
    BY SlotsFinite, InStateIn
  <2> QED
    BY <1>1, <1>5, <1>21, <2>1, FS_AddElement DEF CountExact
<1>25. RingFlags'
  <2>1. Overtakes(active) \in BOOLEAN
    BY DEF Overtakes
  <2>2. overtaken' \in BOOLEAN
    BY <1>1, <1>5, <2>1 DEF RingFlags
  <2> QED
    BY <1>17, <2>2 DEF RingFlags
<1>26. Numbers' = Numbers \cup {sequence}
  BY <1>19, <1>21, <1>22 DEF Numbers
<1>27. Cursor' = Cursor /\ Cursor \in Slots
  <2>1. Cursor = IF Taken = {} THEN consumer ELSE After(reader.slot)
    BY DEF Cursor, Taken
  <2>2. Cursor' = IF Taken' = {} THEN consumer' ELSE After(reader'.slot)
    BY DEF Cursor, Taken, After
  <2>3. Taken # {} => reader.slot \in Slots
    BY <1>1, <1>21 DEF InSequence, Continues
  <2>4. consumer \in Slots
    BY <1>1 DEF RingTyped
  <2> QED
    BY <1>5, <1>21, <2>1, <2>2, <2>3, <2>4, AfterIs
<1>28. /\ accepted.gen <= generation /\ accepted.seq < sequence
       /\ \A s \in Slots : ring[s].gen <= generation
       /\ \A s \in Waiting \cup Taken : ring[s].seq < sequence
       /\ accepted.gen <= ring[active].gen
       /\ \A s \in Waiting \cup Taken : ring[s].gen <= ring[active].gen
       /\ generation # 0 /\ "OUT" \in used
  BY <1>1, <1>3, <1>15 DEF InSequence, GenerationsRise
<1>29. \A s \in Waiting \cup Taken : ring[s].seq \in Nat /\ ring[s].gen \in Nat
  BY <1>7, <1>21 DEF Entry
<1>30. Unmuddled'
  <2>1. SUFFICES ASSUME ~overtaken' PROVE
          /\ \A s, t \in Waiting' :
                Ahead(Cursor', s) < Ahead(Cursor', t) => ring'[s].seq < ring'[t].seq
          /\ \E low \in 0 .. sequence' : Numbers' = low .. sequence' - 1
          /\ At("HAVE")' /\ reader'.slot \in Taken' /\ ring'[reader'.slot].gen = generation'
                => Numbers' = ring'[reader'.slot].seq + 1 .. sequence' - 1
    BY DEF Unmuddled, Ahead
  <2>2. ~overtaken /\ ~Overtakes(active)
    BY <1>5, <2>1
  <2>3. /\ \A s, t \in Waiting : Ahead(Cursor, s) < Ahead(Cursor, t) => ring[s].seq < ring[t].seq
        /\ \E low \in 0 .. sequence : Numbers = low .. sequence - 1
        /\ At("HAVE") /\ reader.slot \in Taken /\ ring[reader.slot].gen = generation
              => Numbers = ring[reader.slot].seq + 1 .. sequence - 1
    BY <1>1, <2>2 DEF InSequence, Unmuddled
  <2>4. \A t \in Waiting : ~(Ahead(Cursor, active) < Ahead(Cursor, t))
    BY <2>2 DEF Overtakes, Waiting
  <2>5. ~(Ahead(Cursor, active) < Ahead(Cursor, active))
    <3>1. Ahead(Cursor, active) \in Slots
      BY <1>3, <1>27, AheadIs
    <3> QED
      BY <3>1, Sizes
  <2>6. ASSUME NEW s \in Waiting', NEW t \in Waiting', Ahead(Cursor, s) < Ahead(Cursor, t)
        PROVE  ring'[s].seq < ring'[t].seq
    <3>1. s # active
      BY <1>21, <2>4, <2>5, <2>6
    <3>2. s \in Waiting /\ ring'[s].seq = ring[s].seq
      BY <1>21, <1>22, <3>1
    <3>3. CASE t = active
      BY <1>19, <1>28, <3>2, <3>3
    <3>4. CASE t # active
      BY <1>21, <1>22, <2>3, <2>6, <3>2, <3>4
    <3> QED
      BY <3>3, <3>4
  <2>7. \A n \in Nat : \A low \in 0 .. n : low \in 0 .. n + 1 /\ (low .. n - 1) \cup {n} = low .. n + 1 - 1
    OBVIOUS
  <2>8. \E low \in 0 .. sequence' : Numbers' = low .. sequence' - 1
    BY <1>5, <1>7, <1>26, <2>3, <2>7
  <2>9. At("HAVE")' /\ reader'.slot \in Taken' /\ ring'[reader'.slot].gen = generation'
                => Numbers' = ring'[reader'.slot].seq + 1 .. sequence' - 1
    <3>1. SUFFICES ASSUME At("HAVE")', reader'.slot \in Taken', ring'[reader'.slot].gen = generation'
                   PROVE  Numbers' = ring'[reader'.slot].seq + 1 .. sequence' - 1
      OBVIOUS
    <3>2. /\ At("HAVE") /\ reader.slot \in Taken /\ ring[reader.slot].gen = generation
          /\ ring'[reader'.slot].seq = ring[reader.slot].seq
      BY <1>5, <1>21, <1>22, <3>1 DEF At
    <3>3. PICK q : q = ring[reader.slot].seq
      OBVIOUS
    <3>4. Numbers = q + 1 .. sequence - 1 /\ q + 1 \in 0 .. sequence
      BY <1>7, <1>28, <1>29, <2>3, <3>2, <3>3
    <3> QED
      BY <1>5, <1>7, <1>26, <2>7, <3>2, <3>3, <3>4
  <2> QED
    BY <1>27, <2>6, <2>8, <2>9
<1>31. GenerationsRise'
  <2>1. /\ accepted'.gen <= generation' /\ accepted'.seq < sequence'
        /\ \A s \in Slots : ring'[s].gen <= generation'
    BY <1>5, <1>7, <1>19, <1>20, <1>28
  <2>2. ASSUME NEW s \in Waiting' \cup Taken'
        PROVE  /\ ring'[s].seq < sequence'
               /\ accepted'.seq < ring'[s].seq => accepted'.gen <= ring'[s].gen
               /\ \A t \in Waiting' \cup Taken' :
                     ring'[s].seq < ring'[t].seq => ring'[s].gen <= ring'[t].gen
    <3>1. CASE s = active
      <4>1. \A t \in Waiting \cup Taken : ~(sequence < ring'[t].seq)
        BY <1>7, <1>22, <1>28, <1>29
      <4>2. \A t \in Waiting' \cup Taken' : ~(sequence < ring'[t].seq)
        BY <1>7, <1>19, <1>21, <4>1
      <4> QED
        BY <1>5, <1>7, <1>19, <1>28, <3>1, <4>2
    <3>2. CASE s # active
      <4>1. s \in Waiting \cup Taken /\ ring'[s].seq = ring[s].seq /\ ring'[s].gen = ring[s].gen
        BY <1>21, <1>22, <3>2
      <4>2. /\ ring[s].seq < sequence
            /\ accepted.seq < ring[s].seq => accepted.gen <= ring[s].gen
            /\ \A t \in Waiting \cup Taken : ring[s].seq < ring[t].seq => ring[s].gen <= ring[t].gen
        BY <1>1, <4>1 DEF InSequence, GenerationsRise
      <4>3. ring'[s].seq < sequence'
        BY <1>5, <1>7, <1>29, <4>1, <4>2
      <4>4. \A t \in Waiting \cup Taken : ring'[s].seq < ring'[t].seq => ring'[s].gen <= ring'[t].gen
        BY <1>22, <4>1, <4>2
      <4>5. ring'[s].gen <= ring'[active].gen
        BY <1>19, <1>28, <4>1
      <4> QED
        BY <1>5, <1>21, <4>1, <4>2, <4>3, <4>4, <4>5
    <3> QED
      BY <3>1, <3>2
  <2>3. \A d \in InState({"DMA_ACTIVE"})' :
          /\ accepted'.gen <= ring'[d].gen
          /\ \A s \in Waiting' \cup Taken' : ring'[s].gen <= ring'[d].gen
    <3>1. Waiting' \cup Taken' \subseteq Slots
      BY <1>3, <1>21
    <3> QED
      BY <1>5, <1>21, <2>1, <3>1
  <2>4. generation' # 0 /\ "OUT" \in used'
    BY <1>5, <1>15, <1>28
  <2> QED
    BY <2>1, <2>2, <2>3, <2>4 DEF GenerationsRise
<1>32. Continues'
  <2>1. \A s \in Taken' : reader'.pc \in {"HAVE", "DROP", "RELEASE"} /\ reader'.slot = s
    BY <1>1, <1>5, <1>21 DEF InSequence, Continues
  <2>2. At("HAVE")' => reader'.known /\ reader'.slot \in Taken'
    BY <1>1, <1>3, <1>5, <1>21 DEF At, InSequence, Continues
  <2>3. ASSUME accepted'.gen = generation', ~overtaken', reader'.known \/ At("IDLE")'
        PROVE  IF At("HAVE")' THEN ring'[reader'.slot].seq = accepted'.seq + 1
                ELSE Numbers' = accepted'.seq + 1 .. sequence' - 1
    <3>1. /\ accepted.gen = generation /\ ~overtaken /\ (reader.known \/ At("IDLE"))
          /\ At("HAVE")' = At("HAVE")
      BY <1>5, <2>3 DEF At
    <3>2. IF At("HAVE") THEN ring[reader.slot].seq = accepted.seq + 1
          ELSE Numbers = accepted.seq + 1 .. sequence - 1
      BY <1>1, <1>3, <1>15, <3>1 DEF InSequence, Continues
    <3>3. CASE At("HAVE")
      BY <1>3, <1>5, <1>22, <3>1, <3>2, <3>3
    <3>4. CASE ~At("HAVE")
      <4>1. \A n \in Nat : \A low \in 0 .. n : (low .. n - 1) \cup {n} = low .. n + 1 - 1
        OBVIOUS
      <4>2. accepted.seq + 1 \in 0 .. sequence
        BY <1>7, <1>28
      <4> QED
        BY <1>5, <1>7, <1>26, <3>1, <3>2, <3>4, <4>1, <4>2
    <3> QED
      BY <3>3, <3>4
  <2> QED
    BY <2>1, <2>2, <2>3 DEF Continues
<1> QED
  BY <1>17, <1>23, <1>24, <1>25, <1>30, <1>31, <1>32 DEF RingInv, InSequence

(* take_audio_ingress: the packet taken is the first of those that wait,   *)
(* in the ring and, unless one was overtaken, in time.                     *)
LEMMA TakeFirst ==
  ASSUME RingInv, TakePacket
  PROVE  \E s \in Waiting :
           /\ \A t \in Waiting \ {s} : Ahead(consumer, s) < Ahead(consumer, t)
           /\ ring' = [ring EXCEPT ![s].state = "READING"]
           /\ reader' = [pc |-> IF Gap(s) THEN "DROP" ELSE "HAVE", slot |-> s,
                         known |-> ~Gap(s), gen |-> ring[s].gen, expected |-> ring[s].seq + 1]
           /\ UNCHANGED <<producer, consumer, active, armed, count, generation,
                          sequence, hardware, accepted, deaf, overtaken>>
<1>1. consumer \in Slots
  BY DEF RingInv, RingTyped
<1>2. PICK n : n = CHOOSE k \in Slots :
                     /\ From(consumer, k) \in Waiting
                     /\ \A m \in 0 .. k - 1 : From(consumer, m) \notin Waiting
  OBVIOUS
<1>3. Waiting \subseteq Slots /\ Waiting # {}
  BY DEF TakePacket, Waiting, InState
<1>4. /\ From(consumer, n) \in Waiting
      /\ \A t \in Waiting : Ahead(consumer, From(consumer, n)) <= Ahead(consumer, t)
  BY <1>1, <1>2, <1>3, FirstFrom
<1>5. PICK s \in Waiting : s = From(consumer, n) /\ s = NextReady
  BY <1>2, <1>4 DEF NextReady, Waiting
<1>6. ASSUME NEW t \in Waiting \ {s} PROVE Ahead(consumer, s) < Ahead(consumer, t)
  <2>1. Ahead(consumer, s) <= Ahead(consumer, t)
    BY <1>4, <1>5
  <2>2. Ahead(consumer, s) # Ahead(consumer, t)
    BY <1>1, <1>3, <1>6, AheadDistinct
  <2>3. Ahead(consumer, s) \in Slots /\ Ahead(consumer, t) \in Slots
    BY <1>1, <1>3, <1>6, AheadIs
  <2> QED
    BY <2>1, <2>2, <2>3, Sizes
<1> QED
  BY <1>5, <1>6 DEF TakePacket

LEMMA TakeKeeps ==
  ASSUME RingInv, TakePacket, UNCHANGED sessionVars
  PROVE  RingInv'
<1>1. RingTyped /\ ReaderTyped /\ RingFlags /\ CountExact /\ Endpoint /\ InSequence
  BY DEF RingInv
<1>2. PICK s \in Waiting :
           /\ \A t \in Waiting \ {s} : Ahead(consumer, s) < Ahead(consumer, t)
           /\ ring' = [ring EXCEPT ![s].state = "READING"]
           /\ reader' = [pc |-> IF Gap(s) THEN "DROP" ELSE "HAVE", slot |-> s,
                         known |-> ~Gap(s), gen |-> ring[s].gen, expected |-> ring[s].seq + 1]
           /\ UNCHANGED <<producer, consumer, active, armed, count, generation,
                          sequence, hardware, accepted, deaf, overtaken>>
  BY TakeFirst
<1>3. /\ Waiting \subseteq Slots /\ s \in Slots /\ ring[s].state = "READY"
      /\ ring \in [Slots -> Entry] /\ ring[s] \in Entry
  BY <1>1 DEF Waiting, InState, RingTyped
<1>4. PICK e : e = [ring[s] EXCEPT !.state = "READING"]
  OBVIOUS
<1>5. e \in Entry /\ e.state = "READING" /\ e.gen = ring[s].gen /\ e.seq = ring[s].seq
  BY <1>3, <1>4 DEF Entry
<1>6. /\ ring' \in [Slots -> Entry] /\ ring'[s] = e
      /\ \A t \in Slots : t # s => ring'[t] = ring[t]
  BY <1>2, <1>3, <1>4, <1>5
<1>7. /\ At("IDLE") /\ reader'.slot = s /\ reader'.pc = IF reader'.known THEN "HAVE" ELSE "DROP"
      /\ reader'.pc \in {"HAVE", "DROP"} /\ reader' \in [pc : TaskPlaces, slot : Slots \cup {NoSlot},
                                              known : BOOLEAN, gen : Nat, expected : Nat]
  <2>1. Gap(s) \in BOOLEAN
    BY DEF Gap, Begins
  <2>2. ring[s].gen \in Nat /\ ring[s].seq + 1 \in Nat
    BY <1>3 DEF Entry
  <2>3. (IF Gap(s) THEN "DROP" ELSE "HAVE") \in TaskPlaces
    BY DEF TaskPlaces
  <2>4. At("IDLE")
    BY DEF TakePacket
  <2> QED
    BY <1>2, <1>3, <2>1, <2>2, <2>3, <2>4
<1>8. /\ Taken = {} /\ Cursor = consumer
  <2>1. Taken = {}
    BY <1>1, <1>7 DEF InSequence, Continues, At
  <2> QED
    BY <2>1 DEF Taken, Cursor
<1>9. /\ Waiting' = Waiting \ {s} /\ Taken' = {s}
      /\ InState({"READY", "READING"})' = InState({"READY", "READING"})
      /\ InState({"DMA_ACTIVE"})' = InState({"DMA_ACTIVE"})
  <2>1. \A t \in Slots : ring[t].state # "READING"
    BY <1>8 DEF Taken, InState
  <2> QED
    BY <1>3, <1>5, <1>6, <2>1 DEF Waiting, Taken, InState
<1>10. \A t \in Slots : ring'[t].seq = ring[t].seq /\ ring'[t].gen = ring[t].gen
  BY <1>5, <1>6
<1>11. RingTyped'
  BY <1>1, <1>2, <1>6 DEF RingTyped
<1>12. ReaderTyped' /\ RingFlags'
  BY <1>1, <1>2, <1>7 DEF ReaderTyped, RingFlags
<1>13. CountExact'
  BY <1>1, <1>2, <1>9 DEF CountExact
<1>14. UNCHANGED <<used, bus, suspended, open>>
  BY DEF sessionVars
<1>15. hardware # NoSlot => hardware \in Slots /\ hardware # s
  BY <1>1, <1>3 DEF Endpoint, NoOverwrite, RingTyped
<1>16. Endpoint'
  <2>1. NoOverwrite'
    BY <1>1, <1>2, <1>6, <1>7, <1>15 DEF Endpoint, NoOverwrite
  <2>2. KeepsListening'
    BY <1>7 DEF KeepsListening, WillArm
  <2>3. EndpointFollows'
    BY <1>1, <1>2, <1>7, <1>9, <1>14 DEF Endpoint, EndpointFollows, Configured, At
  <2>4. s # NoSlot
    BY <1>3, Sizes
  <2>5. InHand'
    BY <1>5, <1>6, <1>7, <2>4 DEF InHand, At
  <2> QED
    BY <2>1, <2>2, <2>3, <2>5 DEF Endpoint
<1>17. /\ \A t \in Waiting : ring[t].seq \in Nat
       /\ \A t \in Waiting : ring[t].seq < sequence
       /\ sequence \in Nat /\ accepted.seq \in Nat
  BY <1>1, <1>3 DEF RingTyped, Entry, InSequence, GenerationsRise
<1>18. ASSUME ~overtaken
       PROVE  /\ Numbers = ring[s].seq .. sequence - 1
              /\ Numbers' = ring[s].seq + 1 .. sequence - 1
  <2>1. /\ \A u, t \in Waiting : Ahead(consumer, u) < Ahead(consumer, t) => ring[u].seq < ring[t].seq
        /\ \E low \in 0 .. sequence : Numbers = low .. sequence - 1
    BY <1>1, <1>8, <1>18 DEF InSequence, Unmuddled
  <2>2. PICK low \in 0 .. sequence : Numbers = low .. sequence - 1
    BY <2>1
  <2>3. PICK q \in Nat : q = ring[s].seq
    BY <1>17
  <2>4. \A t \in Waiting \ {s} : q < ring[t].seq
    BY <1>2, <2>1, <2>3
  <2>5. q \in Numbers /\ \A n \in Numbers : q <= n
    BY <1>17, <2>3, <2>4 DEF Numbers
  <2>6. q = low
    BY <1>17, <2>2, <2>5
  <2>7. Numbers' = {ring[t].seq : t \in Waiting \ {s}}
    BY <1>3, <1>9, <1>10 DEF Numbers
  <2>8. Numbers' = Numbers \ {q}
    <3>1. \A t \in Waiting \ {s} : ring[t].seq # q
      BY <1>17, <2>3, <2>4
    <3>2. Numbers = {ring[t].seq : t \in Waiting} /\ s \in Waiting
      BY DEF Numbers
    <3> QED
      BY ONLY <2>3, <2>7, <3>1, <3>2
  <2>9. (q .. sequence - 1) \ {q} = q + 1 .. sequence - 1
    BY <1>17
  <2> QED
    BY <2>2, <2>3, <2>6, <2>8, <2>9
<1>19. Unmuddled'
  <2>1. Cursor' = After(s)
    BY <1>7, <1>9 DEF Cursor, Taken, After
  <2>2. ASSUME ~overtaken, NEW u \in Waiting', NEW t \in Waiting', Ahead(After(s), u) < Ahead(After(s), t)
        PROVE  ring'[u].seq < ring'[t].seq
    <3>1. u \in Waiting \ {s} /\ t \in Waiting \ {s}
      BY <1>9, <2>2
    <3>2. Ahead(consumer, u) < Ahead(consumer, t)
      BY <1>1, <1>2, <1>3, <2>2, <3>1, AheadOrder DEF RingTyped
    <3>3. ring[u].seq < ring[t].seq
      BY <1>1, <1>8, <2>2, <3>1, <3>2 DEF InSequence, Unmuddled
    <3> QED
      BY <1>3, <1>10, <3>1, <3>3
  <2>3. ~overtaken => \E low \in 0 .. sequence : Numbers' = low .. sequence - 1
    <3>1. ring[s].seq + 1 \in 0 .. sequence
      BY <1>17
    <3> QED
      BY <1>18, <3>1
  <2>4. ~overtaken => Numbers' = ring'[s].seq + 1 .. sequence - 1
    BY <1>3, <1>10, <1>18
  <2> QED
    BY <1>2, <1>7, <2>1, <2>2, <2>3, <2>4 DEF Unmuddled, Ahead
<1>20. GenerationsRise'
  <2>1. Waiting' \cup Taken' = Waiting \cup Taken
    BY <1>8, <1>9
  <2>2. generation # 0
    BY <1>1 DEF InSequence, GenerationsRise
  <2>3. Waiting \cup Taken \subseteq Slots /\ InState({"DMA_ACTIVE"}) \subseteq Slots
    BY <1>3, <1>8 DEF InState
  <2>4. "OUT" \notin used' => FALSE
    BY <1>1, <1>14, <2>2 DEF InSequence, GenerationsRise
  <2>5. /\ accepted.gen <= generation /\ accepted.seq < sequence
        /\ \A t \in Slots : ring[t].gen <= generation
        /\ \A t \in Waiting \cup Taken :
              /\ ring[t].seq < sequence
              /\ accepted.seq < ring[t].seq => accepted.gen <= ring[t].gen
              /\ \A u \in Waiting \cup Taken : ring[t].seq < ring[u].seq => ring[t].gen <= ring[u].gen
        /\ \A d \in InState({"DMA_ACTIVE"}) :
              /\ accepted.gen <= ring[d].gen
              /\ \A t \in Waiting \cup Taken : ring[t].gen <= ring[d].gen
    BY <1>1 DEF InSequence, GenerationsRise
  <2>6. /\ \A t \in Slots : ring'[t].gen <= generation
        /\ \A t \in Waiting \cup Taken :
              /\ ring'[t].seq < sequence
              /\ accepted.seq < ring'[t].seq => accepted.gen <= ring'[t].gen
              /\ \A u \in Waiting \cup Taken : ring'[t].seq < ring'[u].seq => ring'[t].gen <= ring'[u].gen
        /\ \A d \in InState({"DMA_ACTIVE"}) :
              /\ accepted.gen <= ring'[d].gen
              /\ \A t \in Waiting \cup Taken : ring'[t].gen <= ring'[d].gen
    BY <1>10, <2>3, <2>5
  <2> QED
    BY <1>2, <1>9, <2>1, <2>2, <2>4, <2>5, <2>6 DEF GenerationsRise
<1>21. Continues'
  <2>1. accepted.gen = generation /\ ~overtaken => ring'[s].seq = accepted.seq + 1
    <3>1. SUFFICES ASSUME accepted.gen = generation, ~overtaken PROVE ring[s].seq = accepted.seq + 1
      BY <1>3, <1>10
    <3>2. ~RingEmptied /\ ~At("HAVE")
      BY <1>7 DEF RingEmptied, At
    <3>3. Numbers = accepted.seq + 1 .. sequence - 1
      BY <1>1, <1>7, <3>1, <3>2 DEF InSequence, Continues
    <3>4. PICK q \in Nat : q = ring[s].seq /\ q < sequence
      BY <1>17
    <3>5. q .. sequence - 1 = accepted.seq + 1 .. sequence - 1
      BY <1>18, <3>1, <3>3, <3>4
    <3>6. q \in q .. sequence - 1
      BY <1>17, <3>4
    <3>7. q \in accepted.seq + 1 .. sequence - 1
      BY <3>5, <3>6
    <3>8. accepted.seq + 1 \in accepted.seq + 1 .. sequence - 1
      BY <1>17, <3>4, <3>7
    <3>9. accepted.seq + 1 \in q .. sequence - 1
      BY <3>5, <3>8
    <3> QED
      BY <1>17, <3>4, <3>7, <3>9
  <2>2. ~At("IDLE")' /\ (At("HAVE")' <=> reader'.known)
    BY <1>7 DEF At
  <2> QED
    BY <1>2, <1>7, <1>9, <2>1, <2>2 DEF Continues
<1> QED
  BY <1>11, <1>12, <1>13, <1>16, <1>19, <1>20, <1>21 DEF RingInv, InSequence

(* m61_audio_epoch_ingest_usb, and what it does for the order: the epoch   *)
(* store takes the packet after the last one, unless one was overtaken.    *)
LEMMA IngestTakes ==
  ASSUME RingInv, IngestPacket
  PROVE  /\ reader.slot \in Slots /\ reader.known /\ generation # 0
         /\ \/ /\ ring[reader.slot].gen = generation /\ reader.slot \in Taken
               /\ accepted' = [gen |-> generation, seq |-> ring[reader.slot].seq]
            \/ ring[reader.slot].gen # generation /\ accepted' = accepted
         /\ NoHole
<1>1. RingTyped /\ ReaderTyped /\ InHand /\ InSequence
  BY DEF RingInv, Endpoint
<1>2. At("HAVE") /\ reader.pc = "HAVE"
  BY DEF IngestPacket, At
<1>3. /\ reader.slot \in Slots /\ reader.known
      /\ reader.slot \in Taken \/ ring[reader.slot].gen < generation
  BY <1>1, <1>2 DEF ReaderTyped, InHand, InSequence, Continues
<1>4. generation # 0 /\ generation \in Nat
  BY <1>1, <1>2 DEF InSequence, GenerationsRise, At, RingTyped
<1>5. CASE ring[reader.slot].gen = generation
  <2>1. /\ reader.slot \in Taken
        /\ accepted' = [gen |-> generation, seq |-> ring[reader.slot].seq]
    BY <1>3, <1>4, <1>5 DEF IngestPacket
  <2>2. accepted.gen = generation /\ ~overtaken => ring[reader.slot].seq = accepted.seq + 1
    BY <1>1, <1>2, <1>3, <2>1 DEF InSequence, Continues
  <2> QED
    BY <1>3, <1>4, <1>5, <2>1, <2>2 DEF NoHole
<1>6. CASE ring[reader.slot].gen # generation
  BY <1>3, <1>4, <1>6 DEF IngestPacket, NoHole
<1> QED
  BY <1>5, <1>6

LEMMA IngestKeeps ==
  ASSUME RingInv, IngestPacket, UNCHANGED sessionVars
  PROVE  RingInv'
<1>1. RingTyped /\ ReaderTyped /\ RingFlags /\ CountExact /\ Endpoint /\ InSequence
  BY DEF RingInv
<1>2. /\ reader.slot \in Slots /\ reader.known /\ generation # 0
      /\ \/ /\ ring[reader.slot].gen = generation /\ reader.slot \in Taken
            /\ accepted' = [gen |-> generation, seq |-> ring[reader.slot].seq]
         \/ ring[reader.slot].gen # generation /\ accepted' = accepted
  BY IngestTakes
<1>3. /\ reader' = [reader EXCEPT !.pc = "RELEASE"] /\ At("HAVE")
      /\ UNCHANGED <<ring, producer, consumer, active, armed, count, generation,
                     sequence, hardware, deaf, overtaken>>
  BY DEF IngestPacket, Goto
<1>4. /\ reader'.pc = "RELEASE" /\ reader'.slot = reader.slot /\ reader'.known = reader.known
      /\ ReaderTyped'
  BY <1>1, <1>3 DEF ReaderTyped, TaskPlaces
<1>5. UNCHANGED <<used, bus, suspended, open>>
  BY DEF sessionVars
<1>6. \A st : InState(st)' = InState(st)
  BY <1>3 DEF InState
<1>7. UNCHANGED <<Waiting, Taken, Numbers, Cursor>>
  BY <1>3, <1>4, <1>6 DEF Waiting, Taken, Numbers, Cursor, After
<1>8. RingTyped'
  BY <1>1, <1>2, <1>3 DEF RingTyped, Entry
<1>9. RingFlags' /\ CountExact'
  BY <1>1, <1>3, <1>6 DEF RingFlags, CountExact
<1>10. Endpoint'
  <2>1. NoOverwrite'
    BY <1>1, <1>3, <1>4 DEF Endpoint, NoOverwrite
  <2>2. KeepsListening'
    BY <1>4 DEF KeepsListening, WillArm
  <2>3. EndpointFollows'
    BY <1>1, <1>3, <1>4, <1>5, <1>6 DEF Endpoint, EndpointFollows, Configured, At
  <2>4. InHand'
    BY <1>2, <1>4, Sizes DEF InHand, At
  <2> QED
    BY <2>1, <2>2, <2>3, <2>4 DEF Endpoint
<1>11. Unmuddled'
  BY <1>1, <1>3, <1>4, <1>7 DEF InSequence, Unmuddled, Ahead, At
<1>12. GenerationsRise'
  <2>1. /\ accepted.gen <= generation /\ accepted.seq < sequence
        /\ \A s \in Slots : ring[s].gen <= generation
        /\ \A s \in Waiting \cup Taken :
              /\ ring[s].seq < sequence
              /\ accepted.seq < ring[s].seq => accepted.gen <= ring[s].gen
              /\ \A t \in Waiting \cup Taken : ring[s].seq < ring[t].seq => ring[s].gen <= ring[t].gen
        /\ \A d \in InState({"DMA_ACTIVE"}) :
              /\ accepted.gen <= ring[d].gen
              /\ \A s \in Waiting \cup Taken : ring[s].gen <= ring[d].gen
        /\ "OUT" \notin used => generation = 0
    BY <1>1 DEF InSequence, GenerationsRise
  <2>2. /\ accepted'.gen <= generation /\ accepted'.seq < sequence
        /\ \A s \in Waiting \cup Taken : accepted'.seq < ring[s].seq => accepted'.gen <= ring[s].gen
        /\ \A d \in InState({"DMA_ACTIVE"}) : accepted'.gen <= ring[d].gen
    <3>1. CASE accepted' = accepted
      BY <2>1, <3>1
    <3>2. CASE /\ ring[reader.slot].gen = generation /\ reader.slot \in Taken
               /\ accepted' = [gen |-> generation, seq |-> ring[reader.slot].seq]
      <4>1. accepted'.gen = ring[reader.slot].gen /\ accepted'.seq = ring[reader.slot].seq
        BY <3>2
      <4>2. ring[reader.slot].gen <= generation
        BY <1>2, <2>1
      <4> QED
        BY <2>1, <3>2, <4>1, <4>2
    <3> QED
      BY <1>2, <3>1, <3>2
  <2> QED
    BY <1>2, <1>3, <1>5, <1>6, <1>7, <2>1, <2>2 DEF GenerationsRise
<1>13. Continues'
  <2>1. \A s \in Taken' : reader'.pc \in {"HAVE", "DROP", "RELEASE"} /\ reader'.slot = s
    BY <1>1, <1>4, <1>7 DEF InSequence, Continues
  <2>2. ASSUME accepted'.gen = generation, ~overtaken
        PROVE  RingEmptied \/ Numbers = accepted'.seq + 1 .. sequence - 1
    <3>1. CASE /\ ring[reader.slot].gen = generation /\ reader.slot \in Taken
               /\ accepted' = [gen |-> generation, seq |-> ring[reader.slot].seq]
      BY <1>1, <1>3, <2>2, <3>1 DEF InSequence, Unmuddled
    <3>2. CASE ring[reader.slot].gen # generation /\ accepted' = accepted
      <4>1. SUFFICES ASSUME ~RingEmptied PROVE FALSE
        OBVIOUS
      <4>2. reader.slot \in Taken /\ ring[reader.slot].seq = accepted.seq + 1
        BY <1>1, <1>2, <1>3, <2>2, <3>2, <4>1 DEF InSequence, Continues
      <4>3. accepted.gen <= ring[reader.slot].gen /\ ring[reader.slot].gen <= generation
        BY <1>1, <1>2, <4>2 DEF InSequence, GenerationsRise, RingTyped
      <4>4. ring[reader.slot].gen \in Nat /\ generation \in Nat
        BY <1>1, <1>2 DEF RingTyped, Entry
      <4> QED
        BY <2>2, <3>2, <4>3, <4>4
    <3> QED
      BY <1>2, <3>1, <3>2
  <2>3. RingEmptied' = RingEmptied
    BY <1>5, <1>7 DEF RingEmptied
  <2>4. ~At("HAVE")'
    BY <1>4 DEF At
  <2> QED
    BY <1>3, <1>7, <2>1, <2>2, <2>3, <2>4 DEF Continues
<1> QED
  BY <1>4, <1>8, <1>9, <1>10, <1>11, <1>12, <1>13 DEF RingInv, InSequence

(* The steps of the task with no packet in hand keep the order of those    *)
(* that wait.                                                              *)
LEMMA TaskData ==
  ASSUME RingInv, UNCHANGED <<used, bus, open>>,
         UNCHANGED <<generation, sequence, accepted, overtaken>>,
         reader'.known = reader.known, ~At("HAVE"), ~At("IDLE"), ~At("HAVE")',
         At("IDLE")' => reader.known,
         Waiting' = Waiting, Taken' = {}, Cursor' = Cursor,
         \A s \in Waiting : ring'[s] = ring[s],
         \A s \in Slots : ring'[s].gen <= generation,
         \A d \in InState({"DMA_ACTIVE"})' :
            ring'[d].gen = generation \/ (d \in InState({"DMA_ACTIVE"}) /\ ring'[d].gen = ring[d].gen)
  PROVE  InSequence'
<1>1. InSequence /\ RingTyped
  BY DEF RingInv
<1>2. Numbers' = Numbers /\ Waiting \subseteq Slots
  BY DEF Numbers, Waiting, InState
<1>3. Unmuddled'
  <2>1. ~overtaken =>
          /\ \A s, t \in Waiting : Ahead(Cursor, s) < Ahead(Cursor, t) => ring[s].seq < ring[t].seq
          /\ \E low \in 0 .. sequence : Numbers = low .. sequence - 1
    BY <1>1 DEF InSequence, Unmuddled
  <2>2. ~overtaken =>
          /\ \A s, t \in Waiting : Ahead(Cursor', s) < Ahead(Cursor', t) => ring'[s].seq < ring'[t].seq
          /\ \E low \in 0 .. sequence : Numbers' = low .. sequence - 1
    BY <1>2, <2>1
  <2> QED
    BY <2>2 DEF Unmuddled, Ahead
<1>4. GenerationsRise'
  <2>1. /\ accepted.gen <= generation /\ accepted.seq < sequence
        /\ \A s \in Waiting :
              /\ ring[s].seq < sequence
              /\ accepted.seq < ring[s].seq => accepted.gen <= ring[s].gen
              /\ \A t \in Waiting : ring[s].seq < ring[t].seq => ring[s].gen <= ring[t].gen
        /\ \A d \in InState({"DMA_ACTIVE"}) :
              /\ accepted.gen <= ring[d].gen
              /\ \A s \in Waiting : ring[s].gen <= ring[d].gen
        /\ "OUT" \notin used => generation = 0
        /\ generation # 0
    BY <1>1 DEF InSequence, GenerationsRise
  <2>2. \A s \in Waiting : ring[s].gen <= generation
    BY <1>1, <1>2 DEF InSequence, GenerationsRise
  <2>3. \A d \in InState({"DMA_ACTIVE"})' :
              /\ accepted.gen <= ring'[d].gen
              /\ \A s \in Waiting : ring'[s].gen <= ring'[d].gen
    BY <2>1, <2>2
  <2> QED
    BY <2>1, <2>3 DEF GenerationsRise
<1>5. Continues'
  <2>1. accepted.gen = generation /\ ~overtaken /\ reader.known
          => RingEmptied \/ Numbers = accepted.seq + 1 .. sequence - 1
    BY <1>1 DEF InSequence, Continues
  <2>2. RingEmptied' = RingEmptied
    BY DEF RingEmptied
  <2> QED
    BY <1>2, <2>1, <2>2 DEF Continues
<1> QED
  BY <1>3, <1>4, <1>5 DEF InSequence

(* release_audio_ingress.                                                  *)
LEMMA ReleaseKeeps ==
  ASSUME RingInv, Release, UNCHANGED sessionVars
  PROVE  RingInv'
<1>1. RingTyped /\ ReaderTyped /\ RingFlags /\ CountExact /\ Endpoint /\ InSequence
  BY DEF RingInv
<1>2. PICK k : k = reader.slot
  OBVIOUS
<1>3. /\ reader.pc \in {"RELEASE", "DROP"} /\ k \in Slots
      /\ ~At("HAVE") /\ ~At("IDLE") /\ ~At("START")
  BY <1>1, <1>2 DEF Release, At, Endpoint, InHand, ReaderTyped
<1>4. /\ reader' = [reader EXCEPT !.pc = IF At("DROP") THEN "ARM_GAP" ELSE "ARM", !.slot = NoSlot]
      /\ UNCHANGED <<producer, active, armed, generation, sequence, hardware,
                     accepted, deaf, overtaken>>
  BY DEF Release
<1>5. /\ reader'.pc \in {"ARM", "ARM_GAP"} /\ reader'.known = reader.known /\ ReaderTyped'
  BY <1>1, <1>4 DEF ReaderTyped, TaskPlaces
<1>6. ~At("HAVE")' /\ ~At("IDLE")' /\ ~At("START")'
  BY <1>5 DEF At
<1>7. UNCHANGED <<used, bus, suspended, open>>
  BY DEF sessionVars
<1>8. \A s \in Slots : ring[s] \in Entry
  BY <1>1 DEF RingTyped
<1>9. Waiting \subseteq Slots /\ \A s \in Taken : s = k
  BY <1>1, <1>2 DEF Waiting, InState, InSequence, Continues
<1> DEFINE Left == /\ ring' \in [Slots -> Entry] /\ consumer' \in Slots /\ CountExact'
                   /\ \A s \in Slots : /\ ring'[s].gen = ring[s].gen
                                       /\ ring'[s].state = IF s = k /\ ring[s].state = "READING"
                                                           THEN "FREE" ELSE ring[s].state
                   /\ \A s \in Waiting : ring'[s] = ring[s]
                   /\ Cursor' = Cursor /\ Taken' = {}
<1>10. ASSUME ring[k].state = "READING" PROVE Left
  <2>1. /\ ring' = [ring EXCEPT ![k].state = "FREE"] /\ consumer' = After(k)
        /\ count' = IF count > 0 THEN count - 1 ELSE count
    BY <1>2, <1>10 DEF Release
  <2>2. PICK e : e = [ring[k] EXCEPT !.state = "FREE"]
    OBVIOUS
  <2>3. e \in Entry /\ e.state = "FREE" /\ e.gen = ring[k].gen
    BY <1>3, <1>8, <2>2 DEF Entry
  <2>4. /\ ring' \in [Slots -> Entry] /\ ring'[k] = e
        /\ \A s \in Slots : s # k => ring'[s] = ring[s]
    BY <1>1, <1>3, <2>1, <2>2, <2>3 DEF RingTyped
  <2>5. Taken = {k} /\ k \notin Waiting
    BY <1>3, <1>9, <1>10 DEF Taken, Waiting, InState
  <2>6. /\ \A s \in Slots : /\ ring'[s].gen = ring[s].gen
                            /\ ring'[s].state = IF s = k /\ ring[s].state = "READING"
                                                THEN "FREE" ELSE ring[s].state
        /\ \A s \in Waiting : ring'[s] = ring[s]
    BY <1>9, <1>10, <2>3, <2>4, <2>5
  <2>7. Taken' = {} /\ InState({"READY", "READING"})' = InState({"READY", "READING"}) \ {k}
        /\ k \in InState({"READY", "READING"})
    BY <1>3, <1>10, <2>5, <2>6 DEF Taken, InState
  <2>8. Cursor = After(k) /\ Cursor' = consumer'
    BY <1>2, <2>5, <2>7 DEF Cursor, Taken
  <2>9. consumer' \in Slots
    BY <1>3, <2>1, AfterIs
  <2>10. CountExact'
    <3>1. IsFiniteSet(InState({"READY", "READING"}))
      BY SlotsFinite, InStateIn
    <3>2. PICK T : T = InState({"READY", "READING"})
      OBVIOUS
    <3>3. Cardinality(T \ {k}) = Cardinality(T) - 1 /\ Cardinality(T) \in Nat /\ Cardinality(T \ {k}) \in Nat
      BY <2>7, <3>1, <3>2, FS_RemoveElement, FS_CardinalityType
    <3> QED
      BY <1>1, <2>1, <2>7, <3>2, <3>3 DEF CountExact
  <2> QED
    BY <2>1, <2>4, <2>6, <2>7, <2>8, <2>9, <2>10
<1>11. ASSUME ring[k].state # "READING" PROVE Left
  <2>1. UNCHANGED <<ring, consumer, count>>
    BY <1>2, <1>11 DEF Release
  <2>2. Taken = {}
    BY <1>9, <1>11 DEF Taken, InState
  <2>3. \A st : InState(st)' = InState(st)
    BY <2>1 DEF InState
  <2> QED
    BY <1>1, <1>9, <1>11, <2>1, <2>2, <2>3 DEF Cursor, Taken, CountExact, RingTyped
<1>12. Left
  BY <1>10, <1>11
<1> HIDE DEF Left
<1>13. Waiting' = Waiting /\ InState({"DMA_ACTIVE"})' = InState({"DMA_ACTIVE"})
  BY <1>12 DEF Left, Waiting, InState
<1>14. RingTyped' /\ RingFlags'
  BY <1>1, <1>4, <1>12 DEF Left, RingTyped, RingFlags
<1>15. InSequence'
  <2>1. \A s \in Slots : ring'[s].gen <= generation
    BY <1>1, <1>12 DEF Left, InSequence, GenerationsRise
  <2>2. \A d \in InState({"DMA_ACTIVE"})' : d \in InState({"DMA_ACTIVE"}) /\ ring'[d].gen = ring[d].gen
    BY <1>12, <1>13 DEF Left, InState
  <2>3. /\ Taken' = {} /\ Cursor' = Cursor /\ \A s \in Waiting : ring'[s] = ring[s]
    BY <1>12 DEF Left
  <2> QED
    BY <1>3, <1>4, <1>5, <1>6, <1>7, <1>13, <2>1, <2>2, <2>3, TaskData
<1>16. Endpoint'
  <2>1. hardware # NoSlot => hardware \in Slots /\ ring[hardware].state \notin {"READY", "READING"}
    BY <1>1 DEF Endpoint, NoOverwrite, RingTyped
  <2>2. NoOverwrite'
    BY <1>4, <1>6, <1>12, <2>1 DEF Left, NoOverwrite, At
  <2>3. KeepsListening'
    BY <1>5 DEF KeepsListening, WillArm
  <2>4. EndpointFollows'
    BY <1>1, <1>3, <1>4, <1>6, <1>7, <1>13 DEF Endpoint, EndpointFollows, Configured
  <2>5. InHand'
    BY <1>5 DEF InHand, At
  <2> QED
    BY <2>2, <2>3, <2>4, <2>5 DEF Endpoint
<1>17. CountExact'
  BY <1>12 DEF Left
<1> QED
  BY <1>5, <1>14, <1>15, <1>16, <1>17 DEF RingInv

(* The look at the flags of the session.                                   *)
LEMMA LookKeeps ==
  ASSUME RingInv, SessionOK, LookBeforeArming, UNCHANGED sessionVars
  PROVE  RingInv'
<1>1. RingTyped /\ ReaderTyped /\ RingFlags /\ CountExact /\ Endpoint /\ InSequence
  BY DEF RingInv
<1>2. /\ reader.pc \in {"ARM", "ARM_GAP"} /\ ~At("HAVE") /\ ~At("IDLE") /\ ~At("START")
      /\ reader' = [reader EXCEPT !.pc = IF Wants THEN "CHOOSE" ELSE Done]
      /\ UNCHANGED <<ring, producer, consumer, active, armed, count, generation,
                     sequence, hardware, accepted, deaf, overtaken>>
  BY DEF LookBeforeArming, At, Goto
<1>3. /\ reader'.pc = (IF Wants THEN "CHOOSE" ELSE Done) /\ reader'.known = reader.known
      /\ ReaderTyped' /\ Done \in {"IDLE", "GAP"} /\ (Done = "IDLE" => reader.known)
  BY <1>1, <1>2 DEF ReaderTyped, TaskPlaces, Done
<1>4. ~At("HAVE")' /\ ~At("START")' /\ (At("IDLE")' => reader.known)
  BY <1>3 DEF At
<1>5. UNCHANGED <<used, bus, suspended, open>>
  BY DEF sessionVars
<1>6. \A st : InState(st)' = InState(st)
  BY <1>2 DEF InState
<1>7. Taken = {}
  BY <1>1, <1>2 DEF InSequence, Continues
<1>8. Waiting' = Waiting /\ Taken' = {} /\ Cursor' = Cursor /\ Waiting \subseteq Slots
  BY <1>2, <1>6, <1>7 DEF Waiting, Taken, Cursor, InState
<1>9. InSequence'
  <2>1. \A s \in Slots : ring'[s].gen <= generation
    BY <1>1, <1>2 DEF InSequence, GenerationsRise
  <2>2. \A d \in InState({"DMA_ACTIVE"})' : d \in InState({"DMA_ACTIVE"}) /\ ring'[d].gen = ring[d].gen
    BY <1>2, <1>6
  <2>3. \A s \in Waiting : ring'[s] = ring[s]
    BY <1>2
  <2> QED
    BY <1>2, <1>3, <1>4, <1>5, <1>8, <2>1, <2>2, <2>3, TaskData
<1>10. (RingTyped /\ RingFlags /\ CountExact)'
  BY <1>1, <1>2, <1>6 DEF RingTyped, RingFlags, CountExact
<1>11. Endpoint'
  <2>1. NoOverwrite'
    BY <1>1, <1>2, <1>4 DEF Endpoint, NoOverwrite, At
  <2>2. KeepsListening'
    <3>1. CASE Wants
      BY <1>3, <3>1 DEF KeepsListening, WillArm
    <3>2. CASE ~Wants
      <4>1. Streaming("OUT")' => armed
        BY <1>5, <3>2 DEF Wants, Streaming, Live, Configured, SessionOK
      <4> QED
        BY <1>2, <4>1 DEF KeepsListening, WillArm
    <3> QED
      BY <3>1, <3>2
  <2>3. EndpointFollows'
    BY <1>1, <1>2, <1>4, <1>5, <1>6 DEF Endpoint, EndpointFollows, Configured
  <2>4. InHand'
    BY <1>3 DEF InHand, At
  <2> QED
    BY <2>1, <2>2, <2>3, <2>4 DEF Endpoint
<1> QED
  BY <1>3, <1>9, <1>10, <1>11 DEF RingInv

(* The choice of a slot.                                                   *)
LEMMA ChooseKeeps ==
  ASSUME RingInv, ChooseSlot, UNCHANGED sessionVars
  PROVE  RingInv'
<1>1. RingTyped /\ ReaderTyped /\ RingFlags /\ CountExact /\ Endpoint /\ InSequence
  BY DEF RingInv
<1>2. reader.pc = "CHOOSE" /\ ~At("HAVE") /\ ~At("IDLE") /\ ~At("START")
  BY DEF ChooseSlot, At
<1>3. UNCHANGED <<used, bus, suspended, open>>
  BY DEF sessionVars
<1>4. Taken = {}
  BY <1>1, <1>2 DEF InSequence, Continues
<1>5. producer \in Slots /\ ring \in [Slots -> Entry] /\ generation \in Nat
  BY <1>1 DEF RingTyped
<1>6. CASE ~armed /\ Armable(ring, active)
  <2>1. PICK s \in Slots : s = NextFree(ring, producer) /\ ring[s].state = "FREE"
    BY <1>5, <1>6, NextFreeIs DEF Armable, FreeSlots
  <2>2. /\ generation' = generation /\ ring' = Activated(ring, s) /\ active' = s /\ armed' = TRUE
        /\ reader' = [reader EXCEPT !.pc = "START", !.slot = s] /\ deaf' = FALSE
        /\ UNCHANGED <<producer, consumer, count, sequence, hardware, accepted, overtaken>>
    BY <1>6, <2>1 DEF ChooseSlot
  <2>3. ring' = [ring EXCEPT ![s] = [state |-> "DMA_ACTIVE", gen |-> generation, seq |-> ring[s].seq]]
    BY <1>5, <2>1, <2>2, Activates
  <2>4. [state |-> "DMA_ACTIVE", gen |-> generation, seq |-> ring[s].seq] \in Entry
    BY <1>5 DEF Entry
  <2>5. /\ ring' \in [Slots -> Entry]
        /\ ring'[s].state = "DMA_ACTIVE" /\ ring'[s].gen = generation
        /\ \A t \in Slots : t # s => ring'[t] = ring[t]
    BY <1>5, <2>3, <2>4
  <2>6. /\ reader'.pc = "START" /\ reader'.slot = s /\ reader'.known = reader.known /\ ReaderTyped'
    BY <1>1, <2>2 DEF ReaderTyped, TaskPlaces
  <2>7. active = NoSlot /\ InState({"DMA_ACTIVE"}) = {} /\ (hardware # NoSlot => suspended)
    BY <1>1, <1>6 DEF Armable, Endpoint, EndpointFollows
  <2>8. s \notin Waiting /\ Waiting \subseteq Slots
    BY <2>1 DEF Waiting, InState
  <2>9. /\ Waiting' = Waiting /\ Taken' = {}
        /\ InState({"READY", "READING"})' = InState({"READY", "READING"})
        /\ InState({"DMA_ACTIVE"})' = {s}
    <3>1. \A t \in Slots : t # s => ring[t].state # "DMA_ACTIVE"
      BY <2>7 DEF InState
    <3> QED
      BY <1>4, <2>1, <2>5, <3>1 DEF Waiting, Taken, InState
  <2>10. Cursor' = Cursor
    BY <1>4, <2>2, <2>9 DEF Taken, Cursor
  <2>11. InSequence'
    <3>1. \A t \in Slots : ring[t].gen <= generation
      BY <1>1 DEF InSequence, GenerationsRise
    <3>2. \A t \in Slots : ring'[t].gen <= generation
      BY <1>5, <2>5, <3>1
    <3>3. \A d \in InState({"DMA_ACTIVE"})' : ring'[d].gen = generation
      BY <2>5, <2>9
    <3>4. \A t \in Waiting : ring'[t] = ring[t]
      BY <2>5, <2>8
    <3>5. ~At("HAVE")' /\ ~At("IDLE")'
      BY <2>6 DEF At
    <3> QED
      BY <1>2, <1>3, <2>2, <2>6, <2>9, <2>10, <3>2, <3>3, <3>4, <3>5, TaskData
  <2>12. RingTyped' /\ CountExact'
    BY <1>1, <2>1, <2>2, <2>5, <2>9 DEF RingTyped, CountExact
  <2>13. RingFlags'
    BY <1>1, <2>2 DEF RingFlags
  <2>14. Endpoint'
    <3>1. hardware # NoSlot => hardware \in Slots /\ ring[hardware].state \notin {"READY", "READING"}
      BY <1>1 DEF Endpoint, NoOverwrite, RingTyped
    <3>2. NoOverwrite'
      BY <2>2, <2>5, <2>6, <3>1 DEF NoOverwrite
    <3>3. KeepsListening'
      BY <2>2 DEF KeepsListening, WillArm
    <3>4. s # NoSlot
      BY <2>1, Sizes
    <3>5. EndpointFollows'
      BY <1>1, <1>3, <2>2, <2>6, <2>7, <2>9, <3>4 DEF Endpoint, EndpointFollows, Configured, At
    <3>6. InHand'
      BY <2>5, <2>6, <3>4 DEF InHand, At
    <3> QED
      BY <3>2, <3>3, <3>5, <3>6 DEF Endpoint
  <2> QED
    BY <2>6, <2>11, <2>12, <2>13, <2>14 DEF RingInv
<1>7. CASE ~(~armed /\ Armable(ring, active))
  <2>1. /\ reader' = [reader EXCEPT !.pc = Done]
        /\ UNCHANGED <<ring, producer, consumer, active, armed, count, generation,
                       sequence, hardware, accepted, deaf, overtaken>>
    BY <1>7 DEF ChooseSlot, Goto
  <2>2. /\ reader'.pc \in {"IDLE", "GAP"} /\ reader'.known = reader.known
        /\ ReaderTyped' /\ (reader'.pc = "IDLE" => reader.known)
    BY <1>1, <2>1 DEF ReaderTyped, TaskPlaces, Done
  <2>3. ~At("HAVE")' /\ ~At("START")' /\ (At("IDLE")' => reader.known)
    BY <2>2 DEF At
  <2>4. \A st : InState(st)' = InState(st)
    BY <2>1 DEF InState
  <2>5. Waiting' = Waiting /\ Taken' = {} /\ Cursor' = Cursor
    BY <1>4, <2>1, <2>4 DEF Waiting, Taken, Cursor
  <2>6. InSequence'
    <3>1. \A s \in Slots : ring'[s].gen <= generation
      BY <1>1, <2>1 DEF InSequence, GenerationsRise
    <3>2. \A d \in InState({"DMA_ACTIVE"})' : d \in InState({"DMA_ACTIVE"}) /\ ring'[d].gen = ring[d].gen
      BY <2>1, <2>4
    <3>3. \A s \in Waiting : ring'[s] = ring[s]
      BY <2>1
    <3> QED
      BY <1>2, <1>3, <2>1, <2>2, <2>3, <2>5, <3>1, <3>2, <3>3, TaskData
  <2>7. (RingTyped /\ RingFlags /\ CountExact)'
    BY <1>1, <2>1, <2>4 DEF RingTyped, RingFlags, CountExact
  <2>8. Endpoint'
    <3>1. NoOverwrite'
      BY <1>1, <2>1, <2>2 DEF Endpoint, NoOverwrite
    <3>2. KeepsListening'
      <4>1. SUFFICES ASSUME ~armed PROVE InState({"READY", "READING"}) # {}
        BY <2>1, <2>4 DEF KeepsListening, WillArm
      <4>2. active = NoSlot /\ FreeSlots(ring) = {} /\ InState({"DMA_ACTIVE"}) = {}
        BY <1>1, <1>7, <4>1 DEF Armable, Endpoint, EndpointFollows
      <4>3. 0 \in Slots /\ ring[0] \in Entry
        BY <1>5, Sizes
      <4>4. ring[0].state \in {"READY", "READING"}
        BY <4>2, <4>3 DEF FreeSlots, InState, Entry
      <4> QED
        BY <4>3, <4>4 DEF InState
    <3>3. EndpointFollows'
      BY <1>1, <1>2, <1>3, <2>1, <2>3, <2>4 DEF Endpoint, EndpointFollows, Configured
    <3>4. InHand'
      BY <2>2 DEF InHand, At
    <3> QED
      BY <3>1, <3>2, <3>3, <3>4 DEF Endpoint
  <2> QED
    BY <2>2, <2>6, <2>7, <2>8 DEF RingInv
<1> QED
  BY <1>6, <1>7

(* The call of the stack.                                                  *)
LEMMA StartKeeps ==
  ASSUME RingInv, StartRead, UNCHANGED sessionVars
  PROVE  RingInv'
<1>1. RingTyped /\ ReaderTyped /\ RingFlags /\ CountExact /\ Endpoint /\ InSequence
  BY DEF RingInv
<1>2. PICK k : k = reader.slot
  OBVIOUS
<1>3. /\ reader.pc = "START" /\ At("START") /\ ~At("HAVE") /\ ~At("IDLE")
      /\ reader' = [reader EXCEPT !.pc = Done, !.slot = NoSlot]
      /\ UNCHANGED <<producer, consumer, count, generation, sequence, accepted, deaf, overtaken>>
  BY DEF StartRead, At
<1>4. /\ k \in Slots /\ k # NoSlot /\ ring[k].state \in {"FREE", "DMA_ACTIVE"}
      /\ active \in {k, NoSlot} /\ (active = NoSlot => ~Streaming("OUT"))
      /\ (armed <=> active # NoSlot) /\ InState({"DMA_ACTIVE"}) = {active} \ {NoSlot}
      /\ (hardware # NoSlot => Configured /\ "OUT" \in open)
  BY <1>1, <1>2, <1>3 DEF Endpoint, InHand, EndpointFollows, ReaderTyped
<1>5. /\ reader'.pc \in {"IDLE", "GAP"} /\ reader'.known = reader.known
      /\ ReaderTyped' /\ (reader'.pc = "IDLE" => reader.known)
  BY <1>1, <1>3 DEF ReaderTyped, TaskPlaces, Done
<1>6. ~At("HAVE")' /\ ~At("START")' /\ (At("IDLE")' => reader.known)
  BY <1>5 DEF At
<1>7. UNCHANGED <<used, bus, suspended, open>>
  BY DEF sessionVars
<1>8. Taken = {} /\ Waiting \subseteq Slots /\ k \notin Waiting
  BY <1>1, <1>3, <1>4 DEF InSequence, Continues, Waiting, InState
<1>9. ring \in [Slots -> Entry] /\ ring[k] \in Entry
  BY <1>1, <1>4 DEF RingTyped
<1> DEFINE Left == /\ ring' \in [Slots -> Entry]
                   /\ \A s \in Slots :
                        /\ ring'[s].gen = ring[s].gen
                        /\ ring'[s].state = ring[s].state
                           \/ (s = k /\ ring[s].state = "DMA_ACTIVE" /\ ring'[s].state = "FREE")
                   /\ \A s \in Waiting : ring'[s] = ring[s]
                   /\ armed' \in BOOLEAN
                   /\ active' \in {active, NoSlot} /\ hardware' \in {hardware, k}
                   /\ EndpointFollows' /\ KeepsListening'
                   /\ hardware' # NoSlot => hardware' = k
                   /\ InState({"DMA_ACTIVE"})' \subseteq InState({"DMA_ACTIVE"})
<1>10. ASSUME Configured, "OUT" \in open PROVE Left
  <2>1. hardware' = k /\ UNCHANGED <<ring, active, armed>>
    BY <1>2, <1>10 DEF StartRead
  <2>2. \A st : InState(st)' = InState(st)
    BY <2>1 DEF InState
  <2>3. Streaming("OUT") <=> ~suspended
    BY <1>10 DEF Streaming, Live
  <2>4. EndpointFollows'
    BY <1>4, <1>6, <1>7, <1>10, <2>1, <2>2, <2>3 DEF EndpointFollows, Configured
  <2>5. KeepsListening'
    BY <1>4, <1>7, <2>1 DEF KeepsListening, WillArm, Streaming, Live, Configured
  <2>6. armed' \in BOOLEAN
    BY <1>1, <2>1 DEF RingFlags
  <2> QED
    BY <1>9, <2>1, <2>2, <2>4, <2>5, <2>6
<1>11. ASSUME ~(Configured /\ "OUT" \in open) PROVE Left
  <2>1. /\ armed' = FALSE /\ hardware' = hardware /\ hardware = NoSlot
        /\ IF active = k THEN active' = NoSlot /\ ring' = [ring EXCEPT ![k].state = "FREE"]
           ELSE UNCHANGED <<ring, active>>
    BY <1>2, <1>4, <1>11 DEF StartRead
  <2>2. active' = NoSlot
    BY <1>4, <2>1
  <2>3. PICK e : e = [ring[k] EXCEPT !.state = "FREE"]
    OBVIOUS
  <2>4. e \in Entry /\ e.state = "FREE" /\ e.gen = ring[k].gen
    BY <1>9, <2>3 DEF Entry
  <2>5. active = k => ring[k].state = "DMA_ACTIVE"
    BY <1>4 DEF InState
  <2>6. /\ ring' \in [Slots -> Entry]
        /\ \A s \in Slots : s # k => ring'[s] = ring[s]
        /\ IF active = k THEN ring'[k] = e ELSE ring'[k] = ring[k]
    BY <1>4, <1>9, <2>1, <2>3, <2>4
  <2>7. /\ \A s \in Slots :
                        /\ ring'[s].gen = ring[s].gen
                        /\ ring'[s].state = ring[s].state
                           \/ (s = k /\ ring[s].state = "DMA_ACTIVE" /\ ring'[s].state = "FREE")
        /\ \A s \in Waiting : ring'[s] = ring[s]
    BY <1>4, <1>8, <2>4, <2>5, <2>6
  <2>8. InState({"DMA_ACTIVE"})' = {}
    BY <1>4, <2>4, <2>6 DEF InState
  <2>9. EndpointFollows'
    BY <1>6, <2>1, <2>2, <2>8 DEF EndpointFollows
  <2>10. KeepsListening'
    BY <1>7, <1>11 DEF KeepsListening, Streaming, Live, Configured
  <2> QED
    BY <2>1, <2>2, <2>6, <2>7, <2>8, <2>9, <2>10
<1>12. Left
  BY <1>10, <1>11
<1> HIDE DEF Left
<1>13. /\ Waiting' = Waiting /\ Taken' = {}
       /\ InState({"READY", "READING"})' = InState({"READY", "READING"})
  BY <1>8, <1>12 DEF Left, Waiting, Taken, InState
<1>14. Cursor' = Cursor
  BY <1>3, <1>8, <1>13 DEF Taken, Cursor
<1>15. InSequence'
  <2>1. \A s \in Slots : ring'[s].gen <= generation
    BY <1>1, <1>12 DEF Left, InSequence, GenerationsRise
  <2>2. \A d \in InState({"DMA_ACTIVE"})' : d \in InState({"DMA_ACTIVE"}) /\ ring'[d].gen = ring[d].gen
    BY <1>12 DEF Left, InState
  <2>3. \A s \in Waiting : ring'[s] = ring[s]
    BY <1>12 DEF Left
  <2> QED
    BY <1>3, <1>5, <1>6, <1>7, <1>13, <1>14, <2>1, <2>2, <2>3, TaskData
<1>16. RingTyped' /\ CountExact'
  BY <1>1, <1>3, <1>4, <1>12, <1>13 DEF Left, RingTyped, CountExact
<1>17. RingFlags'
  <2>1. {armed', deaf', overtaken'} \subseteq BOOLEAN
    BY <1>1, <1>3, <1>12 DEF Left, RingFlags
  <2> QED
    BY <2>1 DEF RingFlags
<1>18. Endpoint'
  <2>1. NoOverwrite'
    BY <1>4, <1>5, <1>12 DEF Left, NoOverwrite
  <2>2. InHand'
    BY <1>5 DEF InHand, At
  <2> QED
    BY <1>12, <2>1, <2>2 DEF Left, Endpoint
<1> QED
  BY <1>5, <1>15, <1>16, <1>17, <1>18 DEF RingInv

(* Where the session goes on, or the ring is not used, nothing changes.    *)
LEMMA SameSession ==
  ASSUME RingInv, UNCHANGED ringVars, UNCHANGED <<used, bus, suspended>>,
         "OUT" \in open' <=> "OUT" \in open
  PROVE  RingInv' /\ UNCHANGED accepted
<1>1. EndpointFollows
  BY DEF RingInv, Endpoint
<1>2. hardware # NoSlot => /\ Configured' /\ "OUT" \in open'
                           /\ ~suspended' => armed /\ ~At("START")
  BY <1>1 DEF EndpointFollows, Configured
<1>3. Streaming("OUT")' = Streaming("OUT")
  BY DEF Streaming, Live, Configured
<1>4. At("START") /\ active = NoSlot => ~Streaming("OUT")'
  BY <1>1, <1>3 DEF EndpointFollows, At
<1>5. Waiting' = Waiting /\ accepted' = accepted
  BY DEF ringVars, Waiting, InState
<1>6. RingEmptied => RingEmptied'
  BY <1>5 DEF RingEmptied
<1> QED
  BY <1>2, <1>3, <1>4, <1>5, <1>6, RingKept

LEMMA UnusedKeeps ==
  ASSUME RingInv, SessionOK, SessionOK', UNCHANGED ringVars, UNCHANGED used, "OUT" \notin used
  PROVE  RingInv' /\ UNCHANGED accepted
<1>1. "OUT" \notin open /\ "OUT" \notin open'
  BY DEF SessionOK
<1>2. hardware = NoSlot
  BY <1>1 DEF RingInv, Endpoint, EndpointFollows
<1>3. ~Streaming("OUT")' /\ ~RingEmptied
  BY <1>1 DEF Streaming, RingEmptied
<1>4. accepted' = accepted
  BY DEF ringVars
<1> QED
  BY <1>1, <1>2, <1>3, <1>4, RingKept

LEMMA CancelledKeeps ==
  ASSUME RingInv, SessionOK, SessionOK', NEW left, Cancelled(left), left \in {hardware, NoSlot},
         UNCHANGED used, ~Streaming("OUT")',
         left # NoSlot => Configured' /\ "OUT" \in open' /\ suspended'
  PROVE  RingInv' /\ UNCHANGED accepted
<1>1. CASE "OUT" \notin used
  BY <1>1, UnusedKeeps DEF Cancelled
<1>2. CASE "OUT" \in used
  <2>1. RingReset(TRUE) /\ hardware' = left /\ reader' = reader
    BY <1>2 DEF Cancelled
  <2>2. accepted' = accepted
    BY <2>1 DEF RingReset
  <2> QED
    BY <1>2, <2>1, <2>2, CancelKeeps
<1> QED
  BY <1>1, <1>2

(* Away from a session nothing is armed.                                   *)
LEMMA OffKeeps ==
  ASSUME RingInv, UNCHANGED ringVars, UNCHANGED <<used, open>>, ~Configured, ~Configured',
         bus' \in {"OFF", "ATTACHED"} \/ bus' = bus
  PROVE  RingInv' /\ UNCHANGED accepted
<1>1. hardware = NoSlot
  BY DEF RingInv, Endpoint, EndpointFollows
<1>2. ~Streaming("OUT")'
  BY DEF Streaming, Live
<1>3. Waiting' = Waiting /\ accepted' = accepted
  BY DEF ringVars, Waiting, InState
<1>4. RingEmptied => RingEmptied'
  BY <1>3 DEF RingEmptied
<1> QED
  BY <1>1, <1>2, <1>3, <1>4, RingKept

LEMMA NextRing ==
  ASSUME SessionOK, RingInv, [Next]_vars
  PROVE  RingInv' /\ NoHole
<1>1. SessionOK'
  BY NextSession
<1>2. EndpointFollows
  BY DEF RingInv, Endpoint
<1> DEFINE Goal == RingInv' /\ UNCHANGED accepted
<1>3. Goal => RingInv' /\ NoHole
  BY DEF NoHole
<1> HIDE DEF Goal
<1>4. CASE BusReset
  <2>1. open' = {} /\ UNCHANGED used /\ Cancelled(NoSlot)
    BY <1>4 DEF BusReset, SessionReset, IngressCancelled
  <2>2. ~Streaming("OUT")'
    BY <2>1 DEF Streaming
  <2>3. Goal
    BY <1>1, <2>1, <2>2, CancelledKeeps DEF Goal
  <2> QED
    BY <1>3, <2>3
<1>5. CASE BusSuspended
  <2>1. suspended' = TRUE /\ UNCHANGED <<used, bus, open>> /\ Cancelled(hardware)
    BY <1>5 DEF BusSuspended, SessionSuspend, IngressSuspended
  <2>2. hardware # NoSlot => Configured' /\ "OUT" \in open'
    BY <1>2, <2>1 DEF EndpointFollows, Configured
  <2>3. ~Streaming("OUT")'
    BY <2>1 DEF Streaming, Live
  <2>4. Goal
    BY <1>1, <2>1, <2>2, <2>3, CancelledKeeps DEF Goal
  <2> QED
    BY <1>3, <2>4
<1>6. CASE CloseOut
  <2>1. "OUT" \notin open' /\ UNCHANGED used /\ Cancelled(NoSlot)
    BY <1>6 DEF CloseOut, SessionClose, IngressCancelled
  <2>2. ~Streaming("OUT")'
    BY <2>1 DEF Streaming
  <2>3. Goal
    BY <1>1, <2>1, <2>2, CancelledKeeps DEF Goal
  <2> QED
    BY <1>3, <2>3
<1>7. CASE Restarted
  <2>1. bus' \in {"OFF", "ATTACHED"} /\ UNCHANGED <<used, open>> /\ IngressRestart
    BY <1>7 DEF Restarted, SessionRestart
  <2>2. ~Streaming("OUT")' /\ ~Configured'
    BY <2>1 DEF Streaming, Live, Configured
  <2>3. CASE bus = "OFF"
    <3>1. UNCHANGED ringVars /\ ~Configured
      BY <2>1, <2>3 DEF IngressRestart, Configured
    <3>2. Goal
      BY <2>1, <2>2, <3>1, OffKeeps DEF Goal
    <3> QED
      BY <1>3, <3>2
  <2>4. CASE bus # "OFF"
    <3>1. Cancelled(NoSlot)
      BY <2>1, <2>4 DEF IngressRestart, IngressCancelled
    <3>2. Goal
      BY <1>1, <2>1, <2>2, <3>1, CancelledKeeps DEF Goal
    <3> QED
      BY <1>3, <3>2
  <2> QED
    BY <2>3, <2>4
<1>8. CASE BusConfigured \/ BusResumed
  <2>1. /\ Settled /\ UNCHANGED <<used, open>> /\ ~suspended' /\ IngressArms
        /\ bus' = bus \/ (bus = "RESET" /\ bus' = "CONFIGURED")
        /\ ready' \/ (ready' = ready /\ bus' = bus)
    BY <1>8 DEF BusConfigured, BusResumed, SessionConfigured, SessionResume
  <2>2. UNCHANGED accepted
    BY <2>1 DEF IngressArms, ringVars
  <2>3. CASE ready'
    <3>1. RingInv'
      BY <2>1, <2>3, ArmsKeep
    <3>2. Goal
      BY <2>2, <3>1 DEF Goal
    <3> QED
      BY <1>3, <3>2
  <2>4. CASE ~ready'
    <3>1. UNCHANGED ringVars /\ ~Configured /\ ~Configured' /\ bus' = bus
      BY <2>1, <2>4 DEF IngressArms, SessionOK, Configured
    <3>2. Goal
      BY <2>1, <3>1, OffKeeps DEF Goal
    <3> QED
      BY <1>3, <3>2
  <2> QED
    BY <2>3, <2>4
<1>9. CASE OpenOut
  <2>1. RingInv' /\ UNCHANGED accepted
    BY <1>9, OpenKeeps DEF OpenOut, IngressOpened
  <2> QED
    BY <1>3, <2>1 DEF Goal
<1>10. CASE Started
  <2>1. UNCHANGED <<used, open>> /\ bus' \in {"OFF", "ATTACHED"} /\ IngressInitAgain
    BY <1>10 DEF Started, SessionInitAgain
  <2>2. RingInv' /\ UNCHANGED accepted
    BY <2>1, InitAgainKeeps DEF IngressInitAgain
  <2> QED
    BY <1>3, <2>2 DEF Goal
<1>11. CASE OpenMic \/ CloseMic \/ Quiet \/ InputSteps \/ MicSteps \/ OutputSteps
  <2>1. /\ UNCHANGED ringVars /\ UNCHANGED <<used, bus, suspended>>
        /\ "OUT" \in open' <=> "OUT" \in open
    BY <1>11 DEF OpenMic, CloseMic, SessionOpen, SessionClose, Quiet, InputSteps, InputOnly,
       MicSteps, MicOnly, OutputSteps, OutputOnly, sessionVars
  <2>2. Goal
    BY <2>1, SameSession DEF Goal
  <2> QED
    BY <1>3, <2>2
<1>12. CASE IngressSteps
  <2>1. UNCHANGED sessionVars
    BY <1>12 DEF IngressSteps
  <2>2. CASE TakePacket
    BY <1>3, <2>1, <2>2, TakeKeeps DEF Goal, TakePacket
  <2>3. CASE IngestPacket
    BY <2>1, <2>3, IngestKeeps, IngestTakes
  <2>4. CASE Release
    BY <1>3, <2>1, <2>4, ReleaseKeeps DEF Goal, Release
  <2>5. CASE LookBeforeArming
    BY <1>3, <2>1, <2>5, LookKeeps DEF Goal, LookBeforeArming
  <2>6. CASE ChooseSlot
    BY <1>3, <2>1, <2>6, ChooseKeeps DEF Goal, ChooseSlot
  <2>7. CASE StartRead
    BY <1>3, <2>1, <2>7, StartKeeps DEF Goal, StartRead
  <2>8. CASE GapReset \/ SettingResets
    <3>1. /\ RingReset(FALSE) /\ UNCHANGED hardware
          /\ reader' = reader \/ (At("GAP") /\ reader' = [reader EXCEPT !.pc = "IDLE"])
      BY <2>8 DEF GapReset, SettingResets, Goto
    <3>2. "OUT" \in used
      BY <2>8 DEF GapReset, SettingResets, At, RingInv, InSequence, GenerationsRise
    <3>3. RingInv'
      BY <2>1, <3>1, <3>2, SettingKeeps
    <3>4. UNCHANGED accepted
      BY <3>1 DEF RingReset
    <3> QED
      BY <1>3, <3>3, <3>4 DEF Goal
  <2>9. ASSUME NEW empty \in BOOLEAN, PacketDone(empty)
        PROVE  RingInv' /\ NoHole
    <3>1. UNCHANGED accepted
      BY <2>9 DEF PacketDone
    <3>2. empty = TRUE \/ empty = FALSE
      OBVIOUS
    <3>3. CASE empty = TRUE
      <4>1. PacketDone(TRUE)
        BY <2>9, <3>3
      <4> QED
        BY <1>3, <2>1, <3>1, <4>1, EmptyKeeps DEF Goal
    <3>4. CASE empty = FALSE
      <4>1. PacketDone(FALSE)
        BY <2>9, <3>4
      <4> QED
        BY <1>3, <2>1, <3>1, <4>1, PacketKeeps DEF Goal
    <3> QED
      BY <3>2, <3>3, <3>4
  <2> QED
    BY <1>12, <2>2, <2>3, <2>4, <2>5, <2>6, <2>7, <2>8, <2>9 DEF IngressSteps, IngressTask
<1> QED
  BY <1>4, <1>5, <1>6, <1>7, <1>8, <1>9, <1>10, <1>11, <1>12, Kinds

-----------------------------------------------------------------------------
(* The microphone                                                          *)

Cell == [state : {"FREE", "FILLING", "READY", "DMA_ACTIVE"}, data : Packets]
MicTyped ==
    /\ pcm \in [Places -> Cell]
    /\ codec \in [pc : {"IDLE", "DECODE", "FILL", "COMMIT"}, frame : Nat, chunk : Nat,
                  place : Places \cup {NoPlace}]
    /\ fill \in Places /\ next \in Places /\ opus \in Seq(Nat) /\ Len(opus) <= OpusDepth
    /\ received \in Nat /\ offered \in Nat /\ flushedAt \in Nat /\ micCount \in Nat
    /\ inHand \subseteq Nat /\ heard \in Packets
EndTyped ==
    /\ sending \in Places \cup {NoPlace} /\ micWire \in Places \cup {OnSilence, OnNothing}
    /\ enabled \in BOOLEAN /\ muted \in BOOLEAN
    /\ inBusy \in BOOLEAN /\ fresh \in BOOLEAN /\ cutShort \in BOOLEAN

LEMMA MicTypes == MicOK <=> MicTyped /\ EndTyped
<1>1. {received, offered, flushedAt, micCount} \cup inHand \subseteq Nat
        <=> received \in Nat /\ offered \in Nat /\ flushedAt \in Nat /\ micCount \in Nat /\ inHand \subseteq Nat
  OBVIOUS
<1>2. {enabled, muted, inBusy, fresh, cutShort} \subseteq BOOLEAN
        <=> enabled \in BOOLEAN /\ muted \in BOOLEAN /\ inBusy \in BOOLEAN
            /\ fresh \in BOOLEAN /\ cutShort \in BOOLEAN
  <2>1. \A a, b, c, d, e, S : {a, b, c, d, e} \subseteq S <=> a \in S /\ b \in S /\ c \in S /\ d \in S /\ e \in S
    OBVIOUS
  <2> QED
    BY ONLY <2>1, Zenon
<1>3. {fill, next} \subseteq Places <=> fill \in Places /\ next \in Places
  OBVIOUS
<1> QED
  BY <1>1, <1>2, <1>3 DEF MicOK, MicTyped, EndTyped, Cell

LEMMA PlaceSizes ==
  /\ MicDepth \in Nat \ {0} /\ Places = 0 .. MicDepth - 1 /\ NoPlace = MicDepth
  /\ OnSilence = MicDepth + 1 /\ OnNothing = MicDepth + 2
  /\ OpusDepth \in Nat \ {0} /\ Chunks \in Nat \ {0}
  /\ 0 \in Places /\ NoPlace \notin Places /\ OnSilence \notin Places /\ OnNothing \notin Places
  /\ OnSilence # OnNothing
<1>1. MicDepth \in Nat \ {0} /\ OpusDepth \in Nat \ {0} /\ Chunks \in Nat \ {0}
  BY MicAssumption
<1>2. \A D \in Nat \ {0} : /\ 0 \in 0 .. D - 1 /\ D \notin 0 .. D - 1 /\ D + 1 \notin 0 .. D - 1
                           /\ D + 2 \notin 0 .. D - 1 /\ D + 1 # D + 2
  OBVIOUS
<1>3. /\ 0 \in 0 .. MicDepth - 1 /\ MicDepth \notin 0 .. MicDepth - 1
      /\ MicDepth + 1 \notin 0 .. MicDepth - 1
      /\ MicDepth + 2 \notin 0 .. MicDepth - 1 /\ MicDepth + 1 # MicDepth + 2
  BY ONLY <1>1, <1>2, Zenon
<1> QED
  BY <1>1, <1>3 DEF Places, NoPlace, OnSilence, OnNothing

(* The place of a packet, and of the one after it.                         *)
LEMMA PlaceIs ==
  ASSUME NEW n \in Places, NEW i \in 0 .. MicDepth
  PROVE  /\ (n + i) % MicDepth = IF n + i < MicDepth THEN n + i ELSE n + i - MicDepth
         /\ (n + i) % MicDepth \in Places
<1>1. \A D \in Nat \ {0} : \A t \in 0 .. D - 1 : \A j \in 0 .. D :
         /\ (t + j) % D = IF t + j < D THEN t + j ELSE t + j - D
         /\ (t + j) % D \in 0 .. D - 1
  BY Wrap
<1>2. n \in 0 .. MicDepth - 1 /\ i \in 0 .. MicDepth /\ MicDepth \in Nat \ {0}
  BY PlaceSizes
<1>3. /\ (n + i) % MicDepth = IF n + i < MicDepth THEN n + i ELSE n + i - MicDepth
      /\ (n + i) % MicDepth \in 0 .. MicDepth - 1
  BY ONLY <1>1, <1>2, Zenon
<1> QED
  BY <1>3, PlaceSizes

LEMMA FollowingIs ==
  ASSUME NEW p \in Places
  PROVE  /\ MicAfter(p) = IF p + 1 < MicDepth THEN p + 1 ELSE 0
         /\ MicAfter(p) \in Places
<1>1. 1 \in 0 .. MicDepth
  BY PlaceSizes
<1>2. /\ (p + 1) % MicDepth = IF p + 1 < MicDepth THEN p + 1 ELSE p + 1 - MicDepth
      /\ (p + 1) % MicDepth \in Places
  BY <1>1, PlaceIs
<1> QED
  BY <1>2, PlaceSizes DEF MicAfter

(* Places of the window: the first, distinct ones, the next, and those of  *)
(* the window that begins one later.                                       *)
LEMMA WindowPlaces ==
  ASSUME NEW n \in Places
  PROVE  /\ (n + 0) % MicDepth = n /\ (n + MicDepth) % MicDepth = n
         /\ \A i \in 0 .. MicDepth : (n + i) % MicDepth \in Places
         /\ \A i, j \in 0 .. MicDepth - 1 : i # j => (n + i) % MicDepth # (n + j) % MicDepth
         /\ \A i \in 0 .. MicDepth - 1 : MicAfter((n + i) % MicDepth) = (n + (i + 1)) % MicDepth
         /\ \A i \in 0 .. MicDepth - 1 : (MicAfter(n) + i) % MicDepth = (n + (i + 1)) % MicDepth
<1>1. \A m \in Places : \A i \in 0 .. MicDepth :
         /\ (m + i) % MicDepth = IF m + i < MicDepth THEN m + i ELSE m + i - MicDepth
         /\ (m + i) % MicDepth \in Places
  BY PlaceIs
<1>2. \A p \in Places : MicAfter(p) = (IF p + 1 < MicDepth THEN p + 1 ELSE 0) /\ MicAfter(p) \in Places
  BY FollowingIs
<1>3. MicDepth \in Nat \ {0} /\ Places = 0 .. MicDepth - 1
  BY PlaceSizes
<1> DEFINE M(i) == (n + i) % MicDepth
<1>4. \A i \in 0 .. MicDepth :
         M(i) = (IF n + i < MicDepth THEN n + i ELSE n + i - MicDepth) /\ M(i) \in Places
  BY <1>1
<1>5. \A i \in 0 .. MicDepth - 1 : (MicAfter(n) + i) % MicDepth
         = IF MicAfter(n) + i < MicDepth THEN MicAfter(n) + i ELSE MicAfter(n) + i - MicDepth
  <2>1. PICK m \in Places : m = MicAfter(n)
    BY <1>2
  <2>2. \A i \in 0 .. MicDepth - 1 : i \in 0 .. MicDepth
    BY <1>3
  <2>3. \A i \in 0 .. MicDepth - 1 : (m + i) % MicDepth
          = IF m + i < MicDepth THEN m + i ELSE m + i - MicDepth
    BY ONLY <1>1, <2>2, m \in Places, Zenon
  <2> QED
    BY ONLY <2>1, <2>3
<1> HIDE DEF M
<1>6. n \in 0 .. MicDepth - 1 /\ 0 \in 0 .. MicDepth /\ MicDepth \in 0 .. MicDepth
  BY <1>3
<1>7. M(0) = n /\ M(MicDepth) = n
  BY <1>3, <1>4, <1>6
<1>8. ASSUME NEW i \in 0 .. MicDepth - 1, NEW j \in 0 .. MicDepth - 1, i # j
      PROVE  M(i) # M(j)
  <2>1. i \in 0 .. MicDepth /\ j \in 0 .. MicDepth
    BY <1>3
  <2>2. /\ M(i) = (IF n + i < MicDepth THEN n + i ELSE n + i - MicDepth)
        /\ M(j) = (IF n + j < MicDepth THEN n + j ELSE n + j - MicDepth)
    BY <1>4, <2>1
  <2> QED
    BY <1>3, <1>6, <1>8, <2>2
<1>9. ASSUME NEW i \in 0 .. MicDepth - 1
      PROVE  MicAfter(M(i)) = M(i + 1) /\ (MicAfter(n) + i) % MicDepth = M(i + 1)
  <2>1. i \in 0 .. MicDepth /\ i + 1 \in 0 .. MicDepth
    BY <1>3
  <2>2. /\ M(i) = (IF n + i < MicDepth THEN n + i ELSE n + i - MicDepth) /\ M(i) \in Places
        /\ M(i + 1) = (IF n + (i + 1) < MicDepth THEN n + (i + 1) ELSE n + (i + 1) - MicDepth)
    BY <1>4, <2>1
  <2>3. MicAfter(M(i)) = IF M(i) + 1 < MicDepth THEN M(i) + 1 ELSE 0
    BY <1>2, <2>2
  <2>4. MicAfter(M(i)) = M(i + 1)
    BY <1>3, <1>6, <2>2, <2>3
  <2>5. MicAfter(n) = IF n + 1 < MicDepth THEN n + 1 ELSE 0
    BY <1>2
  <2>6. (MicAfter(n) + i) % MicDepth = M(i + 1)
    BY <1>3, <1>5, <1>6, <2>2, <2>5
  <2> QED
    BY <2>4, <2>6
<1> QED
  BY <1>4, <1>7, <1>8, <1>9 DEF M

Window == Held({"READY", "DMA_ACTIVE"})
MicInv ==
    /\ MicTyped /\ EndTyped /\ MicCountExact /\ FlushForgets /\ (Stuck => cutShort)
    /\ WindowHolds /\ CodecHolds /\ InOrder

LEMMA HeldIn ==
  ASSUME NEW st
  PROVE  Held(st) \subseteq Places /\ IsFiniteSet(Held(st))
<1>1. MicDepth - 1 \in Int /\ 0 \in Int
  BY PlaceSizes
<1>2. IsFiniteSet(Places)
  BY <1>1, PlaceSizes, FS_Interval
<1>3. Held(st) \subseteq Places
  BY DEF Held
<1> QED
  BY <1>2, <1>3, FS_Subset

(* The places in use, counted from the cursor of the endpoint.             *)
LEMMA WindowIs ==
  ASSUME MicTyped, WindowHolds
  PROVE  /\ micCount \in 0 .. MicDepth /\ fill = OnItsPlace(micCount)
         /\ Window = {OnItsPlace(i) : i \in 0 .. micCount - 1}
         /\ Held({"DMA_ACTIVE"}) \subseteq {next}
         /\ Window # {} <=> micCount # 0
         /\ Window # {} => next \in Window
         /\ Window \subseteq Places
<1>1. /\ micCount \in 0 .. MicDepth /\ fill = OnItsPlace(micCount)
      /\ Window = {OnItsPlace(i) : i \in 0 .. micCount - 1}
      /\ Held({"DMA_ACTIVE"}) \subseteq {next}
  BY PlaceSizes DEF WindowHolds, Window, MicTyped
<1>2. OnItsPlace(0) = next
  BY WindowPlaces DEF OnItsPlace, MicTyped
<1>3. micCount = 0 => 0 .. micCount - 1 = {}
  OBVIOUS
<1>4. micCount # 0 => 0 \in 0 .. micCount - 1
  BY <1>1, PlaceSizes
<1>5. micCount # 0 => OnItsPlace(0) \in Window
  BY <1>1, <1>4
<1> QED
  BY <1>1, <1>2, <1>3, <1>5, HeldIn DEF Window

LEMMA MicSafe == MicInv => MicOK /\ MicCountExact /\ MicSound
<1> SUFFICES ASSUME MicInv PROVE MicOK /\ MicCountExact /\ MicSound
  OBVIOUS
<1>1. MicTyped /\ EndTyped /\ WindowHolds
  BY DEF MicInv
<1>2. Waits
  <2>1. SUFFICES ASSUME Held({"READY"}) # {} PROVE pcm[next].state \in {"READY", "DMA_ACTIVE"}
    BY DEF Waits
  <2>2. Window # {}
    BY <2>1 DEF Held, Window
  <2>3. next \in Window
    BY <1>1, <2>2, WindowIs
  <2> QED
    BY <2>3 DEF Window, Held
<1> QED
  BY <1>1, <1>2, MicTypes DEF MicInv, MicSound, MicFlows

LEMMA LaterTransitive ==
  ASSUME NEW a \in Packets, NEW b \in Packets, NEW c \in Packets, Later(a, b), Later(b, c)
  PROVE  Later(a, c)
BY DEF Later, Packets

LEMMA InitMic == Init => MicInv
<1> SUFFICES ASSUME Init PROVE MicInv
  OBVIOUS
<1>1. /\ enabled \in BOOLEAN /\ muted = FALSE /\ opus = <<>> /\ received = 0 /\ offered = 0
      /\ codec = CodecIdle /\ pcm = [p \in Places |-> [state |-> "FREE", data |-> Silence]]
      /\ fill = 0 /\ next = 0 /\ sending = NoPlace /\ micCount = 0
      /\ inBusy = FALSE /\ micWire = OnNothing /\ heard = Silence
      /\ flushedAt = 0 /\ inHand = {} /\ fresh = FALSE /\ cutShort = FALSE
  BY DEF Init, MicInit
<1>2. Silence \in Packets /\ Silence.frame = 0
  BY DEF Silence, Packets
<1>3. \A p \in Places : pcm[p].state = "FREE" /\ pcm[p] \in Cell
  BY <1>1, <1>2 DEF Cell
<1>4. pcm \in [Places -> Cell]
  BY <1>1, <1>3
<1>5. codec.pc = "IDLE" /\ codec.frame = 0 /\ codec \in [pc : {"IDLE", "DECODE", "FILL", "COMMIT"}, frame : Nat, chunk : Nat,
                  place : Places \cup {NoPlace}]
  BY <1>1 DEF CodecIdle
<1>6. opus \in Seq(Nat) /\ Len(opus) = 0 /\ DOMAIN opus = {}
  BY <1>1
<1>7. MicTyped
  BY <1>1, <1>2, <1>4, <1>5, <1>6, PlaceSizes DEF MicTyped
<1>8. EndTyped
  BY <1>1 DEF EndTyped
<1>9. \A st : "FREE" \notin st => Held(st) = {}
  BY <1>3 DEF Held
<1>10. MicCountExact
  BY <1>1, <1>9, FS_EmptySet DEF MicCountExact
<1>11. FlushForgets
  BY <1>6, <1>9 DEF FlushForgets, Queued
<1>12. ~Stuck
  BY <1>1, <1>3, PlaceSizes DEF Stuck
<1>13. WindowHolds
  <2>1. 0 .. micCount - 1 = {} /\ micCount <= MicDepth
    BY <1>1, PlaceSizes
  <2>2. fill = OnItsPlace(micCount)
    BY <1>1, PlaceSizes, WindowPlaces DEF OnItsPlace
  <2> QED
    BY <1>1, <1>9, <2>1, <2>2 DEF WindowHolds
<1>14. CodecHolds
  BY <1>1, <1>5, <1>9 DEF CodecHolds, Filling
<1>15. InOrder
  <2>1. 0 .. micCount - 1 = {}
    BY <1>1
  <2>2. Sent = {heard}
    BY <1>9 DEF Sent
  <2>3. Newer(received + 1)
    BY <1>1, <1>2, <1>5, <2>2 DEF Newer
  <2> QED
    BY <1>1, <1>5, <1>6, <1>9, <2>1, <2>3 DEF InOrder
<1> QED
  BY <1>7, <1>8, <1>10, <1>11, <1>12, <1>13, <1>14, <1>15 DEF MicInv

(* The steps of the endpoint: the packets in use stay, or the first goes.  *)
LEMMA MicMoves ==
  ASSUME MicInv, EndTyped', pcm' \in [Places -> Cell],
         \A p \in Places : pcm'[p].data = pcm[p].data,
         \A p \in Places : pcm[p].state = "FREE" => pcm'[p].state = "FREE",
         Held({"FILLING"})' = Held({"FILLING"}),
         UNCHANGED <<opus, received, offered, codec, fill, flushedAt, inHand>>,
         \/ UNCHANGED <<next, micCount, heard>> /\ Window' = Window
         \/ /\ next \in Window /\ Window' = Window \ {next} /\ next' = MicAfter(next)
            /\ micCount' = micCount - 1 /\ heard' \in {heard, pcm[next].data},
         Held({"DMA_ACTIVE"})' \subseteq {next'},
         sending' # NoPlace => /\ sending' = next' /\ next' \in Held({"DMA_ACTIVE"})'
                               /\ inBusy' \/ cutShort',
         next' \in Held({"DMA_ACTIVE"})' /\ sending' # next' => cutShort',
         fresh' /\ micWire' \in Places => micWire' = next' /\ sending' = next',
         micWire' # OnNothing => Configured'
  PROVE  MicInv'
<1>1. MicTyped /\ MicCountExact /\ FlushForgets /\ WindowHolds /\ CodecHolds /\ InOrder
  BY DEF MicInv
<1>2. PICK n \in Places : n = next' /\ (n = next \/ n = MicAfter(next))
  BY <1>1, FollowingIs DEF MicTyped
<1>3. next \in Places /\ micCount \in Nat /\ pcm \in [Places -> Cell] /\ heard \in Packets
  BY <1>1 DEF MicTyped
<1> DEFINE M(i) == (next + i) % MicDepth
           N(i) == (n + i) % MicDepth
<1>4. /\ micCount \in 0 .. MicDepth /\ fill = M(micCount)
      /\ Window = {M(i) : i \in 0 .. micCount - 1} /\ Window \subseteq Places
      /\ Window # {} <=> micCount # 0
  BY <1>1, WindowIs DEF OnItsPlace
<1>5. /\ M(0) = next /\ \A i \in 0 .. MicDepth : M(i) \in Places
      /\ \A i, j \in 0 .. MicDepth - 1 : i # j => M(i) # M(j)
      /\ \A i \in 0 .. MicDepth - 1 : (MicAfter(next) + i) % MicDepth = M(i + 1)
  BY <1>3, WindowPlaces
<1>6. n = MicAfter(next) => \A i \in 0 .. MicDepth - 1 : N(i) = M(i + 1)
  BY <1>5
<1>7. n = next => \A i : N(i) = M(i)
  OBVIOUS
<1>8. \A i : OnItsPlace(i)' = N(i)
  BY <1>2 DEF OnItsPlace
<1>9. \A i, j \in 0 .. micCount - 1 : i < j => Later(pcm[M(j)].data, pcm[M(i)].data)
  BY <1>1 DEF InOrder, OnItsPlace
<1> HIDE DEF M, N
<1>10. MicDepth \in Nat \ {0}
  BY PlaceSizes
(* The order, in the window as it is after the step.                       *)
<1>11. /\ micCount' \in 0 .. MicDepth /\ fill = N(micCount')
       /\ Window' = {N(i) : i \in 0 .. micCount' - 1}
       /\ \A i, j \in 0 .. micCount' - 1 : i < j => Later(pcm[N(j)].data, pcm[N(i)].data)
       /\ \A p \in Window' : Later(pcm[p].data, heard')
       /\ Window' \subseteq Window /\ heard' \in {heard, pcm[next].data}
       /\ heard' # heard => next \in Window
       /\ micCount' = Cardinality(Window')
  <2>1. \A p \in Window : Later(pcm[p].data, heard)
    BY <1>1 DEF InOrder, Window
  <2>2. micCount = Cardinality(Window)
    BY <1>1 DEF MicCountExact, Window
  <2>3. CASE UNCHANGED <<next, micCount, heard>> /\ Window' = Window
    BY <1>2, <1>4, <1>7, <1>9, <2>1, <2>2, <2>3
  <2>4. CASE /\ next \in Window /\ Window' = Window \ {next} /\ next' = MicAfter(next)
             /\ micCount' = micCount - 1 /\ heard' \in {heard, pcm[next].data}
    <3>1. micCount \in 1 .. MicDepth /\ micCount' \in 0 .. MicDepth - 1
      BY <1>4, <1>10, <2>4
    <3>2. \A i \in 0 .. MicDepth - 1 : N(i) = M(i + 1)
      BY <1>2, <1>6, <2>4
    <3>3. fill = N(micCount')
      BY <1>4, <1>10, <2>4, <3>1, <3>2
    <3>4. Window' = {M(i) : i \in 1 .. micCount - 1}
      <4>1. \A i \in 1 .. micCount - 1 : i \in 0 .. MicDepth - 1 /\ i # 0 /\ M(i) # next
        BY <1>5, <1>10, <3>1
      <4>2. 0 .. micCount - 1 = {0} \cup (1 .. micCount - 1)
        BY <3>1
      <4> QED
        BY <1>4, <1>5, <2>4, <4>1, <4>2
    <3>5. {M(i) : i \in 1 .. micCount - 1} = {N(i) : i \in 0 .. micCount' - 1}
      <4>1. ASSUME NEW i \in 1 .. micCount - 1 PROVE M(i) \in {N(k) : k \in 0 .. micCount' - 1}
        <5>1. i - 1 \in 0 .. micCount' - 1 /\ i - 1 \in 0 .. MicDepth - 1
          BY <1>10, <2>4, <3>1
        <5>2. N(i - 1) = M((i - 1) + 1) /\ (i - 1) + 1 = i
          BY <3>2, <5>1
        <5> QED
          BY <5>1, <5>2
      <4>2. ASSUME NEW i \in 0 .. micCount' - 1 PROVE N(i) \in {M(k) : k \in 1 .. micCount - 1}
        <5>1. i + 1 \in 1 .. micCount - 1 /\ i \in 0 .. MicDepth - 1
          BY <1>10, <2>4, <3>1
        <5> QED
          BY <3>2, <5>1
      <4> QED
        BY <4>1, <4>2
    <3>6. ASSUME NEW i \in 0 .. micCount' - 1, NEW j \in 0 .. micCount' - 1, i < j
          PROVE  Later(pcm[N(j)].data, pcm[N(i)].data)
      <4>1. /\ i + 1 \in 0 .. micCount - 1 /\ j + 1 \in 0 .. micCount - 1 /\ i + 1 < j + 1
            /\ i \in 0 .. MicDepth - 1 /\ j \in 0 .. MicDepth - 1
        BY <1>10, <2>4, <3>1, <3>6
      <4> QED
        BY <1>9, <3>2, <4>1
    <3>7. ASSUME NEW p \in Window' PROVE Later(pcm[p].data, heard')
      <4>1. CASE heard' = heard
        BY <2>1, <2>4, <4>1
      <4>2. CASE heard' = pcm[next].data
        <5>1. PICK i \in 1 .. micCount - 1 : p = M(i)
          BY <3>4
        <5>2. 0 \in 0 .. micCount - 1 /\ i \in 0 .. micCount - 1 /\ 0 < i
          BY <3>1
        <5>3. Later(pcm[M(i)].data, pcm[M(0)].data)
          BY <1>9, <5>2
        <5> QED
          BY <1>5, <4>2, <5>1, <5>3
      <4> QED
        BY <2>4, <4>1, <4>2
    <3>8. micCount' = Cardinality(Window')
      <4>1. IsFiniteSet(Window)
        BY HeldIn DEF Window
      <4> QED
        BY <2>2, <2>4, <4>1, FS_RemoveElement
    <3>9. micCount' \in 0 .. MicDepth
      BY <1>10, <3>1
    <3>10. Window' = {N(i) : i \in 0 .. micCount' - 1}
      BY <3>4, <3>5, Zenon
    <3>11. Window' \subseteq Window /\ heard' \in {heard, pcm[next].data} /\ next \in Window
      BY <2>4
    <3>12. \A i, j \in 0 .. micCount' - 1 : i < j => Later(pcm[N(j)].data, pcm[N(i)].data)
      BY <3>6
    <3>13. \A p \in Window' : Later(pcm[p].data, heard')
      BY <3>7
    <3> QED
      BY <3>3, <3>8, <3>9, <3>10, <3>11, <3>12, <3>13
  <2> QED
    BY <2>3, <2>4
<1>12. pcm[next].data \in Packets
  BY <1>3 DEF Cell
<1>13. MicTyped'
  BY <1>1, <1>2, <1>11, <1>12 DEF MicTyped
<1>14. MicCountExact'
  BY <1>11 DEF MicCountExact, Window
<1>15. Sent' \subseteq Sent
  <2>1. Sent = {heard} \cup {pcm[p].data : p \in Window}
    BY DEF Sent, Window
  <2>2. Sent' = {heard'} \cup {pcm'[p].data : p \in Window'}
    BY DEF Sent, Window
  <2>3. \A p \in Window' : p \in Places /\ p \in Window /\ pcm'[p].data = pcm[p].data
    BY <1>4, <1>11
  <2>4. heard' = heard \/ (next \in Window /\ heard' = pcm[next].data)
    BY <1>11
  <2>5. heard' \in Sent
    BY <2>1, <2>4
  <2>6. \A p \in Window' : pcm'[p].data \in Sent
    BY <2>1, <2>3
  <2> QED
    BY <2>2, <2>5, <2>6
<1>16. FlushForgets'
  <2>1. Queued' \subseteq Queued
    <3>1. \A p \in Window' : p \in Places /\ p \in Window /\ pcm'[p].data = pcm[p].data
      BY <1>4, <1>11
    <3> QED
      BY <3>1 DEF Queued, Window
  <2> QED
    BY <1>1, <2>1 DEF FlushForgets
<1>17. WindowHolds'
  <2>1. micCount' <= MicDepth
    BY <1>10, <1>11
  <2> QED
    BY <1>8, <1>11, <2>1 DEF WindowHolds, Window
<1>18. Stuck' => cutShort'
  BY <1>2 DEF Stuck, Held
<1>19. CodecHolds'
  <2>1. Filling => codec.place \in Places /\ pcm[codec.place].state \in {"FREE", "FILLING"}
    BY <1>1 DEF CodecHolds, MicTyped
  <2>2. \A p \in Places : pcm[p].state = "FILLING" => pcm'[p].state = "FILLING"
    BY DEF Held
  <2>3. Filling => pcm'[codec.place].state \in {"FREE", "FILLING"}
    BY <2>1, <2>2
  <2>4. codec.pc = "COMMIT" => pcm'[codec.place].data = pcm[codec.place].data
    BY <2>1 DEF Filling
  <2>5. /\ Held({"FILLING"}) \subseteq {fill} \cap {codec.place}
        /\ Held({"FILLING"}) # {} => Filling /\ OfNow(codec.frame)
        /\ Filling => codec.place # NoPlace
        /\ codec.pc = "DECODE" => OfNow(codec.frame)
        /\ codec.pc = "COMMIT" => pcm[codec.place].data = [frame |-> codec.frame, chunk |-> codec.chunk]
        /\ offered # 0 => OfNow(offered)
        /\ flushedAt <= received /\ offered <= received
    BY <1>1 DEF CodecHolds
  <2> QED
    BY <2>3, <2>4, <2>5 DEF CodecHolds, Filling, OfNow
<1>20. InOrder'
  <2>1. \A i, j \in 0 .. micCount' - 1 :
          i < j => Later(pcm'[N(j)].data, pcm'[N(i)].data)
    <3>1. \A i \in 0 .. micCount' - 1 : N(i) \in Places
      BY <1>4, <1>11
    <3> QED
      BY <1>11, <3>1
  <2>2. \A p \in Window' : Later(pcm'[p].data, heard')
    BY <1>4, <1>11
  <2>3. \A f : Newer(f) => Newer(f)'
    BY <1>15 DEF Newer
  <2>4. /\ \A p \in Held({"FILLING"}), d \in Sent :
              Later([frame |-> codec.frame, chunk |-> codec.chunk], d)
        /\ codec.pc = "DECODE" => \A d \in Sent : d.frame < codec.frame
        /\ \A i \in DOMAIN opus : Newer(opus[i]) /\ opus[i] <= received
        /\ \A i, j \in DOMAIN opus : i < j => opus[i] < opus[j]
        /\ offered # 0 => Newer(offered) /\ \A i \in DOMAIN opus : opus[i] < offered
        /\ Newer(received + 1)
    BY <1>1 DEF InOrder
  <2>5. /\ \A i \in DOMAIN opus : Newer(opus[i])'
        /\ offered # 0 => Newer(offered)'
        /\ Newer(received + 1)'
    BY <2>3, <2>4
  <2>6. /\ \A p \in Held({"FILLING"})', d \in Sent' :
              Later([frame |-> codec.frame, chunk |-> codec.chunk], d)
        /\ codec.pc = "DECODE" => \A d \in Sent' : d.frame < codec.frame
    BY <1>15, <2>4
  <2> QED
    BY <1>8, <2>1, <2>2, <2>4, <2>5, <2>6 DEF InOrder, Window
<1> QED
  BY <1>13, <1>14, <1>16, <1>17, <1>18, <1>19, <1>20 DEF MicInv

(* A flush of the queues.                                                  *)
LEMMA FlushKeeps ==
  ASSUME MicInv, EndTyped', pcm' = Emptied, opus' = <<>>, fill' = 0, next' = 0,
         sending' = NoPlace, micCount' = 0, NowFlushed,
         UNCHANGED <<received, offered, codec, heard>>,
         fresh' => micWire' \notin Places, micWire' # OnNothing => Configured'
  PROVE  MicInv'
<1>1. MicTyped /\ CodecHolds /\ InOrder
  BY DEF MicInv
<1>2. \A p \in Places : pcm[p] \in Cell
  BY <1>1 DEF MicTyped
<1>3. \A p \in Places : /\ [pcm[p] EXCEPT !.state = "FREE"] \in Cell
                        /\ [pcm[p] EXCEPT !.state = "FREE"].state = "FREE"
                        /\ [pcm[p] EXCEPT !.state = "FREE"].data = pcm[p].data
  BY <1>2 DEF Cell
<1>4. /\ pcm' \in [Places -> Cell]
      /\ \A p \in Places : pcm'[p].state = "FREE" /\ pcm'[p].data = pcm[p].data
  BY <1>3 DEF Emptied
<1>5. \A st : "FREE" \notin st => Held(st)' = {}
  BY <1>4 DEF Held
<1>6. opus' \in Seq(Nat) /\ Len(opus') = 0 /\ DOMAIN opus' = {}
  OBVIOUS
<1>7. /\ flushedAt' = received /\ cutShort' = FALSE
      /\ inHand' = {offered, IF codec.pc = "DECODE" THEN codec.frame ELSE 0} \ {0}
      /\ inHand' \subseteq Nat
  BY <1>1 DEF NowFlushed, MicTyped
<1>8. MicTyped'
  BY <1>1, <1>4, <1>6, <1>7, PlaceSizes DEF MicTyped
<1>9. MicCountExact'
  BY <1>5, FS_EmptySet DEF MicCountExact
<1>10. FlushForgets'
  BY <1>5, <1>6 DEF FlushForgets, Queued
<1>11. ~Stuck'
  BY <1>4, PlaceSizes DEF Stuck
<1>12. 0 .. micCount' - 1 = {}
  OBVIOUS
<1>13. WindowHolds'
  <2>1. (0 + 0) % MicDepth = 0
    BY PlaceSizes, WindowPlaces
  <2>2. fill' = OnItsPlace(micCount)'
    BY <2>1 DEF OnItsPlace
  <2>3. {OnItsPlace(i) : i \in 0 .. micCount - 1}' = {}
    BY <1>12
  <2>4. micCount' <= MicDepth
    BY PlaceSizes
  <2> QED
    BY <1>5, <2>2, <2>3, <2>4 DEF WindowHolds
<1>14. CodecHolds'
  <2>1. codec.pc = "DECODE" => codec.frame # 0
    <3>1. codec.pc = "DECODE" => heard.frame < codec.frame
      BY <1>1 DEF InOrder, Sent
    <3>2. heard.frame \in Nat /\ codec.frame \in Nat
      BY <1>1 DEF MicTyped, Packets
    <3> QED
      BY <3>1, <3>2
  <2>2. codec.pc = "DECODE" => codec.frame \in inHand'
    BY <1>7, <2>1
  <2>3. offered # 0 => offered \in inHand'
    BY <1>7
  <2>4. Filling => codec.place \in Places
    BY <1>1 DEF CodecHolds, MicTyped
  <2>5. codec.pc = "COMMIT" => pcm'[codec.place].data = [frame |-> codec.frame, chunk |-> codec.chunk]
    BY <1>1, <1>4, <2>4 DEF CodecHolds, Filling
  <2>6. flushedAt' <= received /\ offered <= received
    BY <1>1, <1>7 DEF MicTyped, CodecHolds
  <2>7. Filling => codec.place # NoPlace /\ pcm'[codec.place].state \in {"FREE", "FILLING"}
    BY <1>1, <1>4, <2>4 DEF CodecHolds
  <2> QED
    BY <1>5, <2>2, <2>3, <2>5, <2>6, <2>7 DEF CodecHolds, Filling, OfNow
<1>15. InOrder'
  <2>1. Sent' = {heard} /\ heard \in Sent
    BY <1>5 DEF Sent
  <2>2. \A f : Newer(f) => Newer(f)'
    BY <2>1 DEF Newer
  <2>3. /\ codec.pc = "DECODE" => \A d \in Sent : d.frame < codec.frame
        /\ offered # 0 => Newer(offered)
        /\ Newer(received + 1)
    BY <1>1 DEF InOrder
  <2>4. /\ offered # 0 => Newer(offered)'
        /\ Newer(received + 1)'
    BY <2>2, <2>3
  <2>5. codec.pc = "DECODE" => \A d \in Sent' : d.frame < codec.frame
    BY <2>1, <2>3
  <2> QED
    BY <1>5, <1>6, <1>12, <2>4, <2>5 DEF InOrder
<1> QED
  BY <1>8, <1>9, <1>10, <1>11, <1>13, <1>14, <1>15 DEF MicInv

(* The packets stay as they are, with the marks of the endpoint.           *)
LEMMA MicStill ==
  ASSUME MicInv, EndTyped',
         UNCHANGED <<pcm, opus, received, offered, codec, fill, flushedAt, inHand, next, micCount, heard>>,
         sending' = sending \/ (sending' = NoPlace /\ ~inBusy),
         cutShort => cutShort', inBusy => inBusy' \/ cutShort' \/ sending' = NoPlace,
         fresh' /\ micWire' \in Places => micWire' = next /\ sending' = next,
         micWire' # OnNothing => Configured'
  PROVE  MicInv'
<1>1. MicTyped /\ WindowHolds /\ (Stuck => cutShort)
  BY DEF MicInv
<1>2. \A st : Held(st)' = Held(st)
  BY DEF Held
<1>3. /\ Held({"DMA_ACTIVE"}) \subseteq {next}
      /\ sending # NoPlace => sending = next /\ next \in Held({"DMA_ACTIVE"}) /\ (inBusy \/ cutShort)
  BY <1>1 DEF WindowHolds
<1>4. next \in Held({"DMA_ACTIVE"}) /\ sending' # next => cutShort'
  BY <1>1, <1>3 DEF Stuck, Held
<1>5. Window' = Window
  BY <1>2 DEF Window
<1>6. pcm' \in [Places -> Cell]
  BY <1>1 DEF MicTyped
<1> QED
  BY <1>2, <1>3, <1>4, <1>5, <1>6, MicMoves

LEMMA StateEdit ==
  ASSUME NEW r \in [Places -> Cell], NEW p \in Places,
         NEW st \in {"FREE", "FILLING", "READY", "DMA_ACTIVE"}
  PROVE  /\ [r EXCEPT ![p].state = st] \in [Places -> Cell]
         /\ [r EXCEPT ![p].state = st][p].state = st
         /\ \A q \in Places : /\ [r EXCEPT ![p].state = st][q].data = r[q].data
                              /\ q # p => [r EXCEPT ![p].state = st][q] = r[q]
<1>1. r[p] \in Cell
  OBVIOUS
<1>2. PICK e : e = [r[p] EXCEPT !.state = st]
  OBVIOUS
<1>3. e \in Cell /\ e.state = st /\ e.data = r[p].data
  BY <1>1, <1>2 DEF Cell
<1>4. /\ [r EXCEPT ![p] = e] \in [Places -> Cell] /\ [r EXCEPT ![p] = e][p] = e
      /\ \A q \in Places : q # p => [r EXCEPT ![p] = e][q] = r[q]
  BY <1>3
<1>5. [r EXCEPT ![p].state = st] = [r EXCEPT ![p] = e]
  BY <1>2
<1> QED
  BY <1>3, <1>4, <1>5

(* The endpoint begins to send the packet that waits at its cursor.        *)
LEMMA MicSends ==
  ASSUME MicInv, EndTyped', pcm[next].state = "READY",
         pcm' = [pcm EXCEPT ![next].state = "DMA_ACTIVE"],
         sending' = next, micWire' = next, inBusy' = TRUE, Configured',
         UNCHANGED <<opus, received, offered, codec, fill, flushedAt, inHand, next, micCount, heard>>
  PROVE  MicInv'
<1>1. MicTyped /\ WindowHolds
  BY DEF MicInv
<1>2. next \in Places /\ pcm \in [Places -> Cell]
  BY <1>1 DEF MicTyped
<1>3. /\ pcm' \in [Places -> Cell] /\ pcm'[next].state = "DMA_ACTIVE"
      /\ \A q \in Places : pcm'[q].data = pcm[q].data /\ (q # next => pcm'[q] = pcm[q])
  <2>1. "DMA_ACTIVE" \in {"FREE", "FILLING", "READY", "DMA_ACTIVE"}
    OBVIOUS
  <2>2. \A st \in {"FREE", "FILLING", "READY", "DMA_ACTIVE"} :
           /\ [pcm EXCEPT ![next].state = st] \in [Places -> Cell]
           /\ [pcm EXCEPT ![next].state = st][next].state = st
           /\ \A q \in Places : /\ [pcm EXCEPT ![next].state = st][q].data = pcm[q].data
                                /\ q # next => [pcm EXCEPT ![next].state = st][q] = pcm[q]
    BY <1>2, StateEdit
  <2> QED
    BY <2>1, <2>2
<1>4. Window' = Window /\ Held({"FILLING"})' = Held({"FILLING"})
  BY <1>2, <1>3 DEF Window, Held
<1>5. Held({"DMA_ACTIVE"})' = {next}
  BY <1>1, <1>2, <1>3 DEF WindowHolds, Held
<1>6. \A p \in Places : pcm[p].state = "FREE" => pcm'[p].state = "FREE"
  BY <1>3
<1> QED
  BY <1>3, <1>4, <1>5, <1>6, MicMoves

(* The bus is configured or resumed.                                       *)
LEMMA MicArmsKeeps ==
  ASSUME MicInv, MicArms, Configured => Configured'
  PROVE  MicInv'
<1>1. MicTyped /\ EndTyped /\ WindowHolds /\ InOrder
  BY DEF MicInv
<1>2. /\ ArmIn(pcm, next, inBusy)
      /\ UNCHANGED <<enabled, muted, opus, received, offered, codec, fill, next,
                     micCount, heard, flushedAt, inHand, cutShort>>
  BY DEF MicArms
<1>3. micWire # OnNothing => Configured
  BY <1>1 DEF WindowHolds
<1>4. fresh /\ micWire \in Places => micWire = next /\ sending = next
  BY <1>1 DEF InOrder
<1>5. CASE pcm' = pcm /\ inBusy' = inBusy /\ UNCHANGED <<sending, micWire, fresh>>
  <2>1. EndTyped'
    BY <1>1, <1>2, <1>5 DEF EndTyped
  <2> QED
    BY <1>2, <1>3, <1>4, <1>5, <2>1, MicStill
<1>6. CASE /\ ~inBusy /\ ~Configured' /\ pcm' = pcm /\ inBusy' = inBusy /\ sending' = NoPlace
           /\ UNCHANGED <<micWire, fresh>>
  <2>1. EndTyped'
    BY <1>1, <1>2, <1>6 DEF EndTyped
  <2>2. micWire = OnNothing
    BY <1>3, <1>6
  <2> QED
    BY <1>2, <1>6, <2>1, <2>2, PlaceSizes, MicStill
<1>7. CASE /\ ~inBusy /\ Configured' /\ inBusy' = TRUE /\ fresh' = TRUE /\ pcm[next].state = "READY"
           /\ pcm' = [pcm EXCEPT ![next].state = "DMA_ACTIVE"] /\ sending' = next /\ micWire' = next
  <2>1. EndTyped'
    BY <1>1, <1>2, <1>7 DEF EndTyped, MicTyped
  <2> QED
    BY <1>2, <1>7, <2>1, MicSends
<1>8. CASE /\ ~inBusy /\ Configured' /\ inBusy' = TRUE /\ fresh' = TRUE /\ pcm' = pcm
           /\ sending' = NoPlace /\ micWire' = OnSilence
  <2>1. EndTyped'
    BY <1>1, <1>2, <1>8 DEF EndTyped
  <2> QED
    BY <1>2, <1>8, <2>1, PlaceSizes, MicStill
<1> QED
  BY <1>2, <1>5, <1>6, <1>7, <1>8 DEF ArmIn

(* The callback of the endpoint; the host hears what was sent, in order.   *)
LEMMA SentKeeps ==
  ASSUME MicInv, SessionOK, PacketSent, UNCHANGED sessionVars
  PROVE  MicInv' /\ HeardInOrder
<1>1. MicTyped /\ EndTyped /\ WindowHolds /\ InOrder
  BY DEF MicInv
<1>2. /\ Configured /\ Configured' /\ ready' /\ "MIC" \in open' /\ micWire # OnNothing
  BY DEF PacketSent, Streaming, Live, Configured, SessionOK, sessionVars
<1>3. UNCHANGED <<enabled, muted, opus, received, offered, codec, fill, flushedAt, inHand, cutShort>>
  BY DEF PacketSent
<1>4. heard' = IF micWire = OnSilence \/ ~fresh THEN heard ELSE pcm[micWire].data
  BY DEF PacketSent
<1>5. sending # NoPlace => sending = next /\ next \in Held({"DMA_ACTIVE"})
  BY <1>1 DEF WindowHolds
<1>6. fresh /\ micWire \in Places => micWire = next /\ sending = next
  BY <1>1 DEF InOrder
<1>7. micWire \in Places \cup {OnSilence}
  BY <1>1, <1>2 DEF EndTyped
<1>8. Finished = IF sending = NoPlace THEN {} ELSE {next}
  BY <1>5, PlaceSizes DEF Finished, Held
<1>9. next \in Places /\ pcm \in [Places -> Cell]
  BY <1>1 DEF MicTyped
<1>10. "FREE" \in {"FREE", "FILLING", "READY", "DMA_ACTIVE"}
       /\ "DMA_ACTIVE" \in {"FREE", "FILLING", "READY", "DMA_ACTIVE"}
  OBVIOUS
<1>11. CASE sending = NoPlace
  <2>1. UNCHANGED <<next, micCount>> /\ ArmIn(pcm, next, FALSE)
    BY <1>8, <1>11 DEF PacketSent
  <2>2. /\ inBusy' = TRUE /\ fresh' = TRUE
        /\ IF pcm[next].state = "READY"
           THEN pcm' = [pcm EXCEPT ![next].state = "DMA_ACTIVE"] /\ sending' = next /\ micWire' = next
           ELSE pcm' = pcm /\ sending' = NoPlace /\ micWire' = OnSilence
    BY <1>2, <2>1 DEF ArmIn
  <2>3. heard' = heard
    BY <1>4, <1>6, <1>7, <1>9, <1>11, PlaceSizes
  <2>4. EndTyped'
    BY <1>1, <1>3, <1>9, <2>2 DEF EndTyped
  <2>5. MicInv'
    <3>1. CASE pcm[next].state = "READY"
      BY <1>2, <1>3, <2>1, <2>2, <2>3, <2>4, <3>1, MicSends
    <3>2. CASE pcm[next].state # "READY"
      BY <1>2, <1>3, <1>11, <2>1, <2>2, <2>3, <2>4, <3>2, PlaceSizes, MicStill
    <3> QED
      BY <3>1, <3>2
  <2> QED
    BY <2>3, <2>5 DEF HeardInOrder
<1>12. CASE sending # NoPlace
  <2>1. sending = next /\ pcm[next].state = "DMA_ACTIVE" /\ next \in Window
    BY <1>5, <1>9, <1>12 DEF Held, Window
  <2>2. /\ next' = MicAfter(next) /\ ArmIn(FreedBy(next), MicAfter(next), FALSE)
        /\ micCount' = IF micCount > 0 THEN micCount - 1 ELSE micCount
    BY <1>8, <1>12 DEF PacketSent
  <2>3. PICK n \in Places : n = MicAfter(next)
    BY <1>9, FollowingIs
  <2>4. PICK r : r = [pcm EXCEPT ![next].state = "FREE"]
    OBVIOUS
  <2>5. /\ inBusy' = TRUE /\ fresh' = TRUE
        /\ IF r[n].state = "READY"
           THEN pcm' = [r EXCEPT ![n].state = "DMA_ACTIVE"] /\ sending' = n /\ micWire' = n
           ELSE pcm' = r /\ sending' = NoPlace /\ micWire' = OnSilence
    BY <1>2, <2>2, <2>3, <2>4 DEF ArmIn, FreedBy
  <2>6. /\ r \in [Places -> Cell] /\ r[next].state = "FREE"
        /\ \A q \in Places : r[q].data = pcm[q].data /\ (q # next => r[q] = pcm[q])
    <3>1. \A st \in {"FREE", "FILLING", "READY", "DMA_ACTIVE"} :
             /\ [pcm EXCEPT ![next].state = st] \in [Places -> Cell]
             /\ [pcm EXCEPT ![next].state = st][next].state = st
             /\ \A q \in Places : /\ [pcm EXCEPT ![next].state = st][q].data = pcm[q].data
                                  /\ q # next => [pcm EXCEPT ![next].state = st][q] = pcm[q]
      BY <1>9, StateEdit
    <3> QED
      BY <1>10, <2>4, <3>1
  <2>7. /\ pcm' \in [Places -> Cell]
        /\ \A q \in Places : pcm'[q].data = r[q].data /\ (q # n => pcm'[q] = r[q])
        /\ r[n].state = "READY" => pcm'[n].state = "DMA_ACTIVE" /\ sending' = n /\ micWire' = n
        /\ r[n].state # "READY" => pcm' = r /\ sending' = NoPlace /\ micWire' = OnSilence
    <3>1. CASE r[n].state = "READY"
      <4>1. \A st \in {"FREE", "FILLING", "READY", "DMA_ACTIVE"} :
               /\ [r EXCEPT ![n].state = st] \in [Places -> Cell]
               /\ [r EXCEPT ![n].state = st][n].state = st
               /\ \A q \in Places : /\ [r EXCEPT ![n].state = st][q].data = r[q].data
                                    /\ q # n => [r EXCEPT ![n].state = st][q] = r[q]
        <5>1. n \in Places /\ r \in [Places -> Cell]
          BY <1>9, <2>3, <2>6, FollowingIs
        <5> QED
          BY ONLY <5>1, StateEdit
      <4>2. PICK m : m = [r EXCEPT ![n].state = "DMA_ACTIVE"]
        OBVIOUS
      <4>3. /\ m \in [Places -> Cell] /\ m[n].state = "DMA_ACTIVE"
            /\ \A q \in Places : m[q].data = r[q].data /\ (q # n => m[q] = r[q])
        BY ONLY <1>10, <4>1, <4>2
      <4>4. pcm' = m /\ sending' = n /\ micWire' = n
        BY <2>5, <3>1, <4>2
      <4> QED
        BY <3>1, <4>3, <4>4
    <3>2. CASE r[n].state # "READY"
      BY <2>5, <2>6, <3>2
    <3> QED
      BY <3>1, <3>2
  <2>8. /\ \A p \in Places : pcm'[p].data = pcm[p].data
        /\ \A p \in Places : pcm[p].state = "FREE" => pcm'[p].state = "FREE"
        /\ Window' = Window \ {next} /\ Held({"FILLING"})' = Held({"FILLING"})
    <3>1. \A p \in Places : pcm'[p].data = pcm[p].data
      BY <2>6, <2>7
    <3>2. \A p \in Places :
            pcm'[p].state = IF p = next THEN "FREE"
                            ELSE IF p = n /\ pcm[p].state = "READY" THEN "DMA_ACTIVE" ELSE pcm[p].state
      <4>1. r[n].state = "READY" => n # next
        BY <2>6
      <4> QED
        BY <2>6, <2>7, <4>1
    <3>3. Window' = Window \ {next} /\ Held({"FILLING"})' = Held({"FILLING"})
      BY <2>1, <3>2 DEF Window, Held
    <3>4. \A p \in Places : pcm[p].state = "FREE" => pcm'[p].state = "FREE"
      BY <3>2
    <3> QED
      BY <3>1, <3>3, <3>4
  <2>9. Held({"DMA_ACTIVE"})' = IF r[n].state = "READY" THEN {n} ELSE {}
    <3>1. \A q \in Places : q # next => pcm[q].state # "DMA_ACTIVE"
      BY <1>1 DEF WindowHolds, Held
    <3>2. \A q \in Places : r[q].state # "DMA_ACTIVE"
      BY <2>6, <3>1
    <3> QED
      BY <2>7, <3>2 DEF Held
  <2>10. micCount' = micCount - 1
    <3>1. micCount # 0 /\ micCount \in Nat
      BY <1>1, <2>1, WindowIs DEF MicTyped
    <3> QED
      BY <2>2, <3>1
  <2>11. heard' \in {heard, pcm[next].data}
    BY <1>4, <1>6, <1>7
  <2>12. EndTyped'
    BY <1>1, <1>3, <2>5, <2>7 DEF EndTyped
  <2>13. MicInv'
    <3>1. Held({"DMA_ACTIVE"})' \subseteq {next'}
      BY <2>2, <2>3, <2>9
    <3>2. sending' # NoPlace => sending' = next' /\ next' \in Held({"DMA_ACTIVE"})' /\ inBusy'
      BY <2>2, <2>3, <2>5, <2>7, <2>9
    <3>3. next' \in Held({"DMA_ACTIVE"})' => sending' = next'
      BY <2>2, <2>3, <2>7, <2>9
    <3>4. micWire' \in Places => micWire' = next' /\ sending' = next'
      BY <2>2, <2>3, <2>7, PlaceSizes
    <3> QED
      BY <1>2, <1>3, <2>1, <2>2, <2>7, <2>8, <2>10, <2>11, <2>12, <3>1, <3>2, <3>3, <3>4, MicMoves
  <2>14. HeardInOrder
    <3>1. Later(pcm[next].data, heard)
      BY <1>1, <2>1 DEF InOrder, Window
    <3> QED
      BY <2>11, <3>1 DEF HeardInOrder
  <2> QED
    BY <2>13, <2>14
<1> QED
  BY <1>11, <1>12

(* The settings, a suspension, and the end of a session without an event.  *)
LEMMA MicEventKeeps ==
  ASSUME MicInv,
         \/ MicReset \/ MicInitAgain \/ MicRestart
         \/ MicOpened /\ Configured'
         \/ (MicSuspended \/ SetMute \/ EnableMic) /\ UNCHANGED bus
  PROVE  MicInv' /\ UNCHANGED heard
<1>1. MicTyped /\ EndTyped /\ WindowHolds /\ InOrder
  BY DEF MicInv
<1>2. micWire # OnNothing => Configured
  BY <1>1 DEF WindowHolds
<1>3. fresh /\ micWire \in Places => micWire = next /\ sending = next
  BY <1>1 DEF InOrder
<1>4. ASSUME Flush, UNCHANGED <<received, offered, codec, heard>>, EndTyped',
             micWire' # OnNothing => Configured'
      PROVE  MicInv'
  BY <1>4, FlushKeeps DEF Flush
<1>5. CASE MicReset
  <2>1. EndTyped'
    BY <1>1, <1>5 DEF MicReset, Flush, NowFlushed, EndTyped
  <2> QED
    BY <1>4, <1>5, <2>1 DEF MicReset
<1>6. CASE MicOpened /\ Configured'
  <2>1. EndTyped'
    BY <1>1, <1>6 DEF MicOpened, NowFlushed, EndTyped
  <2> QED
    BY <1>6, <2>1, FlushKeeps, PlaceSizes DEF MicOpened
<1>7. CASE MicInitAgain
  <2>1. EndTyped'
    BY <1>1, <1>7 DEF MicInitAgain, Flush, NowFlushed, EndTyped
  <2> QED
    BY <1>4, <1>7, <2>1 DEF MicInitAgain
<1>8. CASE MicSuspended /\ UNCHANGED bus
  <2>1. EndTyped'
    BY <1>1, <1>8 DEF MicSuspended, EndTyped
  <2>2. sending # NoPlace => cutShort'
    BY <1>8 DEF MicSuspended
  <2>3. cutShort => cutShort'
    BY <1>8 DEF MicSuspended
  <2>4. micWire' # OnNothing => Configured'
    BY <1>2, <1>8 DEF MicSuspended, Configured
  <2>5. fresh' = FALSE /\ sending' = sending
    BY <1>8 DEF MicSuspended
  <2>6. inBusy => inBusy' \/ cutShort' \/ sending' = NoPlace
    BY <2>2, <2>5
  <2> QED
    BY <1>8, <2>1, <2>3, <2>4, <2>5, <2>6, MicStill DEF MicSuspended
<1>9. CASE MicRestart
  <2>1. EndTyped'
    BY <1>1, <1>9 DEF MicRestart, EndTyped, history
  <2> QED
    BY <1>9, <2>1, MicStill, PlaceSizes DEF MicRestart, history
<1>10. CASE SetMute /\ UNCHANGED bus
  <2>1. micWire' # OnNothing => Configured'
    BY <1>2, <1>10 DEF SetMute, Configured
  <2>2. CASE muted'
    <3>1. EndTyped'
      BY <1>1, <1>10, <2>2 DEF SetMute, Flush, NowFlushed, EndTyped
    <3> QED
      BY <1>4, <1>10, <2>1, <2>2, <3>1 DEF SetMute
  <2>3. CASE ~muted'
    <3>1. EndTyped'
      BY <1>1, <1>10, <2>3 DEF SetMute, EndTyped, history
    <3> QED
      BY <1>3, <1>10, <2>1, <2>3, <3>1, MicStill DEF SetMute, history
  <2> QED
    BY <2>2, <2>3
<1>11. CASE EnableMic /\ UNCHANGED bus
  <2>1. micWire' # OnNothing => Configured'
    BY <1>2, <1>11 DEF EnableMic, Configured
  <2>2. EndTyped'
    BY <1>1, <1>11 DEF EnableMic, Flush, NowFlushed, EndTyped
  <2> QED
    BY <1>4, <1>11, <2>1, <2>2 DEF EnableMic
<1> QED
  BY <1>5, <1>6, <1>7, <1>8, <1>9, <1>10, <1>11

(* The steps of the Opus queue leave the packets.                          *)
LEMMA PacketsKept ==
  ASSUME MicInv, UNCHANGED <<enabled, muted, pcm, fill, next, sending, micCount, inBusy, micWire,
                             heard, flushedAt, inHand, fresh, cutShort, bus>>
  PROVE  /\ EndTyped' /\ MicCountExact' /\ WindowHolds' /\ (Stuck => cutShort)'
         /\ Sent' = Sent /\ \A st : Held(st)' = Held(st)
         /\ \A f : OfNow(f)' = OfNow(f)
         /\ \A i, j \in 0 .. micCount' - 1 :
               i < j => Later(pcm'[OnItsPlace(j)'].data, pcm'[OnItsPlace(i)'].data)
         /\ \A p \in Window' : Later(pcm'[p].data, heard')
         /\ fresh' /\ micWire' \in Places => micWire' = next' /\ sending' = next'
<1>1. /\ EndTyped /\ MicCountExact /\ WindowHolds /\ (Stuck => cutShort) /\ InOrder
  BY DEF MicInv
<1>2. \A st : Held(st)' = Held(st)
  BY DEF Held
<1>3. \A i : OnItsPlace(i)' = OnItsPlace(i)
  BY DEF OnItsPlace
<1>4. EndTyped' /\ MicCountExact' /\ (Stuck => cutShort)'
  BY <1>1, <1>2 DEF EndTyped, MicCountExact, Stuck
<1>5. WindowHolds'
  BY <1>1, <1>2, <1>3 DEF WindowHolds, Configured
<1>6. Sent' = Sent /\ \A f : OfNow(f)' = OfNow(f)
  BY <1>2 DEF Sent, OfNow
<1>7. Window' = Window
  BY <1>2 DEF Window
<1> QED
  BY <1>1, <1>2, <1>3, <1>4, <1>5, <1>6, <1>7 DEF InOrder, Window

(* The look at the settings.                                               *)
LEMMA ArrivesKeeps ==
  ASSUME MicInv, FrameArrives, UNCHANGED bus
  PROVE  MicInv' /\ UNCHANGED heard
<1>1. MicTyped /\ FlushForgets /\ CodecHolds /\ InOrder
  BY DEF MicInv
<1>2. /\ offered = 0 /\ received' = received + 1 /\ offered' = received + 1
      /\ UNCHANGED <<enabled, muted, opus, codec, pcm, fill, next, sending,
                     micCount, inBusy, micWire, heard, flushedAt, inHand, fresh, cutShort>>
  BY DEF FrameArrives, history
<1>3. /\ EndTyped' /\ MicCountExact' /\ WindowHolds' /\ (Stuck => cutShort)'
      /\ Sent' = Sent /\ \A st : Held(st)' = Held(st)
      /\ \A f : OfNow(f)' = OfNow(f)
      /\ \A i, j \in 0 .. micCount' - 1 :
            i < j => Later(pcm'[OnItsPlace(j)'].data, pcm'[OnItsPlace(i)'].data)
      /\ \A p \in Window' : Later(pcm'[p].data, heard')
      /\ fresh' /\ micWire' \in Places => micWire' = next' /\ sending' = next'
  BY <1>2, PacketsKept
<1>4. received \in Nat /\ flushedAt \in Nat /\ offered \in Nat /\ flushedAt <= received
  BY <1>1 DEF MicTyped, CodecHolds
<1>5. MicTyped'
  BY <1>1, <1>2, <1>4 DEF MicTyped
<1>6. FlushForgets'
  BY <1>1, <1>2, <1>3 DEF FlushForgets, Queued
<1>7. CodecHolds'
  <2>1. OfNow(received + 1)
    BY <1>4 DEF OfNow
  <2>2. flushedAt' <= received' /\ offered' <= received'
    BY <1>2, <1>4
  <2> QED
    BY <1>1, <1>2, <1>3, <2>1, <2>2 DEF CodecHolds, Filling
<1>8. InOrder'
  <2>1. \A f : Newer(f)' = Newer(f)
    BY <1>2, <1>3 DEF Newer
  <2>2. /\ \A i \in DOMAIN opus : Newer(opus[i]) /\ opus[i] <= received
        /\ \A i, j \in DOMAIN opus : i < j => opus[i] < opus[j]
        /\ Newer(received + 1)
        /\ \A p \in Held({"FILLING"}), d \in Sent :
              Later([frame |-> codec.frame, chunk |-> codec.chunk], d)
        /\ codec.pc = "DECODE" => \A d \in Sent : d.frame < codec.frame
    BY <1>1 DEF InOrder
  <2>3. opus \in Seq(Nat) /\ \A i \in DOMAIN opus : opus[i] \in Nat
    BY <1>1 DEF MicTyped
  <2>4. \A i \in DOMAIN opus : opus[i] <= received' /\ opus[i] < offered'
    BY <1>2, <1>4, <2>2, <2>3
  <2>5. Newer(received' + 1)
    <3>1. \A d \in Sent : d.frame \in Nat
      BY <1>1 DEF Sent, MicTyped, Held, Cell, Packets
    <3>2. codec.frame \in Nat
      BY <1>1 DEF MicTyped
    <3> QED
      BY <1>2, <1>4, <2>2, <3>1, <3>2 DEF Newer
  <2> QED
    BY <1>2, <1>3, <2>1, <2>2, <2>4, <2>5 DEF InOrder, Window
<1> QED
  BY <1>2, <1>3, <1>5, <1>6, <1>7, <1>8 DEF MicInv

(* The queue that keeps the newest frames.                                 *)
LEMMA KeptIs ==
  ASSUME NEW q \in Seq(Nat), Len(q) <= OpusDepth
  PROVE  /\ Kept(q) \in Seq(Nat) /\ Len(Kept(q)) < OpusDepth
         /\ \E k \in {0, 1} : \A i \in 1 .. Len(Kept(q)) :
               i + k \in 1 .. Len(q) /\ Kept(q)[i] = q[i + k]
<1>1. OpusDepth \in Nat \ {0} /\ Len(q) \in Nat
  BY PlaceSizes
<1>2. CASE Len(q) >= OpusDepth
  <2>1. q # <<>> /\ Kept(q) = Tail(q)
    BY <1>1, <1>2 DEF Kept
  <2>2. /\ Tail(q) \in Seq(Nat) /\ Len(Tail(q)) = Len(q) - 1
        /\ \A i \in 1 .. Len(Tail(q)) : Tail(q)[i] = q[i + 1]
    BY <2>1
  <2>3. \A i \in 1 .. Len(Tail(q)) : i + 1 \in 1 .. Len(q)
    BY <1>1, <2>2
  <2> QED
    BY <1>1, <1>2, <2>1, <2>2, <2>3
<1>3. CASE ~(Len(q) >= OpusDepth)
  <2>1. Kept(q) = q
    BY <1>3 DEF Kept
  <2>2. \A i \in 1 .. Len(q) : i + 0 \in 1 .. Len(q) /\ q[i] = q[i + 0]
    BY <1>1
  <2> QED
    BY <1>1, <1>3, <2>1, <2>2
<1> QED
  BY <1>2, <1>3

LEMMA StoreKeeps ==
  ASSUME MicInv, StoreFrame, UNCHANGED bus
  PROVE  MicInv' /\ UNCHANGED heard
<1>1. MicTyped /\ FlushForgets /\ CodecHolds /\ InOrder
  BY DEF MicInv
<1>2. /\ offered # 0 /\ opus' = Append(Kept(opus), offered) /\ offered' = 0
      /\ UNCHANGED <<enabled, muted, received, codec, pcm, fill, next, sending,
                     micCount, inBusy, micWire, heard, flushedAt, inHand, fresh, cutShort>>
  BY DEF StoreFrame, history
<1>3. /\ EndTyped' /\ MicCountExact' /\ WindowHolds' /\ (Stuck => cutShort)'
      /\ Sent' = Sent /\ \A st : Held(st)' = Held(st)
      /\ \A f : OfNow(f)' = OfNow(f)
      /\ \A i, j \in 0 .. micCount' - 1 :
            i < j => Later(pcm'[OnItsPlace(j)'].data, pcm'[OnItsPlace(i)'].data)
      /\ \A p \in Window' : Later(pcm'[p].data, heard')
      /\ fresh' /\ micWire' \in Places => micWire' = next' /\ sending' = next'
  BY <1>2, PacketsKept
<1>4. PICK q : q = Kept(opus)
  OBVIOUS
<1>5. opus \in Seq(Nat) /\ Len(opus) <= OpusDepth /\ offered \in Nat /\ DOMAIN opus = 1 .. Len(opus)
  BY <1>1 DEF MicTyped
<1>6. /\ q \in Seq(Nat) /\ Len(q) < OpusDepth
      /\ \E k \in {0, 1} : \A i \in 1 .. Len(q) : i + k \in 1 .. Len(opus) /\ q[i] = opus[i + k]
  BY <1>4, <1>5, KeptIs
<1>7. PICK k \in {0, 1} : \A i \in 1 .. Len(q) : i + k \in 1 .. Len(opus) /\ q[i] = opus[i + k]
  BY <1>6
<1>8. /\ opus' \in Seq(Nat) /\ Len(opus') = Len(q) + 1 /\ DOMAIN opus' = 1 .. Len(q) + 1
      /\ \A i \in 1 .. Len(q) : opus'[i] = q[i]
      /\ opus'[Len(q) + 1] = offered
  BY <1>2, <1>4, <1>5, <1>6
<1>9. Len(q) \in Nat /\ OpusDepth \in Nat
  BY <1>6, PlaceSizes
<1>10. \A i \in 1 .. Len(q) + 1 : i \in 1 .. Len(q) \/ i = Len(q) + 1
  BY <1>9
<1>11. \A i \in DOMAIN opus' :
         \/ i = Len(q) + 1 /\ opus'[i] = offered
         \/ i \in 1 .. Len(q) /\ i + k \in DOMAIN opus /\ opus'[i] = opus[i + k]
  BY <1>5, <1>7, <1>8, <1>10
<1>12. MicTyped'
  BY <1>1, <1>2, <1>6, <1>8, <1>9 DEF MicTyped
<1>13. OfNow(offered) /\ offered <= received /\ flushedAt <= received
  BY <1>1, <1>2 DEF CodecHolds
<1>14. FlushForgets'
  <2>1. Queued' \subseteq Queued \cup {offered}
    BY <1>2, <1>3, <1>11 DEF Queued
  <2>2. offered \in 1 .. flushedAt => offered \in inHand
    BY <1>1, <1>5, <1>13 DEF OfNow, MicTyped
  <2> QED
    BY <1>1, <1>2, <2>1, <2>2 DEF FlushForgets
<1>15. CodecHolds'
  <2>1. offered' <= received'
    BY <1>1, <1>2 DEF MicTyped
  <2> QED
    BY <1>1, <1>2, <1>3, <2>1 DEF CodecHolds, Filling
<1>16. InOrder'
  <2>1. \A f : Newer(f)' = Newer(f)
    BY <1>2, <1>3 DEF Newer
  <2>2. /\ \A i \in DOMAIN opus : Newer(opus[i]) /\ opus[i] <= received /\ opus[i] < offered
        /\ \A i, j \in DOMAIN opus : i < j => opus[i] < opus[j]
        /\ Newer(received + 1) /\ Newer(offered)
        /\ \A p \in Held({"FILLING"}), d \in Sent :
              Later([frame |-> codec.frame, chunk |-> codec.chunk], d)
        /\ codec.pc = "DECODE" => \A d \in Sent : d.frame < codec.frame
    BY <1>1, <1>2 DEF InOrder
  <2>3. \A i \in DOMAIN opus' : Newer(opus'[i]) /\ opus'[i] <= received
    BY <1>11, <1>13, <2>2
  <2>4. ASSUME NEW i \in DOMAIN opus', NEW j \in DOMAIN opus', i < j
        PROVE  opus'[i] < opus'[j]
    <3>1. i \in 1 .. Len(q) /\ i + k \in DOMAIN opus /\ opus'[i] = opus[i + k]
      BY <1>8, <1>9, <1>11, <2>4
    <3>2. CASE j = Len(q) + 1
      BY <1>8, <2>2, <3>1, <3>2
    <3>3. CASE j # Len(q) + 1
      <4>1. j \in 1 .. Len(q) /\ j + k \in DOMAIN opus /\ opus'[j] = opus[j + k] /\ i + k < j + k
        BY <1>9, <1>11, <2>4, <3>1, <3>3
      <4> QED
        BY <2>2, <3>1, <4>1
    <3> QED
      BY <3>2, <3>3
  <2> QED
    BY <1>2, <1>3, <2>1, <2>2, <2>3, <2>4 DEF InOrder, Window
<1> QED
  BY <1>2, <1>3, <1>12, <1>14, <1>15, <1>16 DEF MicInv

(* take_mic_opus.                                                          *)
LEMMA TakeFrameKeeps ==
  ASSUME MicInv, TakeFrame, UNCHANGED bus
  PROVE  MicInv' /\ UNCHANGED heard
<1>1. MicTyped /\ FlushForgets /\ CodecHolds /\ InOrder
  BY DEF MicInv
<1>2. /\ codec.pc = "IDLE" /\ opus # <<>> /\ opus' = Tail(opus)
      /\ codec' = [CodecIdle EXCEPT !.pc = "DECODE", !.frame = Head(opus)]
      /\ UNCHANGED <<enabled, muted, received, offered, pcm, fill, next, sending,
                     micCount, inBusy, micWire, heard, flushedAt, inHand, fresh, cutShort>>
  BY DEF TakeFrame, history
<1>3. /\ EndTyped' /\ MicCountExact' /\ WindowHolds' /\ (Stuck => cutShort)'
      /\ Sent' = Sent /\ \A st : Held(st)' = Held(st)
      /\ \A f : OfNow(f)' = OfNow(f)
      /\ \A i, j \in 0 .. micCount' - 1 :
            i < j => Later(pcm'[OnItsPlace(j)'].data, pcm'[OnItsPlace(i)'].data)
      /\ \A p \in Window' : Later(pcm'[p].data, heard')
      /\ fresh' /\ micWire' \in Places => micWire' = next' /\ sending' = next'
  BY <1>2, PacketsKept
<1>4. opus \in Seq(Nat) /\ Len(opus) <= OpusDepth /\ OpusDepth \in Nat /\ Len(opus) \in Nat
  BY <1>1, PlaceSizes DEF MicTyped
<1>5. /\ opus' \in Seq(Nat) /\ Len(opus') = Len(opus) - 1 /\ DOMAIN opus' = 1 .. Len(opus) - 1
      /\ \A i \in 1 .. Len(opus) - 1 : opus'[i] = opus[i + 1]
      /\ Head(opus) = opus[1] /\ 1 \in DOMAIN opus /\ DOMAIN opus = 1 .. Len(opus)
      /\ Head(opus) \in Nat
  BY <1>2, <1>4
<1>6. PICK h \in Nat : h = Head(opus) /\ h = opus[1]
  BY <1>5
<1>7. codec' = [pc |-> "DECODE", frame |-> h, chunk |-> 0, place |-> NoPlace]
  BY <1>2, <1>6 DEF CodecIdle
<1>8. \A i \in DOMAIN opus' : i + 1 \in DOMAIN opus /\ 1 < i + 1 /\ opus'[i] = opus[i + 1]
  <2>1. \A n \in Nat : \A i \in 1 .. n - 1 : i + 1 \in 1 .. n /\ 1 < i + 1
    OBVIOUS
  <2>2. \A i \in 1 .. Len(opus) - 1 : i + 1 \in 1 .. Len(opus) /\ 1 < i + 1
    BY ONLY <1>4, <2>1, Zenon
  <2> QED
    BY ONLY <1>5, <2>2
<1>9. MicTyped'
  BY <1>1, <1>2, <1>4, <1>5, <1>7 DEF MicTyped
<1>10. /\ \A i \in DOMAIN opus : Newer(opus[i]) /\ opus[i] <= received
       /\ \A i, j \in DOMAIN opus : i < j => opus[i] < opus[j]
       /\ Newer(received + 1)
       /\ offered # 0 => Newer(offered) /\ \A i \in DOMAIN opus : opus[i] < offered
  BY <1>1 DEF InOrder
<1>11. /\ \A d \in Sent : d.frame < h
       /\ h <= received /\ h # 0
  <2>1. heard \in Sent /\ heard.frame \in Nat
    BY <1>1 DEF Sent, MicTyped, Packets
  <2>2. \A d \in Sent : d.frame < h
    BY <1>5, <1>6, <1>10 DEF Newer
  <2> QED
    BY <1>5, <1>6, <1>10, <2>1, <2>2
<1>12. OfNow(h)
  <2>1. h \in Queued
    BY <1>5, <1>6 DEF Queued
  <2>2. flushedAt \in Nat
    BY <1>1 DEF MicTyped
  <2>3. h \in 1 .. flushedAt => h \in inHand
    BY <1>1, <2>1 DEF FlushForgets
  <2> QED
    BY <1>11, <2>2, <2>3 DEF OfNow
<1>13. FlushForgets'
  <2>1. Queued' \subseteq Queued
    BY <1>2, <1>3, <1>8 DEF Queued
  <2> QED
    BY <1>1, <1>2, <2>1 DEF FlushForgets
<1>14. Held({"FILLING"}) = {}
  BY <1>1, <1>2 DEF CodecHolds, Filling
<1>15. CodecHolds'
  <2>1. codec'.pc = "DECODE" /\ codec'.frame = h
    BY <1>7
  <2>2. ~Filling' /\ OfNow(codec'.frame)
    BY <1>12, <2>1 DEF Filling
  <2>3. Held({"FILLING"})' = {}
    BY <1>3, <1>14
  <2>4. (offered # 0 => OfNow(offered)) /\ flushedAt <= received /\ offered <= received
    BY <1>1 DEF CodecHolds
  <2>5. OfNow(codec.frame)' /\ (offered # 0 => OfNow(offered))'
    BY <1>2, <2>2, <2>4 DEF OfNow
  <2> QED
    BY <1>2, <2>1, <2>2, <2>3, <2>4, <2>5 DEF CodecHolds
<1>16. InOrder'
  <2>1. codec'.pc = "DECODE" /\ codec'.frame = h
    BY <1>7
  <2>2. \A f : Newer(f) => \A d \in Sent' : d.frame < f
    BY <1>3 DEF Newer
  <2>3. \A i \in DOMAIN opus' : /\ \A d \in Sent' : d.frame < opus'[i]
                               /\ h < opus'[i] /\ opus'[i] <= received
    BY <1>5, <1>6, <1>8, <1>10, <2>2
  <2>4. \A i, j \in DOMAIN opus' : i < j => opus'[i] < opus'[j]
    <3>1. \A n \in Nat : \A i, j \in 1 .. n - 1 : i < j => i + 1 < j + 1
      OBVIOUS
    <3>2. \A i, j \in DOMAIN opus' : i < j => i + 1 < j + 1
      BY ONLY <1>4, <1>5, <3>1
    <3> QED
      BY ONLY <1>8, <1>10, <3>2
  <2>5. offered # 0 => /\ \A d \in Sent' : d.frame < offered
                       /\ h < offered /\ \A i \in DOMAIN opus' : opus'[i] < offered
    BY <1>5, <1>6, <1>8, <1>10, <2>2
  <2>6. (\A d \in Sent' : d.frame < received + 1) /\ h < received + 1
    BY <1>1, <1>10, <1>11, <2>2 DEF MicTyped
  <2>7. Held({"FILLING"})' = {} /\ \A d \in Sent' : d.frame < h
    BY <1>3, <1>11, <1>14
  <2>8. \A i \in DOMAIN opus' : /\ \A d \in Sent' : d.frame < opus'[i]
                               /\ codec'.frame < opus'[i] /\ opus'[i] <= received'
    BY <1>2, <2>1, <2>3
  <2>9. offered' # 0 => /\ \A d \in Sent' : d.frame < offered'
                        /\ codec'.frame < offered' /\ \A i \in DOMAIN opus' : opus'[i] < offered'
    BY <1>2, <2>1, <2>5
  <2>10. (\A d \in Sent' : d.frame < received' + 1) /\ codec'.frame < received' + 1
    BY <1>2, <2>1, <2>6
  <2>11. codec'.pc = "DECODE" => \A d \in Sent' : d.frame < codec'.frame
    BY <2>1, <2>7
  <2> QED
    BY <1>3, <2>4, <2>7, <2>8, <2>9, <2>10, <2>11 DEF InOrder, Newer, Window
<1> QED
  BY <1>2, <1>3, <1>9, <1>13, <1>15, <1>16 DEF MicInv

(* The codec task changes a place that is not in use, or lets it go.       *)
LEMMA CodecMoves ==
  ASSUME MicInv,
         UNCHANGED <<enabled, muted, opus, received, offered, fill, next, sending, micCount, inBusy,
                     micWire, heard, flushedAt, inHand, fresh, cutShort, bus>>,
         pcm' \in [Places -> Cell],
         codec' \in [pc : {"IDLE", "DECODE", "FILL", "COMMIT"}, frame : Nat, chunk : Nat,
                     place : Places \cup {NoPlace}],
         Window' = Window, Held({"DMA_ACTIVE"})' = Held({"DMA_ACTIVE"}),
         \A p \in Window : pcm'[p].data = pcm[p].data,
         CodecHolds', codec'.pc # "DECODE",
         codec'.pc # "IDLE" => codec.pc # "IDLE" /\ codec'.frame = codec.frame,
         \A p \in Held({"FILLING"})', d \in Sent :
            Later([frame |-> codec'.frame, chunk |-> codec'.chunk], d)
  PROVE  MicInv'
<1>1. /\ MicTyped /\ EndTyped /\ MicCountExact /\ FlushForgets /\ (Stuck => cutShort)
      /\ WindowHolds /\ InOrder
  BY DEF MicInv
<1>2. MicTyped' /\ EndTyped'
  BY <1>1 DEF MicTyped, EndTyped
<1>3. MicCountExact'
  BY <1>1 DEF MicCountExact, Window
<1>4. Sent' = Sent
  BY DEF Sent, Window
<1>5. FlushForgets'
  <2>1. Queued' = Queued
    BY DEF Queued, Window
  <2> QED
    BY <1>1, <2>1 DEF FlushForgets
<1>6. (Stuck => cutShort)'
  <2>1. next \in Places
    BY <1>1 DEF MicTyped
  <2>2. (pcm'[next].state = "DMA_ACTIVE") <=> (pcm[next].state = "DMA_ACTIVE")
    BY <2>1 DEF Held
  <2> QED
    BY <1>1, <2>2 DEF Stuck
<1>7. \A i : OnItsPlace(i)' = OnItsPlace(i)
  BY DEF OnItsPlace
<1>8. WindowHolds'
  BY <1>1, <1>7 DEF WindowHolds, Window, Configured
<1>9. InOrder'
  <2>1. \A i, j \in 0 .. micCount - 1 : i < j => Later(pcm[OnItsPlace(j)].data, pcm[OnItsPlace(i)].data)
    BY <1>1 DEF InOrder
  <2>2. \A i \in 0 .. micCount - 1 : OnItsPlace(i) \in Window
    BY <1>1, WindowIs
  <2>3. \A i, j \in 0 .. micCount' - 1 : i < j => Later(pcm'[OnItsPlace(j)'].data, pcm'[OnItsPlace(i)'].data)
    BY <1>7, <2>1, <2>2
  <2>4. \A p \in Window' : Later(pcm'[p].data, heard')
    BY <1>1 DEF InOrder, Window
  <2>5. \A f : Newer(f) => (\A d \in Sent' : d.frame < f) /\ (codec'.pc # "IDLE" => codec'.frame < f)
    BY <1>4 DEF Newer
  <2>6. /\ \A i \in DOMAIN opus' : opus'[i] <= received' /\ (\A d \in Sent' : d.frame < opus'[i])
                                  /\ (codec'.pc # "IDLE" => codec'.frame < opus'[i])
        /\ \A i, j \in DOMAIN opus' : i < j => opus'[i] < opus'[j]
    BY <1>1, <2>5 DEF InOrder
  <2>7. /\ offered' # 0 => /\ \A d \in Sent' : d.frame < offered'
                           /\ codec'.pc # "IDLE" => codec'.frame < offered'
                           /\ \A i \in DOMAIN opus' : opus'[i] < offered'
        /\ \A d \in Sent' : d.frame < received' + 1
        /\ codec'.pc # "IDLE" => codec'.frame < received' + 1
    BY <1>1, <2>5 DEF InOrder
  <2>8. fresh' /\ micWire' \in Places => micWire' = next' /\ sending' = next'
    BY <1>1 DEF InOrder
  <2> QED
    BY <1>4, <2>3, <2>4, <2>6, <2>7, <2>8 DEF InOrder, Newer, Window
<1> QED
  BY <1>2, <1>3, <1>5, <1>6, <1>8, <1>9 DEF MicInv

LEMMA CodecStops ==
  ASSUME MicInv, Held({"FILLING"}) = {}, codec' = CodecIdle, UNCHANGED pcm,
         UNCHANGED <<enabled, muted, opus, received, offered, fill, next, sending, micCount, inBusy,
                     micWire, heard, flushedAt, inHand, fresh, cutShort, bus>>
  PROVE  MicInv'
<1>1. MicTyped /\ CodecHolds
  BY DEF MicInv
<1>2. \A st : Held(st)' = Held(st)
  BY DEF Held
<1>3. /\ codec' \in [pc : {"IDLE", "DECODE", "FILL", "COMMIT"}, frame : Nat, chunk : Nat,
                     place : Places \cup {NoPlace}]
      /\ codec'.pc = "IDLE"
  BY DEF CodecIdle
<1>4. Window' = Window /\ pcm' \in [Places -> Cell]
  BY <1>1, <1>2 DEF Window, MicTyped
<1>5. CodecHolds'
  BY <1>1, <1>2, <1>3 DEF CodecHolds, Filling, OfNow
<1> QED
  BY <1>2, <1>3, <1>4, <1>5, CodecMoves

(* push_mic_pcm_stereo takes the place at its cursor, if it is free.       *)
LEMMA DecodedKeeps ==
  ASSUME MicInv, Decoded, UNCHANGED bus
  PROVE  MicInv' /\ UNCHANGED heard
<1>1. MicTyped /\ CodecHolds /\ InOrder
  BY DEF MicInv
<1>2. /\ codec.pc = "DECODE"
      /\ Reserve(fill) \/ (codec' = CodecIdle /\ UNCHANGED pcm)
      /\ UNCHANGED <<enabled, muted, opus, received, offered, fill, next, sending, micCount, inBusy,
                     micWire, heard, flushedAt, inHand, fresh, cutShort, bus>>
  BY DEF Decoded, history
<1>3. Held({"FILLING"}) = {} /\ OfNow(codec.frame)
  <2>1. ~Filling
    BY <1>2 DEF Filling
  <2> QED
    BY <1>1, <1>2, <2>1 DEF CodecHolds
<1>4. CASE codec' = CodecIdle /\ UNCHANGED pcm
  BY <1>2, <1>3, <1>4, CodecStops
<1>5. CASE /\ pcm[fill].state = "FREE" /\ pcm' = [pcm EXCEPT ![fill].state = "FILLING"]
           /\ codec' = [codec EXCEPT !.pc = "FILL", !.chunk = 1, !.place = fill]
  <2>1. fill \in Places /\ pcm \in [Places -> Cell] /\ fill # NoPlace
    BY <1>1, PlaceSizes DEF MicTyped
  <2>2. /\ pcm' \in [Places -> Cell] /\ pcm'[fill].state = "FILLING"
        /\ \A q \in Places : pcm'[q].data = pcm[q].data /\ (q # fill => pcm'[q] = pcm[q])
    <3>1. \A st \in {"FREE", "FILLING", "READY", "DMA_ACTIVE"} :
             /\ [pcm EXCEPT ![fill].state = st] \in [Places -> Cell]
             /\ [pcm EXCEPT ![fill].state = st][fill].state = st
             /\ \A q \in Places : /\ [pcm EXCEPT ![fill].state = st][q].data = pcm[q].data
                                  /\ q # fill => [pcm EXCEPT ![fill].state = st][q] = pcm[q]
      BY <2>1, StateEdit
    <3> QED
      BY <1>5, <3>1
  <2>3. /\ codec' \in [pc : {"IDLE", "DECODE", "FILL", "COMMIT"}, frame : Nat, chunk : Nat,
                       place : Places \cup {NoPlace}]
        /\ codec'.pc = "FILL" /\ codec'.frame = codec.frame /\ codec'.place = fill
    BY <1>1, <1>5, <2>1 DEF MicTyped
  <2>4. /\ Window' = Window /\ Held({"DMA_ACTIVE"})' = Held({"DMA_ACTIVE"})
        /\ Held({"FILLING"})' = {fill}
    BY <1>3, <1>5, <2>1, <2>2 DEF Window, Held
  <2>5. CodecHolds'
    <3>1. OfNow(codec.frame)' /\ (offered # 0 => OfNow(offered))' /\ flushedAt <= received /\ offered <= received
      BY <1>1, <1>2, <1>3, <2>3 DEF OfNow, CodecHolds
    <3> QED
      BY <1>2, <2>1, <2>2, <2>3, <2>4, <3>1 DEF CodecHolds, Filling
  <2>6. \A d \in Sent : Later([frame |-> codec'.frame, chunk |-> codec'.chunk], d)
    <3>1. \A d \in Sent : d.frame < codec.frame
      BY <1>1, <1>2 DEF InOrder
    <3>2. codec.frame \in Nat /\ \A d \in Sent : d.frame \in Nat
      BY <1>1 DEF Sent, MicTyped, Held, Cell, Packets
    <3> QED
      BY <2>3, <3>1, <3>2 DEF Later
  <2>7. \A p \in Window : pcm'[p].data = pcm[p].data
    BY <2>2, HeldIn DEF Window
  <2>8. codec'.pc # "DECODE" /\ codec.pc # "IDLE"
    BY <1>2, <2>3
  <2> QED
    BY <1>2, <2>2, <2>3, <2>4, <2>5, <2>6, <2>7, <2>8, CodecMoves
<1> QED
  BY <1>2, <1>4, <1>5 DEF Reserve

(* The samples go into the place, which no packet in use has.              *)
LEMMA WriteKeeps ==
  ASSUME MicInv, WriteSamples, UNCHANGED bus
  PROVE  MicInv' /\ UNCHANGED heard
<1>1. MicTyped /\ CodecHolds /\ InOrder
  BY DEF MicInv
<1>2. /\ codec.pc = "FILL" /\ codec' = [codec EXCEPT !.pc = "COMMIT"]
      /\ pcm' = [pcm EXCEPT ![codec.place].data = [frame |-> codec.frame, chunk |-> codec.chunk]]
      /\ UNCHANGED <<enabled, muted, opus, received, offered, fill, next, sending, micCount, inBusy,
                     micWire, heard, flushedAt, inHand, fresh, cutShort, bus>>
  BY DEF WriteSamples, history
<1>3. PICK c \in Places : c = codec.place
  BY <1>1, <1>2 DEF CodecHolds, Filling, MicTyped
<1>4. PICK d : d = [frame |-> codec.frame, chunk |-> codec.chunk]
  OBVIOUS
<1>5. d \in Packets /\ pcm \in [Places -> Cell] /\ pcm[c].state \in {"FREE", "FILLING"}
  BY <1>1, <1>2, <1>3, <1>4 DEF CodecHolds, Filling, MicTyped, Packets
<1>6. PICK e : e = [pcm[c] EXCEPT !.data = d]
  OBVIOUS
<1>7. e \in Cell /\ e.state = pcm[c].state /\ e.data = d
  BY <1>5, <1>6 DEF Cell
<1>8. pcm' = [pcm EXCEPT ![c] = e]
  BY <1>2, <1>3, <1>4, <1>6
<1>9. /\ pcm' \in [Places -> Cell] /\ pcm'[c] = e
      /\ \A q \in Places : pcm'[q].state = pcm[q].state /\ (q # c => pcm'[q] = pcm[q])
  BY <1>5, <1>7, <1>8
<1>10. \A st : Held(st)' = Held(st)
  BY <1>9 DEF Held
<1>11. /\ codec' \in [pc : {"IDLE", "DECODE", "FILL", "COMMIT"}, frame : Nat, chunk : Nat,
                      place : Places \cup {NoPlace}]
       /\ codec'.pc = "COMMIT" /\ codec'.frame = codec.frame /\ codec'.place = c
       /\ codec'.chunk = codec.chunk
  BY <1>1, <1>2, <1>3 DEF MicTyped
<1>12. Window' = Window /\ \A p \in Window : pcm'[p].data = pcm[p].data
  <2>1. c \notin Window /\ Window \subseteq Places
    BY <1>5, HeldIn DEF Window, Held
  <2> QED
    BY <1>9, <1>10, <2>1 DEF Window
<1>13. CodecHolds'
  <2>1. /\ Held({"FILLING"}) \subseteq {fill} \cap {c}
        /\ Held({"FILLING"}) # {} => OfNow(codec.frame)
        /\ offered # 0 => OfNow(offered)
        /\ flushedAt <= received /\ offered <= received
    BY <1>1, <1>3 DEF CodecHolds
  <2>2. /\ Held({"FILLING"})' # {} => OfNow(codec.frame)'
        /\ (offered # 0 => OfNow(offered))'
    BY <1>2, <1>10, <1>11, <2>1 DEF OfNow
  <2>3. pcm'[c].data = [frame |-> codec'.frame, chunk |-> codec'.chunk]
        /\ pcm'[c].state \in {"FREE", "FILLING"} /\ c # NoPlace
    BY <1>3, <1>4, <1>5, <1>7, <1>9, <1>11, PlaceSizes
  <2> QED
    BY <1>2, <1>10, <1>11, <2>1, <2>2, <2>3 DEF CodecHolds, Filling
<1>14. \A p \in Held({"FILLING"})', s \in Sent :
          Later([frame |-> codec'.frame, chunk |-> codec'.chunk], s)
  BY <1>1, <1>10, <1>11 DEF InOrder
<1> QED
  BY <1>2, <1>9, <1>10, <1>11, <1>12, <1>13, <1>14, CodecMoves

(* The packet is ready, unless a flush has taken its place away.  There is *)
(* room for it: the place at the cursor of the task is not in use.         *)
LEMMA CommitKeeps ==
  ASSUME MicInv, CommitPacket, UNCHANGED bus
  PROVE  MicInv' /\ UNCHANGED heard
<1>1. /\ MicTyped /\ EndTyped /\ MicCountExact /\ FlushForgets /\ (Stuck => cutShort)
      /\ WindowHolds /\ CodecHolds /\ InOrder
  BY DEF MicInv
<1>2. /\ codec.pc = "COMMIT"
      /\ UNCHANGED <<enabled, muted, opus, received, offered, next, sending,
                     inBusy, micWire, heard, flushedAt, inHand, fresh, cutShort, bus>>
  BY DEF CommitPacket, history
<1>3. PICK c \in Places : c = codec.place
  BY <1>1, <1>2 DEF CodecHolds, Filling, MicTyped
<1>4. CASE ~MayCommit
  <2>1. codec' = CodecIdle /\ UNCHANGED <<pcm, fill, micCount>>
    BY <1>4 DEF CommitPacket
  <2>2. Held({"FILLING"}) = {}
    BY <1>1, <1>4 DEF CodecHolds, Held, MayCommit
  <2> QED
    BY <1>2, <2>1, <2>2, CodecStops
<1>5. CASE MayCommit
  <2>1. pcm[c].state = "FILLING" /\ c \in Held({"FILLING"}) /\ fill = c
    BY <1>1, <1>3, <1>5 DEF CodecHolds, Held, MayCommit
  <2>2. PICK f \in Places : f = MicAfter(c)
    BY FollowingIs
  <2>3. PICK more \in BOOLEAN : more <=> codec.chunk < Chunks /\ pcm[f].state = "FREE"
    OBVIOUS
  <2>4. /\ pcm' = [p \in Places |->
              IF p = c THEN [pcm[p] EXCEPT !.state = "READY"]
              ELSE IF more /\ p = f THEN [pcm[p] EXCEPT !.state = "FILLING"] ELSE pcm[p]]
        /\ fill' = f /\ micCount' = micCount + 1
        /\ codec' = IF more THEN [codec EXCEPT !.pc = "FILL", !.chunk = codec.chunk + 1, !.place = f]
                    ELSE CodecIdle
    BY <1>3, <1>5, <2>2, <2>3 DEF CommitPacket
  <2>5. \A p \in Places : /\ pcm[p] \in Cell
                          /\ \A st \in {"READY", "FILLING"} :
                                /\ [pcm[p] EXCEPT !.state = st] \in Cell
                                /\ [pcm[p] EXCEPT !.state = st].state = st
                                /\ [pcm[p] EXCEPT !.state = st].data = pcm[p].data
    BY <1>1 DEF MicTyped, Cell
  <2>6. /\ pcm' \in [Places -> Cell]
        /\ \A p \in Places : pcm'[p].data = pcm[p].data
        /\ \A p \in Places : pcm'[p].state = IF p = c THEN "READY"
                                            ELSE IF more /\ p = f THEN "FILLING" ELSE pcm[p].state
    BY <2>4, <2>5
  <2>7. more => pcm[f].state = "FREE" /\ f # c
    BY <2>1, <2>3
  <2>8. /\ Window' = Window \cup {c} /\ c \notin Window
        /\ Held({"DMA_ACTIVE"})' = Held({"DMA_ACTIVE"})
        /\ Held({"FILLING"})' = IF more THEN {f} ELSE {}
    <3>1. \A p \in Places : p # c => pcm[p].state # "FILLING"
      BY <1>1, <1>3 DEF CodecHolds, Held
    <3> QED
      BY <2>1, <2>6, <2>7, <3>1 DEF Window, Held
  <2>9. /\ micCount \in 0 .. MicDepth - 1 /\ c = OnItsPlace(micCount)
        /\ Window = {OnItsPlace(i) : i \in 0 .. micCount - 1} /\ Window \subseteq Places
    <3>1. /\ micCount \in 0 .. MicDepth /\ fill = OnItsPlace(micCount)
          /\ Window = {OnItsPlace(i) : i \in 0 .. micCount - 1}
          /\ Window # {} <=> micCount # 0
          /\ Window # {} => next \in Window
          /\ Window \subseteq Places
      BY <1>1, WindowIs
    <3>2. OnItsPlace(MicDepth) = next
      BY <1>1, WindowPlaces DEF OnItsPlace, MicTyped
    <3>3. micCount # MicDepth
      BY <2>1, <2>8, <3>1, <3>2, PlaceSizes
    <3> QED
      BY <2>1, <3>1, <3>3, PlaceSizes
  <2>10. /\ \A i : OnItsPlace(i)' = OnItsPlace(i)
         /\ fill' = OnItsPlace(micCount + 1)
    <3>1. next \in Places
      BY <1>1 DEF MicTyped
    <3>2. \A i \in 0 .. MicDepth - 1 : MicAfter((next + i) % MicDepth) = (next + (i + 1)) % MicDepth
      BY <3>1, WindowPlaces
    <3> QED
      BY <1>2, <2>2, <2>4, <2>9, <3>2 DEF OnItsPlace
  <2>11. /\ micCount \in Nat /\ codec.frame \in Nat /\ codec.chunk \in Nat
         /\ codec \in [pc : {"IDLE", "DECODE", "FILL", "COMMIT"}, frame : Nat, chunk : Nat,
                       place : Places \cup {NoPlace}]
         /\ heard \in Packets /\ f # NoPlace
    BY <1>1, PlaceSizes DEF MicTyped
  <2>12. PICK d \in Packets : d = [frame |-> codec.frame, chunk |-> codec.chunk]
    BY <2>11 DEF Packets
  <2>13. pcm[c].data = d /\ d.frame = codec.frame /\ d.chunk = codec.chunk
    BY <1>1, <1>2, <1>3, <2>12 DEF CodecHolds
  <2>14. /\ more => /\ codec'.pc = "FILL" /\ codec'.frame = codec.frame
                     /\ codec'.chunk = codec.chunk + 1 /\ codec'.place = f
         /\ ~more => codec'.pc = "IDLE"
         /\ codec' \in [pc : {"IDLE", "DECODE", "FILL", "COMMIT"}, frame : Nat, chunk : Nat,
                        place : Places \cup {NoPlace}]
    <3>1. CASE more
      <4>1. PICK k \in Nat : k = codec.chunk + 1
        BY <2>11
      <4>2. codec' = [codec EXCEPT !.pc = "FILL", !.chunk = k, !.place = f]
        BY <2>4, <3>1, <4>1
      <4>3. codec'.pc = "FILL" /\ codec'.frame = codec.frame /\ codec'.chunk = k /\ codec'.place = f
        BY <2>11, <4>2
      <4>4. codec' \in [pc : {"IDLE", "DECODE", "FILL", "COMMIT"}, frame : Nat, chunk : Nat,
                        place : Places \cup {NoPlace}]
        BY <2>11, <4>2
      <4> QED
        BY <3>1, <4>1, <4>3, <4>4
    <3>2. CASE ~more
      BY <2>4, <3>2 DEF CodecIdle
    <3> QED
      BY <3>1, <3>2
  <2>15. MicTyped' /\ EndTyped'
    <3>1. micCount' \in Nat /\ fill' \in Places
      BY <2>4, <2>11
    <3>2. MicTyped'
      BY <1>1, <1>2, <2>6, <2>14, <3>1 DEF MicTyped
    <3>3. EndTyped'
      BY <1>1, <1>2 DEF EndTyped
    <3> QED
      BY <3>2, <3>3
  <2>16. Window' = {OnItsPlace(i) : i \in 0 .. micCount' - 1}
    <3>1. micCount' - 1 = micCount
      BY <2>4, <2>11
    <3>2. 0 .. micCount = (0 .. micCount - 1) \cup {micCount}
      BY <2>11
    <3> QED
      BY <2>8, <2>9, <3>1, <3>2
  <2>17. MicCountExact'
    <3>1. micCount = Cardinality(Window) /\ IsFiniteSet(Window)
      BY <1>1, HeldIn DEF MicCountExact, Window
    <3>2. Cardinality(Window \cup {c}) = Cardinality(Window) + 1
      BY <2>8, <3>1, FS_AddElement
    <3> QED
      BY <2>4, <2>8, <3>1, <3>2 DEF MicCountExact, Window
  <2>18. OfNow(codec.frame)
    BY <1>1, <2>1 DEF CodecHolds
  <2>19. FlushForgets'
    <3>1. Queued' \subseteq Queued \cup {codec.frame}
      BY <1>2, <2>6, <2>8, <2>9, <2>13 DEF Queued, Window
    <3>2. codec.frame \in 1 .. flushedAt => codec.frame \in inHand
      BY <1>1, <2>11, <2>18 DEF OfNow, MicTyped
    <3> QED
      BY <1>1, <1>2, <3>1, <3>2 DEF FlushForgets
  <2>20. (Stuck => cutShort)'
    <3>1. next \in Places
      BY <1>1 DEF MicTyped
    <3>2. (pcm'[next].state = "DMA_ACTIVE") <=> (pcm[next].state = "DMA_ACTIVE")
      BY <2>8, <3>1 DEF Held
    <3> QED
      BY <1>1, <1>2, <3>2 DEF Stuck
  <2>21. WindowHolds'
    <3>1. micCount' <= MicDepth /\ fill' = (next' + micCount') % MicDepth
      BY <1>2, <2>4, <2>9, <2>10, PlaceSizes DEF OnItsPlace
    <3>2. Window' = {(next' + i) % MicDepth : i \in 0 .. micCount' - 1}
      BY <1>2, <2>16 DEF OnItsPlace
    <3>3. Held({"DMA_ACTIVE"})' \subseteq {next'}
      BY <1>1, <1>2, <2>8 DEF WindowHolds
    <3>4. sending' # NoPlace => /\ sending' = next' /\ next' \in Held({"DMA_ACTIVE"})'
                                /\ inBusy' \/ cutShort'
      BY <1>1, <1>2, <2>8 DEF WindowHolds
    <3>5. micWire' # OnNothing => Configured'
      BY <1>1, <1>2 DEF WindowHolds, Configured
    <3> QED
      BY <3>1, <3>2, <3>3, <3>4, <3>5 DEF WindowHolds, Window, OnItsPlace
  <2>22. CodecHolds'
    <3>1. (offered # 0 => OfNow(offered))' /\ flushedAt' <= received' /\ offered' <= received'
      BY <1>1, <1>2 DEF CodecHolds, OfNow
    <3>2. CASE more
      <4>1. /\ codec'.pc = "FILL" /\ codec'.frame = codec.frame /\ codec'.place = f
            /\ pcm'[f].state = "FILLING" /\ fill' = f /\ Held({"FILLING"})' = {f}
        BY <2>4, <2>6, <2>7, <2>8, <2>14, <3>2
      <4>2. OfNow(codec.frame)'
        BY <1>2, <2>18, <4>1 DEF OfNow
      <4> QED
        BY <2>11, <3>1, <4>1, <4>2 DEF CodecHolds, Filling
    <3>3. CASE ~more
      BY <2>8, <2>14, <3>1, <3>3 DEF CodecHolds, Filling
    <3> QED
      BY <3>2, <3>3
  <2>23. /\ Sent' = Sent \cup {d} /\ Sent \subseteq Packets
         /\ \A s \in Sent : Later(d, s)
    <3>1. Sent = {heard} \cup {pcm[p].data : p \in Window}
      BY DEF Sent, Window
    <3>2. Sent' = {heard} \cup {pcm[p].data : p \in Window'}
      BY <1>2, <2>6, <2>8, <2>9 DEF Sent, Window
    <3>3. \A p \in Window : pcm[p].data \in Packets
      BY <2>5, <2>9 DEF Cell
    <3>4. \A s \in Sent : Later(d, s)
      BY <1>1, <2>1, <2>12 DEF InOrder
    <3> QED
      BY <2>8, <2>11, <2>13, <3>1, <3>2, <3>3, <3>4
  <2>24. InOrder'
    <3>1. ASSUME NEW i \in 0 .. micCount, NEW j \in 0 .. micCount, i < j
          PROVE  Later(pcm[OnItsPlace(j)].data, pcm[OnItsPlace(i)].data)
      <4>1. i \in 0 .. micCount - 1 /\ (j = micCount \/ j \in 0 .. micCount - 1)
        BY <2>11, <3>1
      <4>2. pcm[OnItsPlace(i)].data \in Sent
        BY <2>9, <4>1 DEF Sent, Window
      <4>3. CASE j = micCount
        BY <2>9, <2>13, <2>23, <4>2, <4>3
      <4>4. CASE j \in 0 .. micCount - 1
        BY <1>1, <3>1, <4>1, <4>4 DEF InOrder
      <4> QED
        BY <4>1, <4>3, <4>4
    <3>2. \A i \in 0 .. micCount : OnItsPlace(i) \in Places
      <4>1. next \in Places
        BY <1>1 DEF MicTyped
      <4>2. \A i \in 0 .. MicDepth : (next + i) % MicDepth \in Places
        BY <4>1, WindowPlaces
      <4>3. \A i \in 0 .. micCount : i \in 0 .. MicDepth
        BY <2>9, PlaceSizes
      <4> QED
        BY <4>2, <4>3 DEF OnItsPlace
    <3>3. \A i, j \in 0 .. micCount' - 1 : i < j => Later(pcm'[OnItsPlace(j)'].data, pcm'[OnItsPlace(i)'].data)
      <4>1. micCount' - 1 = micCount
        BY <2>4, <2>11
      <4> QED
        BY <2>6, <2>10, <3>1, <3>2, <4>1
    <3>4. \A p \in Window' : Later(pcm'[p].data, heard')
      <4>1. \A p \in Window : Later(pcm[p].data, heard)
        BY <1>1 DEF InOrder, Window
      <4>2. Later(d, heard)
        BY <2>23 DEF Sent
      <4> QED
        BY <1>2, <2>6, <2>8, <2>9, <2>13, <4>1, <4>2
    <3>5. \A p \in Held({"FILLING"})', s \in Sent' :
             Later([frame |-> codec'.frame, chunk |-> codec'.chunk], s)
      <4>1. SUFFICES ASSUME more, NEW s \in Sent'
                     PROVE  Later([frame |-> codec'.frame, chunk |-> codec'.chunk], s)
        BY <2>8
      <4>2. PICK e \in Packets : e = [frame |-> codec'.frame, chunk |-> codec'.chunk]
        BY <2>14 DEF Packets
      <4>3. e.frame = codec.frame /\ e.chunk = codec.chunk + 1
        BY <2>14, <4>1, <4>2
      <4>4. Later(e, d)
        BY <2>11, <2>13, <4>3 DEF Later
      <4>5. s = d \/ (s \in Packets /\ Later(d, s))
        BY <2>23
      <4>6. Later(e, s)
        BY <4>4, <4>5, LaterTransitive
      <4> QED
        BY <4>2, <4>6
    <3>6. \A n : Newer(n) => (\A s \in Sent' : s.frame < n) /\ (codec'.pc # "IDLE" => codec'.frame < n)
      BY <1>2, <2>13, <2>14, <2>23 DEF Newer
    <3>7. /\ \A i \in DOMAIN opus' : opus'[i] <= received' /\ (\A s \in Sent' : s.frame < opus'[i])
                                    /\ (codec'.pc # "IDLE" => codec'.frame < opus'[i])
          /\ \A i, j \in DOMAIN opus' : i < j => opus'[i] < opus'[j]
      BY <1>1, <1>2, <3>6 DEF InOrder
    <3>8. /\ offered' # 0 => /\ \A s \in Sent' : s.frame < offered'
                             /\ codec'.pc # "IDLE" => codec'.frame < offered'
                             /\ \A i \in DOMAIN opus' : opus'[i] < offered'
          /\ \A s \in Sent' : s.frame < received' + 1
          /\ codec'.pc # "IDLE" => codec'.frame < received' + 1
      BY <1>1, <1>2, <3>6 DEF InOrder
    <3>9. /\ fresh' /\ micWire' \in Places => micWire' = next' /\ sending' = next'
          /\ codec'.pc # "DECODE"
      BY <1>1, <1>2, <2>14 DEF InOrder
    <3> QED
      BY <3>3, <3>4, <3>5, <3>7, <3>8, <3>9 DEF InOrder, Newer, Window
  <2> QED
    BY <1>2, <2>15, <2>17, <2>19, <2>20, <2>21, <2>22, <2>24 DEF MicInv
<1> QED
  BY <1>4, <1>5

LEMMA NextMic ==
  ASSUME SessionOK, MicInv, [Next]_vars
  PROVE  MicInv' /\ HeardInOrder
<1> DEFINE Goal == MicInv' /\ UNCHANGED heard
<1>1. Goal => MicInv' /\ HeardInOrder
  BY DEF HeardInOrder
<1> HIDE DEF Goal
<1>2. ASSUME \/ MicReset \/ MicInitAgain \/ MicRestart
             \/ MicOpened /\ Configured'
             \/ (MicSuspended \/ SetMute \/ EnableMic) /\ UNCHANGED bus
      PROVE  Goal
  BY <1>2, MicEventKeeps DEF Goal
<1>3. ASSUME MicArms, Configured => Configured'
      PROVE  Goal
  <2>1. UNCHANGED heard
    BY <1>3 DEF MicArms
  <2> QED
    BY <1>3, <2>1, MicArmsKeeps DEF Goal
<1>4. ASSUME UNCHANGED micVars, UNCHANGED bus
      PROVE  Goal
  <2>1. /\ MicTyped /\ EndTyped /\ WindowHolds /\ InOrder
    BY DEF MicInv
  <2>2. UNCHANGED <<enabled, muted, opus, received, offered, codec, pcm, fill, next,
                    sending, micCount, inBusy, micWire, heard, flushedAt, inHand, fresh, cutShort>>
    BY <1>4 DEF micVars, history
  <2>3. EndTyped'
    BY <2>1, <2>2 DEF EndTyped
  <2>4. fresh' /\ micWire' \in Places => micWire' = next /\ sending' = next
    BY <2>1, <2>2 DEF InOrder
  <2>5. micWire' # OnNothing => Configured'
    BY <1>4, <2>1, <2>2 DEF WindowHolds, Configured
  <2>6. (cutShort => cutShort') /\ (inBusy => inBusy')
    BY <2>2
  <2>7. MicInv'
    BY <2>2, <2>3, <2>4, <2>5, <2>6, MicStill
  <2> QED
    BY <2>2, <2>7 DEF Goal
<1>5. CASE BusReset \/ CloseMic
  <2>1. MicReset
    BY <1>5 DEF BusReset, CloseMic
  <2> QED
    BY <1>1, <1>2, <2>1
<1>6. CASE BusConfigured \/ BusResumed
  <2>1. MicArms /\ (bus' = bus \/ bus' = "CONFIGURED")
    BY <1>6 DEF BusConfigured, BusResumed, SessionConfigured, SessionResume
  <2>2. Configured => Configured'
    BY <2>1 DEF Configured
  <2> QED
    BY <1>1, <1>3, <2>1, <2>2
<1>7. CASE BusSuspended
  <2>1. MicSuspended /\ UNCHANGED bus
    BY <1>7 DEF BusSuspended, SessionSuspend
  <2> QED
    BY <1>1, <1>2, <2>1
<1>8. CASE OpenMic
  <2>1. MicOpened /\ Configured' /\ UNCHANGED bus
    BY <1>8 DEF OpenMic, SessionOpen, Live, Configured
  <2> QED
    BY <1>1, <1>2, <2>1
<1>9. CASE Restarted
  <2>1. MicRestart
    BY <1>9 DEF Restarted
  <2> QED
    BY <1>1, <1>2, <2>1
<1>10. CASE Started
  <2>1. MicInitAgain
    BY <1>10 DEF Started
  <2> QED
    BY <1>1, <1>2, <2>1
<1>11. CASE OpenOut \/ CloseOut \/ Quiet \/ InputSteps \/ IngressSteps \/ OutputSteps
  <2>1. UNCHANGED micVars /\ UNCHANGED bus
    BY <1>11 DEF OpenOut, CloseOut, SessionOpen, SessionClose, Quiet, InputSteps, InputOnly,
                 IngressSteps, OutputSteps, OutputOnly, sessionVars
  <2> QED
    BY <1>1, <1>4, <2>1
<1>12. CASE MicSteps
  <2>1. UNCHANGED sessionVars /\ UNCHANGED bus /\ (MicTask \/ PacketSent \/ SetMute \/ EnableMic)
    BY <1>12 DEF MicSteps, MicOnly, sessionVars
  <2>2. CASE FrameArrives
    BY <1>1, <2>1, <2>2, ArrivesKeeps DEF Goal
  <2>3. CASE StoreFrame
    BY <1>1, <2>1, <2>3, StoreKeeps DEF Goal
  <2>4. CASE TakeFrame
    BY <1>1, <2>1, <2>4, TakeFrameKeeps DEF Goal
  <2>5. CASE Decoded
    BY <1>1, <2>1, <2>5, DecodedKeeps DEF Goal
  <2>6. CASE WriteSamples
    BY <1>1, <2>1, <2>6, WriteKeeps DEF Goal
  <2>7. CASE CommitPacket
    BY <1>1, <2>1, <2>7, CommitKeeps DEF Goal
  <2>8. CASE PacketSent
    BY <2>1, <2>8, SentKeeps
  <2>9. CASE SetMute \/ EnableMic
    BY <1>1, <1>2, <2>1, <2>9
  <2> QED
    BY <2>1, <2>2, <2>3, <2>4, <2>5, <2>6, <2>7, <2>8, <2>9 DEF MicTask, CodecStep
<1> QED
  BY <1>5, <1>6, <1>7, <1>8, <1>9, <1>10, <1>11, <1>12, Kinds

-----------------------------------------------------------------------------
(* The theorems                                                            *)

DeviceInv == SessionOK /\ AttachOK /\ InputInv /\ OutputInv /\ RingInv /\ MicInv

(* The invariant of the parts holds in every state, and every step keeps   *)
(* the order of the sound.                                                 *)
LEMMA DeviceInvariant == Spec => []DeviceInv /\ AudioInOrder
<1>1. Init => DeviceInv
  BY InitSession, InitAttach, InitInput, InitOutput, InitRing, InitMic DEF DeviceInv
<1>2. ASSUME DeviceInv, [Next]_vars
      PROVE  DeviceInv' /\ NoHole /\ HeardInOrder
  BY <1>2, NextSession, NextAttach, NextInput, NextOutput, NextRing, NextMic DEF DeviceInv
<1>3. DeviceInv /\ [Next]_vars => DeviceInv' /\ [NoHole /\ HeardInOrder]_vars
  BY <1>2
<1> QED
  BY <1>1, <1>3, PTL DEF Spec, AudioInOrder

(* What the tasks and the callbacks know of the hardware and of the rings  *)
(* is right in every reachable state, whatever resets, suspensions and     *)
(* restarts have come (the marks usb_input_busy and audio_in_busy, the     *)
(* counts of the ingress ring and of the microphone's packet ring).        *)
THEOREM DeviceMarksExact == Spec => []MarksExact
<1>1. DeviceInv => MarksExact
  BY RingTypes, RingSafe, MicSafe
     DEF DeviceInv, InputInv, OutputInv, MarksExact, TypeOK
<1> QED
  BY <1>1, DeviceInvariant, PTL

(* The hardware never fills a buffer of the audio OUT ring that is in use, *)
(* there is always one for it, and the packets that wait are those that    *)
(* came last, one after the other (m61_usb_gamepad.c:2186).                *)
THEOREM DeviceRingSound == Spec => []RingSound
<1>1. DeviceInv => RingSound
  BY RingSafe DEF DeviceInv
<1> QED
  BY <1>1, DeviceInvariant, PTL

(* A flush forgets what was said before, packets that wait are at the      *)
(* cursor of the endpoint, and frames stay in order from the Bluetooth     *)
(* task to the host (m61_usb_gamepad.c:1066).                              *)
THEOREM DeviceMicSound == Spec => []MicSound
<1>1. DeviceInv => MicSound
  BY MicSafe DEF DeviceInv
<1> QED
  BY <1>1, DeviceInvariant, PTL

(* Of the reports that the host writes, the newest of each kind is kept    *)
(* until it is sent, unless the slot was taken from it.                    *)
THEOREM DeviceKeepsNewest == Spec => []MergedOrReplaced
<1>1. DeviceInv => MergedOrReplaced
  BY DEF DeviceInv, OutputInv
<1> QED
  BY <1>1, DeviceInvariant, PTL

(* The epoch store is given the packets of the host without a hole that it *)
(* does not know of, and the host hears no packet twice or out of order.   *)
THEOREM DeviceAudioInOrder == Spec => AudioInOrder
BY DeviceInvariant, PTL
=============================================================================
