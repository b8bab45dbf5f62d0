----------------------------- MODULE WebConfig ------------------------------
(***************************************************************************)
(* The settings of the dongle (m61_web_config.c and what main.c and        *)
(* m61_usb_gamepad.c do with it): the record in the flash, the copy the    *)
(* commands work on (web_config), the copy the readers take                *)
(* (m61_web_runtime_config, under a sequence counter), and the variables   *)
(* the settings really act through (live).                                 *)
(*                                                                         *)
(* One field stands for each way a setting is kept: mic also for the       *)
(* speaker, its route and the haptics gain, idle for the power-off on      *)
(* suspend, led for the audio buffer.                                      *)
(*                                                                         *)
(* Priorities: the USB interrupt, the bridge, the auto task, the shell.    *)
(* The power may fail at any moment.  The shell is used when the start is  *)
(* over, the host gets at the dongle then (main.c:3138).                   *)
(***************************************************************************)
EXTENDS Integers, FiniteSets, Sequences

CONSTANTS
    Requests,    \* configurations the host applies
    Records,     \* what may be in the flash at first, NoRecord included
    Legacies,    \* what an older firmware may have left there, or NoLegacy
    Shellings,   \* <<profile, MHz>> the shell sets
    NoLegacy,
    MaxCalls,    \* bound: commands of a behaviour
    MaxCuts,     \* bound: failures of the power
    MaxFailures  \* bound: flash operations that fail

VARIABLES
    flash,       \* record M61_WEB_CONFIG_KEY
    legacy,      \* record M61_DVFS_CONFIG_KEY
    phase,       \* of the start: "OFF", "LOADED", "MIGRATE", "CLEAR", "READY"
    storage,     \* storage_ready
    web,         \* web_config
    loaded,      \* web_config_loaded
    inherited,   \* dvfs_persistent_config_loaded
    live,        \* where the settings act
    runtime,     \* m61_web_runtime_config
    odd,         \* m61_web_runtime_sequence is odd
    bridge,      \* a command of the host under way
    shell,       \* a command of the shell under way, and the values in its hands
    auto,        \* auto_connect_task: where it is, and what it read
    done,        \* web_management_sequence, ..._error
    shown,       \* web_management_status
    stuck,       \* a USB callback waits for a counter to become even
    kept,        \* settings that have to survive (history)
    touched,     \* other settings act than have to survive (history)
    unshown,     \* the shell switched the reconnection (history)
    raced,       \* settings the host applied while the shell held older ones (history)
    calls, cuts, failures   \* used of the bounds (history)

store == <<flash, legacy>>
copies == <<web, runtime, odd>>
history == <<kept, touched, unshown, raced, calls, cuts, failures>>
vars == <<store, phase, storage, copies, loaded, inherited, live, bridge, shell,
          auto, done, shown, stuck, history>>

Profiles == [ECO |-> 320, PERFORMANCE |-> 400]   \* dvfs_profile_mhz
Validated == 320 .. 400
Fields(version) ==
    {"mic", "auto", "governor", "profile", "mhz"}
        \cup (IF version >= 2 THEN {"idle"} ELSE {})
        \cup (IF version >= 3 THEN {"dead"} ELSE {})
        \cup (IF version >= 4 THEN {"poll"} ELSE {})
        \cup (IF version >= 5 THEN {"led"} ELSE {})
Schema == 5
AllFields == Fields(Schema)
Policy == {"governor", "profile", "mhz"}
NoRecord == [version |-> 0]
Owned == AllFields \ {"idle"}     \* have a variable of their own

(* m61_web_config_defaults.                                                *)
Defaults ==
    [f \in AllFields |->
        CASE f = "mic" -> FALSE [] f = "auto" -> TRUE
          [] f = "governor" -> "MANUAL" [] f = "profile" -> "ECO" [] f = "mhz" -> 320
          [] f = "poll" -> "REALTIME" [] f = "led" -> 12 [] OTHER -> 0]

(* m61_web_config_valid, for the values that occur.                        *)
Valid(c) == c.mhz \in Validated /\ c.poll # "1000 HZ"

(* m61_web_config_decode: fields a version lacks get their defaults, the   *)
(* rate of 1000 Hz that version 4 had is replaced.                         *)
Decoded(version, body) ==
    [f \in AllFields |->
        IF f \notin Fields(version) THEN Defaults[f]
        ELSE IF f = "poll" /\ body[f] = "1000 HZ" THEN "500 HZ"
        ELSE body[f]]
(* m61_web_persistent_decode and the lookup of the record.                 *)
Readable(record) ==
    /\ record # NoRecord /\ record.sound
    /\ Valid(Decoded(record.version, record.body))
(* m61_web_persistent_encode.                                              *)
Encoded(c) == [version |-> Schema, sound |-> TRUE, body |-> c]

WithPolicy(c, policy) == [f \in AllFields |-> IF f \in Policy THEN policy[f] ELSE c[f]]

(* Of a profile the frequency follows.                                     *)
Norm(c) ==
    IF c.profile \in DOMAIN Profiles THEN [c EXCEPT !.mhz = Profiles[c.profile]] ELSE c
Normal(c) == c.profile \in DOMAIN Profiles => c.mhz = Profiles[c.profile]

(* The host applies what m61_web_config_valid lets pass, a record was      *)
(* written by a firmware that checked it too, and the policy an old        *)
(* firmware left or the shell sets has the frequency of its profile; an    *)
(* experimental one goes up to 480 MHz (m61_dvfs.c:415-448).               *)
IsOn(c, S) == c = [f \in S |-> c[f]]
IsRecord(r) ==
    /\ r.version \in 1 .. Schema /\ r.sound \in BOOLEAN
    /\ IsOn(r.body, Fields(r.version))
    /\ r.sound => r.body.mhz \in Validated
ASSUME SettingsAssumption ==
    /\ \A c \in Requests : IsOn(c, AllFields) /\ Valid(c)
    /\ \A r \in Records : r = NoRecord \/ IsRecord(r)
    /\ \A p \in Legacies :
          p = NoLegacy \/ (IsOn(p, Policy) /\ Normal(p) /\ p.mhz \in Validated)
    /\ \A set \in Shellings :
          Normal([profile |-> set[1], mhz |-> set[2]]) /\ set[2] \in 320 .. 480
    /\ MaxCalls \in Nat

(* The settings that act: the power policy reads its limit in the copy.    *)
Acting(copy) == [f \in AllFields |-> IF f = "idle" THEN copy.idle ELSE live[f]]
InForce == Acting(runtime)

-----------------------------------------------------------------------------
(* The copies                                                              *)

(* refresh_m61_web_config_from_runtime, up to its last call: the limits    *)
(* and the dead zones have no variable it reads.                           *)
Refreshed(c) ==
    [f \in AllFields |->
        IF f \in {"idle", "dead"} \/ (f = "mhz" /\ live.profile \in DOMAIN Profiles)
        THEN c[f] ELSE live[f]]

(* m61_dvfs_set_profile or ..._set_custom_frequency, then ..._set_governor:*)
(* what apply_m61_web_config makes of the policy of a valid configuration. *)
Applied(c) == [f \in Owned |-> Norm(c)[f]]

(* m61_web_runtime_set, whole.                                             *)
FaultPublished(c) == c
Published(c) == IF Valid(c) THEN c ELSE runtime

-----------------------------------------------------------------------------
(* The start                                                               *)

Idle == [pc |-> "IDLE"]
Nothing == [f \in {} |-> 0]
Asleep == [pc |-> "ASLEEP", ok |-> TRUE, seq |-> 0]
NoResult == [ok |-> TRUE, seq |-> 0]
Factory == [f \in Owned |-> Defaults[f]]   \* initial values of the variables

(* What a reader of PROTOCOL.md:113 expects of the records.                *)
Meaning(record, old) ==
    IF record # NoRecord /\ record.sound
    THEN Norm([f \in AllFields |->
                IF f \notin DOMAIN record.body THEN Defaults[f]
                ELSE IF f = "poll" /\ record.body[f] = "1000 HZ" THEN "500 HZ"
                ELSE record.body[f]])
    ELSE IF old # NoLegacy THEN WithPolicy(Defaults, old)
    ELSE Defaults

Init ==
    /\ flash \in Records /\ legacy \in Legacies
    /\ kept = Meaning(flash, legacy)
    /\ phase = "OFF" /\ storage = TRUE
    /\ web = Defaults /\ runtime = Defaults /\ odd = FALSE
    /\ loaded = FALSE /\ inherited = FALSE
    /\ live = Factory
    /\ bridge = Idle /\ shell = Idle /\ auto = Asleep
    /\ done = NoResult /\ shown = NoResult /\ stuck = FALSE
    /\ touched = FALSE /\ unshown = FALSE /\ raced = {}
    /\ calls = 0 /\ cuts = 0 /\ failures = 0

(* load_m61_web_config: applied without the clock, which is not started.   *)
PowerOn ==
    /\ phase = "OFF"
    /\ phase' = "LOADED"
    /\ storage' \in BOOLEAN
    /\ IF storage' /\ Readable(flash)
       THEN /\ web' = Decoded(flash.version, flash.body)
            /\ loaded' = TRUE
            /\ live' = [f \in Owned |-> IF f \in Policy THEN live[f] ELSE web'[f]]
       ELSE web' = Defaults /\ UNCHANGED <<loaded, live>>
    /\ runtime' = web'
    /\ UNCHANGED <<store, odd, inherited, bridge, shell, auto, done, shown, stuck, history>>

(* bt_enable_cb up to the migration, m61_dvfs_init included.               *)
BluetoothReady ==
    /\ phase = "LOADED"
    /\ inherited' = (storage /\ legacy # NoLegacy)
    /\ LET start == IF inherited' THEN legacy ELSE [p \in Policy |-> live[p]]
           acting == [f \in Owned |-> IF f \in Policy THEN start[f] ELSE live[f]]
       IN  live' = IF loaded THEN Applied(web) ELSE acting
    /\ web' = [f \in AllFields |->
                IF f \in {"idle", "dead"} \/ (f = "mhz" /\ live'.profile \in DOMAIN Profiles)
                THEN web[f] ELSE live'[f]]
    /\ runtime' = Published(web')
    /\ phase' = IF ~inherited' THEN "READY" ELSE IF loaded THEN "CLEAR" ELSE "MIGRATE"
    /\ UNCHANGED <<store, storage, odd, loaded, bridge, shell, auto, done, shown,
                   stuck, history>>

Fails(ok) == IF ok THEN UNCHANGED failures ELSE failures < MaxFailures /\ failures' = failures + 1

(* migrate_legacy_dvfs_record: the new record first, then the old one.     *)
FaultMigrateSave(ok) ==
    /\ phase = "MIGRATE" /\ Fails(ok /\ storage)
    /\ IF ok /\ storage
       THEN flash' = Encoded(web) /\ loaded' = TRUE
       ELSE UNCHANGED <<flash, loaded>>
    /\ phase' = "CLEAR"
    /\ UNCHANGED <<legacy, inherited>>
MigrateSave(ok) ==
    /\ phase = "MIGRATE" /\ Fails(ok /\ storage)
    /\ IF ok /\ storage
       THEN flash' = Encoded(web) /\ loaded' = TRUE /\ phase' = "CLEAR"
       ELSE phase' = "READY" /\ UNCHANGED <<flash, loaded>>
    /\ UNCHANGED <<legacy, inherited>>
MigrateClear(ok) ==
    /\ phase = "CLEAR" /\ Fails(ok)
    /\ IF ok THEN legacy' = NoLegacy /\ inherited' = FALSE ELSE UNCHANGED <<legacy, inherited>>
    /\ phase' = "READY"
    /\ UNCHANGED <<flash, loaded>>
Migrate ==
    /\ \E ok \in BOOLEAN : MigrateSave(ok) \/ MigrateClear(ok)
    /\ UNCHANGED <<storage, copies, live, bridge, shell, auto, done, shown, stuck,
                   kept, touched, unshown, raced, calls, cuts>>

PowerCut ==
    /\ phase # "OFF" /\ cuts < MaxCuts
    /\ cuts' = cuts + 1
    /\ phase' = "OFF" /\ storage' = TRUE
    /\ web' = Defaults /\ runtime' = Defaults /\ odd' = FALSE
    /\ loaded' = FALSE /\ inherited' = FALSE /\ live' = Factory
    /\ bridge' = Idle /\ shell' = Idle /\ auto' = Asleep
    /\ done' = NoResult /\ shown' = NoResult /\ stuck' = FALSE
    /\ touched' = FALSE /\ unshown' = FALSE /\ raced' = {}
    /\ UNCHANGED <<store, kept, calls, failures>>

-----------------------------------------------------------------------------
(* Commands of the host, run by the bridge: nothing but an interrupt comes *)
(* between their two steps                                                 *)

Running == phase = "READY" /\ ~stuck
Calls == calls < MaxCalls /\ calls' = calls + 1

(* m61_web_runtime_set begins, for a valid configuration.                  *)
SetBegins == odd' = IF Valid(web') THEN ~odd ELSE odd
SetEnds == odd' = IF Valid(web) THEN ~odd ELSE odd

(* What the shell has read and not stored yet.                             *)
InHand ==
    IF shell.pc \in {"REFRESH", "COPY", "COPY REST", "MHZ"} THEN DOMAIN shell.body ELSE {}
(* A policy of which the host's command and the shell's each set a part.   *)
Split == IF Normal(live) THEN {} ELSE {"mhz"}

(* handle_m61_web_command, APPLY_CONFIG.                                   *)
Apply(c) ==
    /\ Running /\ bridge = Idle /\ Calls
    /\ live' = Applied(c) /\ web' = c
    /\ SetBegins
    /\ bridge' = [pc |-> "APPLY"]
    /\ touched' = TRUE /\ unshown' = FALSE /\ raced' = InHand
    /\ shell' = IF shell = Idle THEN shell ELSE [shell EXCEPT !.overtaken = TRUE]
    /\ UNCHANGED <<store, phase, storage, runtime, loaded, inherited, auto, done,
                   shown, stuck, kept, cuts, failures>>

(* SAVE_CONFIG: save_m61_web_config.                                       *)
Save ==
    /\ Running /\ bridge = Idle /\ Calls
    /\ IF storage THEN web' = Refreshed(web) /\ SetBegins ELSE UNCHANGED <<web, odd>>
    /\ bridge' = [pc |-> "SAVE"]
    /\ UNCHANGED <<store, phase, storage, runtime, loaded, inherited, live, shell,
                   auto, done, shown, stuck, kept, touched, unshown, raced, cuts,
                   failures>>

(* finish_m61_web_command.                                                 *)
Finish(ok) == done' = [ok |-> ok, seq |-> done.seq + 1] /\ bridge' = Idle

FaultApplyEnds ==
    /\ bridge.pc = "APPLY" /\ ~stuck
    /\ SetEnds /\ UNCHANGED runtime
    /\ Finish(TRUE)
ApplyEnds ==
    /\ bridge.pc = "APPLY" /\ ~stuck
    /\ SetEnds /\ runtime' = Published(web)
    /\ Finish(TRUE)
SaveEnds(ok) ==
    /\ bridge.pc = "SAVE" /\ ~stuck
    /\ IF storage THEN SetEnds /\ runtime' = Published(web) ELSE UNCHANGED <<odd, runtime>>
    /\ raced' = IF storage /\ Valid(web) THEN raced \cap (InHand \cup Split) ELSE raced
    /\ Fails(ok \/ ~storage \/ ~Valid(web))
    /\ LET written == ok /\ storage /\ Valid(web)
       IN  /\ IF written
              THEN /\ flash' = Encoded(web) /\ loaded' = TRUE
                   /\ kept' = Norm(Acting(web)) /\ touched' = FALSE
              ELSE UNCHANGED <<flash, loaded, kept, touched>>
           /\ Finish(written)
HostCommandEnds ==
    /\ \/ ApplyEnds /\ UNCHANGED <<flash, loaded, kept, touched, raced, failures>>
       \/ \E ok \in BOOLEAN : SaveEnds(ok)
    /\ UNCHANGED <<legacy, phase, storage, web, inherited, live, shell, auto, shown,
                   stuck, unshown, calls, cuts>>

-----------------------------------------------------------------------------
(* The shell                                                               *)

ShellRuns == Running /\ bridge = Idle /\ auto.pc = "ASLEEP"
ShellCalls == ShellRuns /\ shell = Idle /\ Calls

(* m61_clock_command: profile, set, lock and set ... experimental store    *)
(* the profile, the frequency and the governor one after the other.        *)
ShellSetsClock ==
    /\ \/ /\ ShellCalls
          /\ \E set \in Shellings :
                /\ live' = [live EXCEPT !.profile = set[1]]
                /\ shell' = [pc |-> "MHZ", what |-> "CLOCK", overtaken |-> FALSE,
                             at |-> 0, body |-> [mhz |-> set[2]]]
          /\ raced' = raced \ {"mhz"}
       \/ /\ ShellRuns /\ shell.pc = "MHZ"
          /\ live' = [live EXCEPT !.mhz = shell.body.mhz]
          /\ shell' = [shell EXCEPT !.pc = "GOVERNOR", !.body = Nothing]
          /\ UNCHANGED <<raced, calls>>
       \/ /\ ShellRuns /\ shell.pc = "GOVERNOR"
          /\ live' = [live EXCEPT !.governor = "MANUAL"]
          /\ shell' = Idle
          /\ UNCHANGED <<raced, calls>>
    /\ touched' = TRUE
    /\ UNCHANGED unshown

(* m61_clock_command, governor.                                            *)
ShellSetsGovernor ==
    /\ ShellCalls
    /\ \E governor \in {"MANUAL", "REALTIME"} : live' = [live EXCEPT !.governor = governor]
    /\ touched' = TRUE
    /\ UNCHANGED <<shell, unshown, raced>>

(* ds5 mic on|off, and ds5 auto on|off.                                    *)
ShellSwitches ==
    /\ ShellCalls
    /\ \E f \in {"mic", "auto"} :
        /\ live' = [live EXCEPT ![f] = ~@]
        /\ unshown' = (unshown \/ f = "auto")
    /\ touched' = TRUE
    /\ UNCHANGED <<shell, raced>>

ShellSets ==
    /\ ShellSetsClock \/ ShellSetsGovernor \/ ShellSwitches
    /\ UNCHANGED <<store, phase, storage, copies, loaded, inherited, bridge, auto,
                   done, shown, stuck, kept, cuts, failures>>

(* Settings the shell has read at the places of the refresh: each is       *)
(* stored before the next is read, of the policy a copy is taken first.    *)
Hands ==
    <<{"mic"}, {"auto"}, {"led"}, {"poll"}, {"governor"}, {"governor", "profile"},
      Policy, {"profile", "mhz"}, {"mhz"}>>
FirstFields == {"mic", "auto", "governor"}

(* ds5 dvfs save (what = "ALL") and clear-saved ("RELEASE"): the refresh.  *)
ShellSave ==
    /\ ShellCalls /\ storage
    /\ \E what \in {"ALL", "RELEASE"} :
        shell' = [pc |-> "REFRESH", what |-> what, overtaken |-> FALSE, at |-> 1,
                  body |-> [f \in Hands[1] |-> live[f]]]
    /\ UNCHANGED <<copies, live, touched, unshown, raced, failures, kept, store, loaded,
                   inherited>>

(* From a place to the next: what leaves the hands is stored, what enters  *)
(* is read.  The frequency of a named profile is not stored.               *)
LastPlace ==
    shell.at = Len(Hands) \/ (shell.at = 8 /\ shell.body.profile \in DOMAIN Profiles)
ShellRefreshes ==
    /\ ShellRuns /\ shell.pc = "REFRESH"
    /\ LET next == IF LastPlace THEN {} ELSE Hands[shell.at + 1]
           left == IF shell.at = 8 THEN {"profile"} ELSE Hands[shell.at] \ next
       IN  /\ web' = [f \in AllFields |-> IF f \in left THEN shell.body[f] ELSE web[f]]
           /\ IF ~LastPlace
              THEN /\ shell' = [shell EXCEPT !.at = @ + 1,
                                  !.body = [f \in next |-> IF f \in DOMAIN @ THEN @[f] ELSE live[f]]]
                   /\ UNCHANGED odd
              ELSE IF Valid(web')
              THEN /\ shell' = [shell EXCEPT !.pc = "COPY", !.at = 0,
                                  !.body = [f \in FirstFields |-> web'[f]]]
                   /\ odd' = ~odd
              ELSE /\ shell' = [shell EXCEPT !.pc = "ENCODE", !.at = 0, !.body = Nothing]
                   /\ UNCHANGED odd
    /\ UNCHANGED <<runtime, live, touched, unshown, raced, calls, failures, kept, store,
                   loaded, inherited>>

(* m61_web_runtime_set: the copy is not made at once either.               *)
ShellCopies ==
    /\ ShellRuns /\ shell.pc \in {"COPY", "COPY REST"}
    /\ runtime' = [f \in AllFields |-> IF f \in InHand THEN shell.body[f] ELSE runtime[f]]
    /\ IF shell.pc = "COPY"
       THEN /\ shell' = [shell EXCEPT !.pc = "COPY REST",
                           !.body = [f \in AllFields \ FirstFields |-> web[f]]]
            /\ UNCHANGED <<odd, raced>>
       ELSE /\ shell' = [shell EXCEPT !.pc = "ENCODE", !.body = Nothing]
            /\ odd' = ~odd
            /\ raced' = IF shell.overtaken THEN raced ELSE raced \cap Split
    /\ UNCHANGED <<web, live, touched, unshown, calls, failures, kept, store,
                   loaded, inherited>>

(* m61_web_persistent_encode reads field by field: the host may apply a    *)
(* configuration in between.                                               *)
Saved(c) == IF shell.what = "ALL" THEN c ELSE WithPolicy(c, Defaults)
ShellEncodes ==
    /\ ShellRuns /\ shell.pc \in {"ENCODE", "ENCODE REST"}
    /\ shell' =
        IF shell.pc = "ENCODE" /\ ~Valid(Saved(web)) THEN Idle
        ELSE IF shell.pc = "ENCODE" THEN [shell EXCEPT !.pc = "ENCODE REST", !.body = Saved(web)]
        ELSE [shell EXCEPT !.pc = "WRITE",
                !.body = [f \in AllFields |->
                            IF f \in FirstFields THEN shell.body[f] ELSE Saved(web)[f]]]
    /\ UNCHANGED <<copies, live, touched, unshown, raced, calls, failures, kept, store,
                   loaded, inherited>>

(* The record, then clear_legacy_dvfs_if_loaded.                           *)
ShellWrites(ok) ==
    /\ ShellRuns /\ shell.pc = "WRITE" /\ Fails(ok)
    /\ IF ok
       THEN /\ flash' = Encoded(shell.body) /\ loaded' = TRUE
            /\ kept' = Norm(IF shell.overtaken THEN shell.body ELSE Saved(Acting(web)))
            /\ touched' = (shell.overtaken \/ shell.what = "RELEASE")
            /\ shell' = IF inherited THEN [shell EXCEPT !.pc = "CLEAR"] ELSE Idle
       ELSE shell' = Idle /\ UNCHANGED <<flash, loaded, kept, touched>>
    /\ UNCHANGED <<copies, live, unshown, raced, calls, legacy, inherited>>
ShellClears(ok) ==
    /\ ShellRuns /\ shell.pc = "CLEAR" /\ Fails(ok)
    /\ IF ok THEN legacy' = NoLegacy /\ inherited' = FALSE ELSE UNCHANGED <<legacy, inherited>>
    /\ shell' = Idle
    /\ UNCHANGED <<copies, live, touched, unshown, raced, calls, flash, loaded, kept>>

ShellSaves ==
    /\ \/ ShellSave \/ ShellRefreshes \/ ShellCopies \/ ShellEncodes
       \/ \E ok \in BOOLEAN : ShellWrites(ok) \/ ShellClears(ok)
    /\ UNCHANGED <<phase, storage, bridge, auto, done, shown, stuck, cuts>>

-----------------------------------------------------------------------------
(* The auto task: the power policy takes a copy of the settings, then the  *)
(* results of the commands are shown.  It waits for an even counter, and   *)
(* only a shell that it keeps from running could make it even.             *)

AutoRuns == Running /\ bridge = Idle
FaultShows == IF auto.ok = shown.ok THEN shown ELSE [ok |-> auto.ok, seq |-> auto.seq]
Shows == [ok |-> auto.ok, seq |-> auto.seq]
AutoTurn ==
    /\ AutoRuns
    /\ \/ /\ auto.pc = "ASLEEP"
          /\ auto' = [auto EXCEPT !.pc = IF odd THEN "SPIN" ELSE "RESULT"]
          /\ UNCHANGED shown
       \/ /\ auto.pc = "RESULT"
          /\ auto' = [auto EXCEPT !.pc = "SEQUENCE", !.ok = done.ok]
          /\ UNCHANGED shown
       \/ /\ auto.pc = "SEQUENCE"
          /\ auto' = [auto EXCEPT !.pc = "SHOW", !.seq = done.seq]
          /\ UNCHANGED shown
       \/ /\ auto.pc = "SHOW"
          /\ shown' = Shows
          /\ auto' = Asleep
    /\ UNCHANGED <<store, phase, storage, copies, loaded, inherited, live, bridge,
                   shell, done, stuck, history>>

-----------------------------------------------------------------------------
(* usbd_hid_get_report in the interrupt, for the settings and for the      *)
(* telemetry: it reads again until the counter is even.                    *)

Answer ==
    LET c == [f \in AllFields |->
                IF f = "mic" \/ f \in {"governor", "profile"}
                    \/ (f = "mhz" /\ live.profile \notin DOMAIN Profiles)
                THEN live[f] ELSE runtime[f]]
    IN  IF Valid(c) THEN Norm(c) ELSE NoRecord

HostReads ==
    /\ phase = "READY" /\ ~stuck
    /\ odd \/ auto.pc = "SHOW"
    /\ stuck' = TRUE
    /\ UNCHANGED <<store, phase, storage, copies, loaded, inherited, live, bridge,
                   shell, auto, done, shown, history>>

Next ==
    \/ PowerOn \/ BluetoothReady \/ Migrate \/ PowerCut
    \/ \E c \in Requests : Apply(c)
    \/ Save \/ HostCommandEnds \/ ShellSets \/ ShellSaves \/ AutoTurn \/ HostReads

Spec == Init /\ [][Next]_vars
FairSpec == Spec /\ WF_vars(AutoTurn) /\ WF_vars(HostCommandEnds)

-----------------------------------------------------------------------------
(* Correctness                                                             *)

(* Well typed; a reader never sees settings that are not valid, and none   *)
(* of them sees the counter odd when nobody writes.                        *)
TypeOK ==
    /\ flash \in {NoRecord} \/ Fields(flash.version) = DOMAIN flash.body
    /\ legacy = NoLegacy \/ DOMAIN legacy = Policy
    /\ phase \in {"OFF", "LOADED", "MIGRATE", "CLEAR", "READY"}
    /\ DOMAIN web = AllFields /\ DOMAIN runtime = AllFields /\ DOMAIN live = Owned
    /\ DOMAIN kept = AllFields
    /\ Valid(runtime)
    /\ odd => shell.pc \in {"COPY", "COPY REST"} \/ bridge # Idle
    /\ auto.pc \in {"ASLEEP", "SPIN", "RESULT", "SEQUENCE", "SHOW"}
    /\ done.seq \in 0 .. MaxCalls /\ shown.seq <= done.seq
    /\ {storage, loaded, inherited, stuck, touched, unshown} \subseteq BOOLEAN

(* Settings that were saved, by this firmware or an older one, act again   *)
(* after the next start, whatever failed and wherever the power was cut:   *)
(* a record of an old version with the defaults for what it lacks, the     *)
(* frequency of an old firmware in spite of its own record being removed,  *)
(* a record that is not sound as the defaults (PROTOCOL.md:113-121).       *)
SettingsSurvive ==
    phase = "READY" /\ storage /\ ~touched /\ shell.pc # "MHZ"
        => \A f \in AllFields \ raced : InForce[f] = kept[f]

(* When nobody writes, what the host is answered are the settings that     *)
(* act, although they are kept in three places and written by two tasks    *)
(* without a lock.  Excepted are exactly the ones the host applied between *)
(* the shell's reading the old one and its storing it (raced), until a     *)
(* save of either publishes them anew; and the reconnection that the shell *)
(* switched, which no writer publishes.  A frequency beyond 400 MHz has    *)
(* no answer.                                                              *)
TruthfulAnswer ==
    /\ phase = "READY" /\ bridge = Idle
    /\ shell.pc \notin {"COPY", "COPY REST", "MHZ"}
    /\ Answer # NoRecord
    => \A f \in AllFields \ raced : (f = "auto" /\ unshown) \/ Answer[f] = InForce[f]

(* The settings a reader sees are valid, whole and the ones in force.      *)
Consistent == TypeOK /\ TruthfulAnswer

(* The host learns how its last command ended, although the auto task      *)
(* reads the result and its number one after the other (main.c:3266), in   *)
(* its next turn at the latest; unless a reader waits for ever.            *)
HostLearnsResult ==
    shown # done ~> shown = done \/ stuck \/ auto.pc = "SPIN"

(* "Keep USB and Bluetooth callbacks bounded and non-blocking"             *)
(* (DEVELOPMENT.md:61): a callback that finds a counter odd waits for a    *)
(* task that it interrupts.                                                *)
CallbacksReturn == ~stuck
=============================================================================
