-------------------------------- MODULE Dvfs --------------------------------
(***************************************************************************)
(* The clock governor (m61_dvfs.c).  Requests leave their mark in shared   *)
(* variables and notify a worker, the only one to change the clock; it     *)
(* looks at the requests, raises the clock at once, lowers it after a      *)
(* delay, and sleeps until a request ends or it is notified.               *)
(*                                                                         *)
(* Priorities: USB callbacks above the codec task, the bridge, the worker  *)
(* and the shell, in this order.  So a task is between two of its steps    *)
(* when a higher one acts, and never when a lower one does.  The codec     *)
(* notes activity, a USB callback enables and disables the audio streams,  *)
(* the bridge applies a configuration, the shell sets a frequency or asks  *)
(* for a boost; whoever asks for the status clears a boost that has ended. *)
(* Of the four clients of the boosts the program uses APPLICATION, and     *)
(* nothing in it asks for a floor.                                         *)
(***************************************************************************)
EXTENDS Integers, FiniteSets, FiniteSetsExt

CONSTANTS
    Modulus,       \* of the tick counter (2^32 in the code)
    Starts,        \* ticks at which a behaviour may begin
    AudioHold,     \* M61_DVFS_AUDIO_ACTIVITY_HOLD_MS
    BoostHolds,    \* durations of the boosts the shell asks for
    Delay,         \* M61_DVFS_DOWNSHIFT_DELAY_MS
    Residency,     \* M61_DVFS_MIN_RESIDENCY_MS
    Frequencies,   \* the shell and the configuration choose
    Experimental,  \* only the shell and the build choose (lock ... experimental)
    Boosts,        \* the shell asks for; zero ends one
    MaxLag,        \* bound: ticks the worker may be held up when it is due
    MaxTicks,      \* bound: ticks of a behaviour
    MaxCalls,      \* bound: requests of a behaviour
    MaxFailures    \* bound: clock changes that fail

DefaultMhz == 320   \* M61_DVFS_DEFAULT_MHZ
OneStream == 384
BothStreams == 400  \* M61_DVFS_VALIDATED_MAX_MHZ
ExperimentalMax == 480   \* M61_DVFS_EXPERIMENTAL_MAX_MHZ
Forever == -1       \* portMAX_DELAY

ASSUME DvfsAssumption ==
    /\ \A n \in {AudioHold, Delay, Residency} \cup BoostHolds : n \in Nat \ {0}
    /\ \A n \in {MaxLag, MaxTicks, MaxCalls, MaxFailures} : n \in Nat
    /\ Modulus \in Nat /\ Modulus % 2 = 0 /\ Starts \subseteq 0 .. Modulus - 1
    /\ Residency <= Delay
    /\ \A n \in BoostHolds \cup {AudioHold, Delay} : MaxTicks + n < Modulus \div 2
    /\ Frequencies \cup (Boosts \ {0}) \subseteq DefaultMhz .. BothStreams
    /\ Experimental \subseteq BothStreams + 1 .. ExperimentalMax

VARIABLES
    now,           \* the tick counter
    governor,      \* dvfs_governor
    manualMhz,     \* dvfs_manual_mhz
    boost, boostUntil,   \* dvfs_client_boost and ..._until of APPLICATION
    enabled,       \* dvfs_speaker_enabled, dvfs_mic_enabled: streams
    active, activeUntil, \* dvfs_..._active and ..._active_until
    current,       \* dvfs_current_mhz
    hardware,      \* frequency the CPU has
    failure,       \* dvfs_last_error: "NONE", "EARLY", or "LATE" (the divider)
    worker,        \* the worker: where it is, and its local variables
    sleep,         \* ticks the worker still sleeps
    notified,      \* its task notification
    codec,         \* a call of m61_dvfs_note_audio_activity, or Idle
    shell,         \* a call of the shell under way, or Idle
    late,          \* ticks the worker is held up
    ticks, calls, failures,  \* used of the bounds (history)
    calm,          \* ticks since Wanted changed (history)
    asked, quiet,  \* what the last look found asked for, for how long (history)
    missed         \* an end the worker has seen is not waited for (history)

manualVars == <<governor, manualMhz>>
boostVars == <<boost, boostUntil>>
streamVars == <<enabled, active, activeUntil>>
requests == <<manualVars, boostVars, streamVars>>
time == <<now, late, ticks>>
clock == <<current, hardware, failure, failures>>
vars == <<time, requests, clock, worker, sleep, notified, codec, shell, calls, calm, asked, quiet, missed>>

Streams == {"SPEAKER", "MIC"}
Idle == [op |-> "IDLE"]
FaultPlus(t, n) == t + n
Plus(t, n) == (t + n) % Modulus
Since(t, u) == (t - u + Modulus) % Modulus

(* dvfs_tick_before: the sign bit of the difference.                       *)
Before(t, u) == Since(t, u) >= Modulus \div 2

-----------------------------------------------------------------------------
(* What is asked for                                                       *)

RunningOf(on, until, t) == {s \in Streams : on[s] /\ Before(t, until[s])}
Running(t) == RunningOf(active, activeUntil, t)
AudioFloor(running) ==
    CASE running = Streams -> BothStreams
      [] running = {} -> 0
      [] OTHER -> OneStream
Boosted(t) == boost # 0 /\ Before(t, boostUntil)
Floor(t) ==
    Max({DefaultMhz, AudioFloor(Running(t))} \cup (IF Boosted(t) THEN {boost} ELSE {}))

(* The next end of a request: zero stands for none, also when the request  *)
(* ends at tick zero.                                                      *)
Earlier(next, end) == IF next = 0 \/ Before(end, next) THEN end ELSE next
AudioExpiry(t) ==
    LET speaker == IF "SPEAKER" \in Running(t) THEN activeUntil["SPEAKER"] ELSE 0
    IN  IF "MIC" \in Running(t) THEN Earlier(speaker, activeUntil["MIC"]) ELSE speaker
NextExpiry(t) ==
    LET boosts == IF Boosted(t) THEN boostUntil ELSE 0
    IN  IF AudioExpiry(t) # 0 THEN Earlier(boosts, AudioExpiry(t)) ELSE boosts

ClearEndedBoost == boost' = IF Boosted(now) THEN boost ELSE 0

Wanted == IF governor = "MANUAL" THEN manualMhz ELSE Floor(now)

Init ==
    /\ now \in Starts
    /\ governor \in {"MANUAL", "REALTIME"} /\ manualMhz \in Frequencies \cup Experimental
    /\ boost = 0 /\ boostUntil = 0
    /\ enabled = {} /\ active = [s \in Streams |-> FALSE]
    /\ activeUntil = [s \in Streams |-> 0]
    /\ current = manualMhz /\ hardware = manualMhz /\ failure = "NONE"
    /\ worker = [pc |-> "ASLEEP", seenAt |-> 0, target |-> 0, expiry |-> 0,
                 manual |-> FALSE, lastTransition |-> now, since |-> 0,
                 pending |-> 0]
    /\ sleep = 0 /\ notified = FALSE
    /\ codec = Idle /\ shell = Idle
    /\ late = 0 /\ ticks = 0 /\ calls = 0 /\ failures = 0 /\ calm = 0
    /\ asked = 0 /\ quiet = 0 /\ missed = FALSE

-----------------------------------------------------------------------------
(* The worker                                                              *)

Due == sleep = 0 \/ notified
Resting == worker.pc = "ASLEEP" /\ ~Due

(* The notification or the end of the wait, and a look at the requests.    *)
Look ==
    /\ codec = Idle /\ worker.pc = "ASLEEP" /\ Due
    /\ notified' = FALSE
    /\ worker' = [worker EXCEPT
         !.pc = "APPLY", !.seenAt = now, !.target = Wanted,
         !.manual = governor = "MANUAL",
         !.expiry = IF governor = "MANUAL" THEN 0 ELSE NextExpiry(now)]
    /\ IF governor = "MANUAL" THEN UNCHANGED boost ELSE ClearEndedBoost
    /\ UNCHANGED <<time, manualVars, boostUntil, streamVars, clock, sleep, codec, shell, calls>>

(* dvfs_apply_hardware_frequency and dvfs_record_transition.  A failure    *)
(* before the clock is selected selects the default one; when the divider  *)
(* fails afterwards, the CPU has the frequency asked for.                  *)
FaultChange(mhz) ==
    \/ /\ current' = mhz /\ hardware' = mhz /\ failure' = "NONE"
       /\ UNCHANGED failures
    \/ /\ failures < MaxFailures /\ failures' = failures + 1
       /\ UNCHANGED current
       /\ \/ hardware' = DefaultMhz /\ failure' = "EARLY"
          \/ hardware' = mhz /\ failure' = "LATE"
Change(mhz) ==
    \/ /\ current' = mhz /\ hardware' = mhz /\ failure' = "NONE"
       /\ UNCHANGED failures
    \/ /\ failures < MaxFailures /\ failures' = failures + 1
       /\ current' = DefaultMhz
       /\ \/ hardware' = DefaultMhz /\ failure' = "EARLY"
          \/ hardware' = mhz /\ failure' = "LATE"

Transition ==
    /\ Change(worker.target)
    /\ worker' = [worker EXCEPT !.pc = "WAIT", !.lastTransition = worker.seenAt,
                                !.pending = 0, !.since = 0]

(* A lower frequency is pending since it was first seen.                   *)
FaultPendingSince == IF worker.pending # 0 THEN worker.since ELSE worker.seenAt
PendingSince == IF worker.pending = worker.target THEN worker.since ELSE worker.seenAt
MayLower ==
    /\ Since(worker.seenAt, PendingSince) >= Delay
    /\ Since(worker.seenAt, worker.lastTransition) >= Residency

AtOnce == worker.target > current \/ (worker.manual /\ worker.target # current)

Apply ==
    /\ codec = Idle /\ worker.pc = "APPLY"
    /\ IF AtOnce \/ (worker.target < current /\ MayLower) THEN Transition
       ELSE /\ worker' = IF worker.target < current
              THEN [worker EXCEPT !.pc = "WAIT", !.pending = worker.target,
                                  !.since = PendingSince]
              ELSE [worker EXCEPT !.pc = "WAIT", !.pending = 0, !.since = 0]
            /\ UNCHANGED clock
    /\ UNCHANGED <<time, requests, sleep, notified, codec, shell, calls>>

(* How long to sleep, from the pending frequency and the next expiry.  An  *)
(* expiry that has passed since the look, or is zero, is not waited for.   *)
Deadline == Plus(worker.since, Delay)
PendingWait ==
    IF worker.pending = 0 THEN {}
    ELSE IF Before(now, Deadline) THEN {Since(Deadline, now)} ELSE {1}
ExpiryWait ==
    IF worker.expiry # 0 /\ Before(now, worker.expiry)
    THEN {Since(worker.expiry, now)} ELSE {}

FaultWaits == ExpiryWait
Waits == PendingWait \cup ExpiryWait

Wait ==
    /\ codec = Idle /\ worker.pc = "WAIT"
    /\ sleep' = IF Waits = {} THEN Forever ELSE Min(Waits)
    /\ worker' = [worker EXCEPT !.pc = "ASLEEP", !.seenAt = 0, !.target = 0,
                                !.expiry = 0, !.manual = FALSE]
    /\ late' = 0
    /\ UNCHANGED <<now, ticks, requests, clock, notified, codec, shell, calls>>

-----------------------------------------------------------------------------
(* The callers.  A call counts against MaxCalls when it begins.            *)

Call == calls < MaxCalls /\ calls' = calls + 1

(* A USB callback (update_dvfs_audio_load): m61_dvfs_set_audio_enabled.    *)
SetAudioEnabled(on) ==
    /\ Call /\ on # enabled
    /\ enabled' = on
    /\ LET off == {s \in Streams \ on : active[s]}
       IN /\ active' = [s \in Streams |-> active[s] /\ s \notin off]
          /\ activeUntil' = [s \in Streams |-> IF s \in off THEN 0 ELSE activeUntil[s]]
          /\ notified' = (notified \/ off # {})
    /\ UNCHANGED <<time, manualVars, boostVars, clock, worker, sleep, codec, shell>>

(* m61_dvfs_note_audio_activity, begun: what is enabled, what was active.  *)
NoteBegin(work) ==
    /\ codec = Idle /\ Call
    /\ work \cap enabled # {}
    /\ codec' = [op |-> "NOTE", work |-> work \cap enabled,
                 floor |-> AudioFloor(Running(now))]
    /\ UNCHANGED <<time, requests, clock, worker, sleep, notified, shell>>

(* ... and its end: leases, and a notification if they raise what is asked *)
(* for.                                                                    *)
FaultRaises(before, after) == before = 0
Raises(before, after) == after > before
NoteEnd ==
    /\ codec # Idle
    /\ active' = [s \in Streams |-> active[s] \/ s \in codec.work]
    /\ activeUntil' = [s \in Streams |->
         IF s \in codec.work THEN Plus(now, AudioHold) ELSE activeUntil[s]]
    /\ notified' = (notified \/ Raises(codec.floor,
                     AudioFloor(RunningOf(active', activeUntil', now))))
    /\ codec' = Idle
    /\ UNCHANGED <<time, manualVars, boostVars, enabled, clock, worker, sleep, shell, calls>>

(* The bridge applies a configuration: a frequency, then the governor.     *)
ApplyConfig(mhz, g) ==
    /\ codec = Idle /\ Call
    /\ manualMhz' = mhz /\ governor' = g /\ notified' = TRUE
    /\ UNCHANGED <<time, boostVars, streamVars, clock, worker, sleep, codec, shell>>

(* The shell, below the worker.  Two stores for a frequency or a boost,    *)
(* between which the others act.                                           *)
ShellRuns == codec = Idle /\ Resting
ShellManual(mhz) ==
    /\ ShellRuns /\ shell = Idle /\ Call
    /\ manualMhz' = mhz /\ shell' = [op |-> "MANUAL"]
    /\ UNCHANGED <<time, governor, boostVars, streamVars, clock, worker, sleep, notified, codec>>
ShellGovernor(g) ==
    /\ ShellRuns
    /\ \/ shell.op = "MANUAL" /\ g = "MANUAL" /\ UNCHANGED calls
       \/ shell = Idle /\ Call
    /\ governor' = g /\ notified' = TRUE /\ shell' = Idle
    /\ UNCHANGED <<time, manualMhz, boostVars, streamVars, clock, worker, sleep, codec>>
ShellBoost(mhz, hold) ==
    /\ ShellRuns /\ shell = Idle /\ Call
    /\ boost' = mhz
    /\ shell' = [op |-> "BOOST", until |-> IF mhz = 0 THEN now ELSE Plus(now, hold)]
    /\ UNCHANGED <<time, manualVars, boostUntil, streamVars, clock, worker, sleep, notified, codec>>
ShellBoostEnd ==
    /\ ShellRuns /\ shell.op = "BOOST"
    /\ boostUntil' = shell.until /\ notified' = TRUE /\ shell' = Idle
    /\ UNCHANGED <<time, manualVars, boost, streamVars, clock, worker, sleep, codec, calls>>

(* m61_dvfs_get_status, by a USB callback or the bridge.                   *)
GetStatus ==
    /\ boost # 0 /\ ~Boosted(now) /\ ClearEndedBoost
    /\ UNCHANGED <<time, manualVars, boostUntil, streamVars, clock, worker, sleep, notified, codec, shell, calls>>

(* Time.  A worker that is due or at work is held up MaxLag ticks at most, *)
(* a call of the codec none: what is above them never runs for long.       *)
Tick ==
    /\ ticks < MaxTicks /\ ticks' = ticks + 1
    /\ codec = Idle
    /\ now' = Plus(now, 1)
    /\ IF Resting
       THEN /\ sleep' = IF sleep = Forever THEN Forever ELSE sleep - 1
            /\ UNCHANGED late
       ELSE /\ late < MaxLag /\ late' = late + 1
            /\ UNCHANGED sleep
    /\ UNCHANGED <<requests, clock, worker, notified, codec, shell, calls>>

(* How long the same frequency has been asked for, and how long all looks  *)
(* of the worker have found the same one.  Not counted in the first is the *)
(* time the worker sleeps on after an end it does not wait for: one that   *)
(* passed between its look and its wait, or one at tick zero.              *)
OneMore(n, cap) == IF now' = now THEN n ELSE Min({n + 1, cap})
Patience == Max({Delay, MaxLag + 1}) + Delay + 3 * MaxLag
InForce(until) ==
    \/ \E s \in Running(now) : until = activeUntil[s]
    \/ Boosted(now) /\ until = boostUntil
Passed == worker.expiry # 0 /\ ~Before(now, worker.expiry)
Overslept == Resting /\ worker.pending = 0 /\ current > Wanted /\ missed
Looks == worker.pc = "ASLEEP" /\ worker'.pc = "APPLY"
Observe ==
    /\ calm' = IF Wanted' # Wanted \/ shell' # shell \/ Overslept THEN 0
              ELSE OneMore(calm, Patience + 1)
    /\ asked' = IF Looks THEN Wanted ELSE asked
    /\ quiet' = IF Looks /\ Wanted # asked THEN 0 ELSE OneMore(quiet, Delay)
    /\ missed' = IF Looks THEN InForce(0)
                ELSE missed \/ (worker.pc = "WAIT" /\ worker'.pc = "ASLEEP" /\ Passed)

WorkerStep == Look \/ Apply \/ Wait
Request ==
    \/ \E on \in SUBSET Streams : SetAudioEnabled(on)
    \/ \E work \in SUBSET Streams : NoteBegin(work)
    \/ NoteEnd
    \/ \E mhz \in Frequencies, g \in {"MANUAL", "REALTIME"} : ApplyConfig(mhz, g)
    \/ \E mhz \in Frequencies \cup Experimental : ShellManual(mhz)
    \/ \E g \in {"MANUAL", "REALTIME"} : ShellGovernor(g)
    \/ \E mhz \in Boosts, hold \in BoostHolds : ShellBoost(mhz, hold)
    \/ ShellBoostEnd
    \/ GetStatus

Next == (WorkerStep \/ Request \/ Tick) /\ Observe

Spec == Init /\ [][Next]_vars

-----------------------------------------------------------------------------
(* Properties                                                              *)

Times == 0 .. Modulus - 1
Mhz == Frequencies \cup Experimental \cup Boosts \cup {DefaultMhz, OneStream, BothStreams}

(* The variables are well typed: the clock has a frequency that            *)
(* dvfs_frequency_valid lets pass, sleeps are never negative, and a        *)
(* notification wakes a worker that does not run already.                  *)
TypeOK ==
    /\ {now, boostUntil, worker.seenAt, worker.lastTransition, worker.since} \subseteq Times
    /\ \A s \in Streams : activeUntil[s] \in Times
    /\ {current, hardware, manualMhz} \subseteq Mhz \ {0} /\ boost \in Boosts \cup {0}
    /\ worker.pc \in {"ASLEEP", "APPLY", "WAIT"}
    /\ sleep \in {Forever} \cup 0 .. Modulus \div 2
    /\ enabled \subseteq Streams /\ active \in [Streams -> BOOLEAN]
    /\ late \in 0 .. MaxLag

(* Whenever the worker sleeps and no one has woken it, the clock is as     *)
(* fast as what is asked for now, or the last change failed: activity that *)
(* wakes nobody (m61_dvfs.c:554) never leaves the clock too slow.  A boost *)
(* half written by the shell is not yet asked for.                         *)
DemandMet ==
    Resting /\ shell = Idle /\ failure = "NONE"
        => IF governor = "MANUAL" THEN current = manualMhz ELSE current >= Wanted

(* The clock falls in time: what has been asked for long enough is not     *)
(* exceeded.  Long enough is the delay, a delay under way for another      *)
(* frequency that is not left off when the streams end (m61_dvfs.c:326),   *)
(* and three turns of the worker.                                          *)
FallsInTime == calm > Patience /\ shell = Idle => current <= Wanted

(* The realtime governor lowers the clock only to a frequency that every   *)
(* look for all the delay found asked for (M61_DVFS_DOWNSHIFT_DELAY_MS,    *)
(* m61_dvfs.c:329-336): a pause of a stream or the end of a boost does not *)
(* toggle the PLL.  From an experimental frequency it falls to 400 MHz     *)
(* while both streams run, after the same delay.                           *)
CalmBeforeDrop ==
    [][Apply /\ ~worker.manual /\ current' < current /\ failure' = "NONE"
         => current' = asked /\ quiet >= Delay]_vars

(* What the status says of the clock is what the CPU has, unless the       *)
(* divider failed after the clock was selected (m61_dvfs.c:193).           *)
HardwareKnown == hardware = current \/ failure = "LATE"

(* The clock the CPU really has meets the demand: what the governor        *)
(* believes is right, and enough (m61_dvfs.c:133-361).                     *)
ClockMeets == TypeOK /\ DemandMet /\ HardwareKnown
=============================================================================
