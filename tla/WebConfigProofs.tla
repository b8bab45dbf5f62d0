-------------------------- MODULE WebConfigProofs ---------------------------
(* Proofs about the settings, for all configurations the host may apply,   *)
(* all records the dongle may start from and any number of commands, power *)
(* failures and failing flash operations.                                  *)
EXTENDS WebConfig, TLAPS

USE DEF store, copies, history

-----------------------------------------------------------------------------
(* What the operators on configurations do                                 *)

(* A configuration says what acts: it differs from the variables in the    *)
(* frequency of a profile at most.                                         *)
Agree(c, l) ==
    \A f \in Owned : c[f] = l[f] \/ (f = "mhz" /\ l.profile \in DOMAIN Profiles)

(* The settings in force, for a limit and for what the variables hold.     *)
ActingOf(limit, l) == [f \in AllFields |-> IF f = "idle" THEN limit ELSE l[f]]
RefreshedFrom(c, l) ==
    [f \in AllFields |->
        IF f \in {"idle", "dead"} \/ (f = "mhz" /\ l.profile \in DOMAIN Profiles)
        THEN c[f] ELSE l[f]]

(* The settings a start makes of the records.                              *)
Restored(record, old) ==
    IF Readable(record) THEN Norm(Decoded(record.version, record.body))
    ELSE IF old # NoLegacy THEN WithPolicy(Defaults, old)
    ELSE Defaults

(* The fields of a configuration, one by one.                              *)
LEMMA FieldsAre ==
  /\ AllFields = {"mic", "auto", "governor", "profile", "mhz", "idle", "dead", "poll", "led"}
  /\ Owned = {"mic", "auto", "governor", "profile", "mhz", "dead", "poll", "led"}
  /\ Fields(5) = AllFields
  /\ \A version \in 1 .. 5 : Fields(version) \subseteq AllFields
  /\ \A version \in 1 .. 5 : Policy \cup {"mic", "auto"} \subseteq Fields(version)
BY DEF AllFields, Owned, Fields, Schema, Policy

(* The frequencies of the profiles, and which ones were validated.         *)
LEMMA ProfilesAre ==
  /\ DOMAIN Profiles = {"ECO", "PERFORMANCE"}
  /\ Profiles["ECO"] = 320 /\ Profiles["PERFORMANCE"] = 400
  /\ 320 \in Validated /\ 400 \in Validated
  /\ \A p \in DOMAIN Profiles : Profiles[p] \in Validated
<1>1. DOMAIN Profiles = {"ECO", "PERFORMANCE"} /\ Profiles["ECO"] = 320 /\ Profiles["PERFORMANCE"] = 400
  BY DEF Profiles
<1>2. 320 \in Validated /\ 400 \in Validated
  BY DEF Validated
<1> QED
  BY <1>1, <1>2

(* The settings a dongle is delivered with.                                *)
LEMMA DefaultsAre ==
  /\ IsOn(Defaults, AllFields) /\ Normal(Defaults) /\ Valid(Defaults)
  /\ IsOn(Factory, Owned) /\ Normal(Factory)
  /\ \A f \in Owned : Factory[f] = Defaults[f]
  /\ Defaults.poll = "REALTIME" /\ Defaults.mhz = 320 /\ Defaults.profile = "ECO"
<1>1. /\ IsOn(Defaults, AllFields) /\ Defaults.poll = "REALTIME" /\ Defaults.mhz = 320
      /\ Defaults.profile = "ECO"
  BY FieldsAre DEF Defaults, IsOn
<1>2. IsOn(Factory, Owned) /\ \A f \in Owned : Factory[f] = Defaults[f]
  BY DEF Factory, IsOn
<1>3. Factory.profile = "ECO" /\ Factory.mhz = 320
  BY <1>1, <1>2, FieldsAre
<1> QED
  BY <1>1, <1>2, <1>3, ProfilesAre DEF Normal, Valid

(* Norm changes the frequency of a profile and nothing else.               *)
LEMMA NormIs ==
  ASSUME NEW c, IsOn(c, AllFields)
  PROVE  /\ IsOn(Norm(c), AllFields) /\ Normal(Norm(c))
         /\ \A f \in AllFields : f # "mhz" => Norm(c)[f] = c[f]
         /\ Norm(c).mhz = IF c.profile \in DOMAIN Profiles THEN Profiles[c.profile] ELSE c.mhz
         /\ Normal(c) => Norm(c) = c
         /\ Valid(c) => Valid(Norm(c))
<1>1. CASE c.profile \in DOMAIN Profiles
  <2>1. Norm(c) = [c EXCEPT !.mhz = Profiles[c.profile]]
    BY <1>1 DEF Norm
  <2>2. DOMAIN c = AllFields
    BY DEF IsOn
  <2>3. /\ \A f \in AllFields : f # "mhz" => Norm(c)[f] = c[f]
        /\ Norm(c).mhz = Profiles[c.profile]
    BY <2>1, <2>2, FieldsAre
  <2>4. IsOn(Norm(c), AllFields)
    BY <2>1, <2>2 DEF IsOn
  <2>5. Normal(c) => Norm(c) = c
    BY <1>1, <2>1 DEF Normal, IsOn
  <2>6. Norm(c).profile = c.profile /\ Norm(c).poll = c.poll
    BY <2>3, FieldsAre
  <2>7. Norm(c).mhz \in Validated
    BY <1>1, <2>3, ProfilesAre
  <2> QED
    BY <1>1, <2>3, <2>4, <2>5, <2>6, <2>7 DEF Normal, Valid
<1>2. CASE c.profile \notin DOMAIN Profiles
  BY <1>2 DEF Norm, Normal
<1> QED
  BY <1>1, <1>2

(* Two configurations are the same when their fields are.                  *)
LEMMA Same ==
  ASSUME NEW c, NEW d, NEW S, IsOn(c, S), IsOn(d, S), \A f \in S : c[f] = d[f]
  PROVE  c = d
BY DEF IsOn

(* A configuration that agrees with the variables means what acts.         *)
LEMMA NormAgreeing ==
  ASSUME NEW c, NEW l, IsOn(c, AllFields), Agree(c, l)
  PROVE  Norm(c) = Norm(ActingOf(c.idle, l))
<1> DEFINE a == ActingOf(c.idle, l)
<1>1. IsOn(a, AllFields)
  BY DEF ActingOf, IsOn
<1>2. a.idle = c.idle /\ \A f \in Owned : a[f] = l[f]
  BY FieldsAre DEF ActingOf
<1> HIDE DEF a
<1>3. \A f \in AllFields : Norm(c)[f] = Norm(a)[f]
  <2> SUFFICES ASSUME NEW f \in AllFields PROVE Norm(c)[f] = Norm(a)[f]
    OBVIOUS
  <2>0. c.profile = l.profile /\ a.profile = l.profile /\ a.mhz = l.mhz
        /\ (c.mhz = l.mhz \/ l.profile \in DOMAIN Profiles)
    BY <1>2, FieldsAre DEF Agree
  <2>1. CASE f = "mhz"
    BY <1>1, <2>0, <2>1, NormIs
  <2>2. CASE f = "idle"
    BY <1>1, <1>2, <2>2, NormIs
  <2>3. CASE f \notin {"mhz", "idle"}
    <3>1. Norm(c)[f] = c[f] /\ Norm(a)[f] = a[f]
      BY <1>1, <2>3, NormIs
    <3> QED
      BY <1>2, <2>3, <3>1, FieldsAre DEF Agree
  <2> QED
    BY <2>1, <2>2, <2>3
<1>4. Norm(c) = Norm(a)
  BY <1>1, <1>3, NormIs, Same
<1> QED
  BY <1>4 DEF a

(* And where the variables are in order it means them as they are.         *)
LEMMA NormActing ==
  ASSUME NEW c, NEW l, IsOn(c, AllFields), Normal(l), Agree(c, l)
  PROVE  Norm(c) = ActingOf(c.idle, l)
<1>1. IsOn(ActingOf(c.idle, l), AllFields)
  BY DEF ActingOf, IsOn
<1>2. \A f \in AllFields : Norm(c)[f] = ActingOf(c.idle, l)[f]
  <2> SUFFICES ASSUME NEW f \in AllFields PROVE Norm(c)[f] = ActingOf(c.idle, l)[f]
    OBVIOUS
  <2>0. c.profile = l.profile
    BY FieldsAre DEF Agree
  <2>1. CASE f = "mhz"
    BY <2>0, <2>1, NormIs, FieldsAre DEF Agree, ActingOf, Normal
  <2>2. CASE f # "mhz"
    BY <2>2, NormIs, FieldsAre DEF Agree, ActingOf
  <2> QED
    BY <2>1, <2>2
<1> QED
  BY <1>1, <1>2, NormIs, Same

(* What acts needs no normalisation.                                       *)
LEMMA ActingIs ==
  ASSUME NEW i, NEW l, Normal(l)
  PROVE  /\ IsOn(ActingOf(i, l), AllFields) /\ Norm(ActingOf(i, l)) = ActingOf(i, l)
         /\ ActingOf(i, l).idle = i
         /\ \A f \in Owned : ActingOf(i, l)[f] = l[f]
<1>1. IsOn(ActingOf(i, l), AllFields)
  BY DEF ActingOf, IsOn
<1>2. ActingOf(i, l).idle = i /\ \A f \in Owned : ActingOf(i, l)[f] = l[f]
  BY FieldsAre DEF ActingOf
<1>3. Normal(ActingOf(i, l))
  BY <1>2, FieldsAre DEF Normal
<1> QED
  BY <1>1, <1>2, <1>3, NormIs

(* A refresh takes everything from the variables that they hold.           *)
LEMMA RefreshedIs ==
  ASSUME NEW c, NEW l
  PROVE  /\ IsOn(RefreshedFrom(c, l), AllFields)
         /\ RefreshedFrom(c, l).idle = c.idle /\ RefreshedFrom(c, l).dead = c.dead
         /\ RefreshedFrom(c, l).auto = l.auto
         /\ RefreshedFrom(c, l).poll = l.poll /\ RefreshedFrom(c, l).led = l.led
         /\ RefreshedFrom(c, l).mhz \in {c.mhz, l.mhz}
         /\ \A f \in Owned : RefreshedFrom(c, l)[f] \in {c[f], l[f]}
         /\ c.dead = l.dead => Agree(RefreshedFrom(c, l), l)
         /\ IsOn(c, AllFields) /\ Agree(c, l) => RefreshedFrom(c, l) = c
<1>1. IsOn(RefreshedFrom(c, l), AllFields)
  BY DEF RefreshedFrom, IsOn
<1>2. \A f \in AllFields : RefreshedFrom(c, l)[f] =
          IF f \in {"idle", "dead"} \/ (f = "mhz" /\ l.profile \in DOMAIN Profiles)
          THEN c[f] ELSE l[f]
  BY DEF RefreshedFrom
<1>3. c.dead = l.dead => Agree(RefreshedFrom(c, l), l)
  BY <1>2, FieldsAre DEF Agree
<1>5. \A f \in Owned : RefreshedFrom(c, l)[f] \in {c[f], l[f]}
  BY <1>2, FieldsAre
<1>4. ASSUME IsOn(c, AllFields), Agree(c, l) PROVE RefreshedFrom(c, l) = c
  <2>1. \A f \in AllFields : RefreshedFrom(c, l)[f] = c[f]
    BY <1>2, <1>4, FieldsAre DEF Agree
  <2> QED
    BY <1>1, <1>4, <2>1, Same
<1> QED
  BY <1>1, <1>2, <1>3, <1>4, <1>5, FieldsAre

(* Applying a configuration makes it act.                                  *)
LEMMA AppliedIs ==
  ASSUME NEW c, IsOn(c, AllFields)
  PROVE  /\ IsOn(Applied(c), Owned) /\ Normal(Applied(c)) /\ Agree(c, Applied(c))
         /\ \A f \in Owned : f # "mhz" => Applied(c)[f] = c[f]
         /\ Applied(c).mhz = Norm(c).mhz
         /\ ActingOf(c.idle, Applied(c)) = Norm(c)
<1>1. IsOn(Applied(c), Owned) /\ \A f \in Owned : Applied(c)[f] = Norm(c)[f]
  BY DEF Applied, IsOn
<1>2. \A f \in Owned : f # "mhz" => Applied(c)[f] = c[f]
  BY <1>1, NormIs, FieldsAre
<1>3. Applied(c).mhz = Norm(c).mhz /\ Applied(c).profile = c.profile
  BY <1>1, <1>2, FieldsAre
<1>4. Normal(Applied(c))
  BY <1>3, NormIs DEF Normal
<1>5. Agree(c, Applied(c))
  BY <1>2, <1>3, NormIs DEF Agree
<1> QED
  BY <1>1, <1>2, <1>3, <1>4, <1>5, NormActing

(* The policy is replaced, the rest stays.                                 *)
LEMMA WithPolicyIs ==
  ASSUME NEW c, NEW p
  PROVE  /\ IsOn(WithPolicy(c, p), AllFields)
         /\ \A f \in AllFields : WithPolicy(c, p)[f] = IF f \in Policy THEN p[f] ELSE c[f]
BY DEF WithPolicy, IsOn

(* Releasing the policy keeps a configuration valid.                       *)
LEMMA ReleaseIs ==
  ASSUME NEW c, Valid(c)
  PROVE  Valid(WithPolicy(c, Defaults))
<1>1. WithPolicy(c, Defaults)["mhz"] = Defaults["mhz"]
  BY WithPolicyIs, FieldsAre DEF Policy
<1>2. WithPolicy(c, Defaults)["poll"] = c["poll"]
  <2>1. "poll" \notin Policy /\ "poll" \in AllFields
    BY FieldsAre DEF Policy
  <2> QED
    BY <2>1, WithPolicyIs
<1> QED
  BY <1>1, <1>2, DefaultsAre DEF Valid

(* A valid configuration is read from the flash as it was written.         *)
LEMMA EncodedIs ==
  ASSUME NEW c, NEW old, IsOn(c, AllFields), Valid(c)
  PROVE  /\ IsRecord(Encoded(c)) /\ Readable(Encoded(c))
         /\ Restored(Encoded(c), old) = Norm(c)
<1>1. /\ Encoded(c).version = 5 /\ Encoded(c).sound = TRUE /\ Encoded(c).body = c
      /\ Encoded(c) # NoRecord
  BY DEF Encoded, NoRecord, Schema
<1>2. Decoded(5, c) = c
  <2>1. IsOn(Decoded(5, c), AllFields)
    BY DEF Decoded, IsOn
  <2>2. \A f \in AllFields : Decoded(5, c)[f] = c[f]
    BY FieldsAre DEF Decoded, Valid
  <2> QED
    BY <2>1, <2>2, Same
<1>3. Readable(Encoded(c))
  BY <1>1, <1>2 DEF Readable
<1>4. IsRecord(Encoded(c))
  <2>1. IsOn(c, Fields(5)) /\ c.mhz \in Validated
    BY FieldsAre DEF Valid
  <2>2. 5 \in 1 .. Schema
    BY DEF Schema
  <2> QED
    BY <1>1, <2>1, <2>2 DEF IsRecord
<1> QED
  BY <1>1, <1>2, <1>3, <1>4 DEF Restored

(* A record of any version is decoded to a valid configuration.            *)
LEMMA DecodedIs ==
  ASSUME NEW r, IsRecord(r)
  PROVE  /\ IsOn(Decoded(r.version, r.body), AllFields)
         /\ r.sound => Valid(Decoded(r.version, r.body))
<1>1. IsOn(Decoded(r.version, r.body), AllFields)
  BY DEF Decoded, IsOn
<1>2. \A f \in AllFields : Decoded(r.version, r.body)[f] =
        IF f \notin Fields(r.version) THEN Defaults[f]
        ELSE IF f = "poll" /\ r.body[f] = "1000 HZ" THEN "500 HZ"
        ELSE r.body[f]
  BY DEF Decoded
<1>3. "mhz" \in Fields(r.version)
  BY DEF Fields
<1>4. Decoded(r.version, r.body).mhz = r.body.mhz
  BY <1>2, <1>3, FieldsAre
<1>5. Decoded(r.version, r.body).poll # "1000 HZ"
  <2>1. "poll" \in AllFields
    BY FieldsAre
  <2>2. Decoded(r.version, r.body)["poll"] =
          IF "poll" \notin Fields(r.version) THEN Defaults["poll"]
          ELSE IF r.body["poll"] = "1000 HZ" THEN "500 HZ"
          ELSE r.body["poll"]
    BY <1>2, <2>1
  <2>3. Defaults["poll"] = "REALTIME"
    BY DefaultsAre
  <2> QED
    BY ONLY <2>2, <2>3
<1> QED
  BY <1>1, <1>4, <1>5 DEF IsRecord, Valid

-----------------------------------------------------------------------------
(* The invariant                                                           *)

Setting == bridge.pc = "APPLY"
Saving == bridge.pc = "SAVE" /\ storage
Clocks == {"MHZ", "GOVERNOR"}
Places == Clocks \cup {"REFRESH", "COPY", "COPY REST", "ENCODE", "ENCODE REST", "WRITE", "CLEAR"}
(* What the shell holds, by where it is.                                   *)
Holding(s) ==
    CASE s.pc = "REFRESH" -> Hands[s.at]
      [] s.pc = "COPY" -> FirstFields
      [] s.pc = "COPY REST" -> AllFields \ FirstFields
      [] s.pc = "MHZ" -> {"mhz"}
      [] s.pc \in {"ENCODE REST", "WRITE"} -> AllFields
      [] OTHER -> DOMAIN s.body
IsShell(s) ==
    /\ s = [pc |-> s.pc, what |-> s.what, overtaken |-> s.overtaken, at |-> s.at, body |-> s.body]
    /\ s.pc \in Places /\ s.what \in {"ALL", "RELEASE", "CLOCK"} /\ s.overtaken \in BOOLEAN
    /\ s.what = "CLOCK" <=> s.pc \in Clocks
    /\ s.pc = "REFRESH" => s.at \in 1 .. 9
    /\ IsOn(s.body, Holding(s))
IsAuto(a) == a = [pc |-> a.pc, ok |-> a.ok, seq |-> a.seq]

(* Who is where: commands run when the start is over.                      *)
ShapeInv ==
    /\ phase \in {"OFF", "LOADED", "MIGRATE", "CLEAR", "READY"}
    /\ bridge \in {Idle, [pc |-> "APPLY"], [pc |-> "SAVE"]}
    /\ shell = Idle \/ IsShell(shell)
    /\ IsAuto(auto) /\ auto.pc \in {"ASLEEP", "SPIN", "RESULT", "SEQUENCE", "SHOW"}
    /\ storage \in BOOLEAN /\ loaded \in BOOLEAN /\ inherited \in BOOLEAN
    /\ stuck \in BOOLEAN /\ touched \in BOOLEAN /\ unshown \in BOOLEAN /\ odd \in BOOLEAN
    /\ phase # "READY" => bridge = Idle /\ shell = Idle /\ ~touched /\ ~unshown

(* A result has a number of its own, below those of later commands.        *)
CountInv ==
    /\ calls \in 0 .. MaxCalls
    /\ done.seq \in Nat /\ auto.seq \in Nat /\ shown.seq \in Nat
    /\ done.seq + (IF bridge.pc = "IDLE" THEN 0 ELSE 1) <= calls
    /\ auto.seq <= done.seq /\ shown.seq <= done.seq

(* The records mean what has to survive, in every state; the older one is  *)
(* removed only when the newer one can be read.                            *)
StoreInv ==
    /\ flash = NoRecord \/ IsRecord(flash)
    /\ legacy = NoLegacy \/ (IsOn(legacy, Policy) /\ Normal(legacy) /\ legacy.mhz \in Validated)
    /\ kept = Restored(flash, legacy)
    /\ loaded => Readable(flash) /\ storage
    /\ phase = "CLEAR" \/ shell.pc = "CLEAR" => loaded

(* What a start has loaded before the variables are set.                   *)
StartInv ==
    /\ phase = "OFF" => web = Defaults /\ runtime = Defaults /\ live = Factory /\ ~loaded
    /\ phase = "LOADED" =>
          IF loaded THEN web = Decoded(flash.version, flash.body)
          ELSE web = Defaults /\ live = Factory /\ (storage => ~Readable(flash))
    /\ phase = "MIGRATE" => storage /\ Valid(web)

(* The copies are well formed; no refresh touches the dead zones.          *)
CopyInv ==
    /\ IsOn(web, AllFields) /\ IsOn(runtime, AllFields) /\ IsOn(live, Owned)
    /\ Valid(runtime) /\ live.poll # "1000 HZ" /\ web.poll # "1000 HZ"
    /\ web.dead = live.dead

(* The value a setting should have in every copy, and the settings that    *)
(* may be behind it.                                                       *)
Answered == {"idle", "auto", "dead", "poll", "led"}
Newest(f) == IF f = "idle" THEN web.idle ELSE live[f]
Excused(f) == f \in raced \/ (f = "auto" /\ unshown)

(* The copies and the variables tell the same, but for what the host and   *)
(* the shell wrote at the same time, and while the bridge is between the   *)
(* variables and the copy of the readers.                                  *)
PolicyInv ==
    /\ Normal(live) \/ "mhz" \in raced \/ shell.pc = "MHZ"
    /\ shell.pc = "MHZ" => "mhz" \in raced \/ Normal([profile |-> live.profile, mhz |-> shell.body.mhz])
WorkingInv ==
    \A f \in {"auto", "poll", "led"} : Excused(f) \/ web[f] = live[f]
RuntimeInv ==
    ~Setting => \A f \in Answered : Excused(f) \/ runtime[f] = Newest(f)
HandInv ==
    shell.pc \in {"REFRESH", "COPY", "COPY REST"}
        => \A f \in Answered : f \in InHand => Excused(f) \/ shell.body[f] = Newest(f)

(* A save of the shell that nobody overtook: what it has stored and what   *)
(* it holds are the settings that act.                                     *)
Todo(i) == UNION {Hands[j] : j \in i .. 9}
Alone == shell.pc # "IDLE" /\ ~shell.overtaken
StoredInv ==
    Alone /\ shell.pc = "REFRESH" => \A f \in Owned : f \in Todo(shell.at) \/ web[f] = live[f]
HeldInv ==
    Alone => /\ shell.pc = "REFRESH" => \A f \in InHand : shell.body[f] = live[f]
             /\ shell.pc \in {"COPY", "COPY REST"} => \A f \in InHand : shell.body[f] = web[f]
             /\ shell.pc = "COPY REST" => \A f \in FirstFields : runtime[f] = web[f]
             /\ shell.pc \in {"ENCODE REST", "WRITE"} => shell.body = Saved(web)

(* Who publishes or writes settings has them in agreement with the         *)
(* variables.                                                              *)
AgreeInv ==
    /\ Setting \/ Saving \/ phase = "MIGRATE" => Agree(web, live)
    /\ Alone /\ shell.pc \in {"COPY", "COPY REST", "ENCODE", "ENCODE REST", "WRITE"}
          => Agree(web, live)

(* What is published or written is valid.                                  *)
WriteInv ==
    /\ Setting => Valid(web) /\ touched
    /\ shell.pc \notin Clocks \cup {"IDLE"} => storage
    /\ shell.pc \notin Clocks \cup {"IDLE"} /\ shell.overtaken => live.mhz \in Validated
    /\ shell.pc = "REFRESH" /\ "poll" \in InHand => shell.body.poll # "1000 HZ"
    /\ shell.pc = "COPY" => Valid(web)
    /\ shell.pc = "COPY REST" => Valid(shell.body)
    /\ shell.pc = "ENCODE REST" => Valid(Saved(web))
    /\ shell.pc = "WRITE" => Valid(shell.body)

(* The counter is odd while exactly one of its two writers is between its  *)
(* increments.                                                             *)
Publishing == Setting \/ (Saving /\ Valid(web))
Copying == shell.pc \in {"COPY", "COPY REST"}
ParityInv == odd <=> ~(Copying <=> Publishing)

(* What acts is what has to survive, until somebody changes it.            *)
SurviveInv ==
    phase \notin {"OFF", "LOADED"} /\ storage /\ ~touched
        => Norm(ActingOf(web.idle, live)) = kept

IInv ==
    /\ ShapeInv /\ CountInv /\ StoreInv /\ StartInv /\ CopyInv
    /\ PolicyInv /\ WorkingInv /\ RuntimeInv /\ HandInv
    /\ StoredInv /\ HeldInv /\ AgreeInv /\ WriteInv /\ ParityInv /\ SurviveInv

(* The places where a task is at rest.                                     *)
LEMMA AtRest ==
  ASSUME ShapeInv
  PROVE  /\ bridge = Idle <=> bridge.pc = "IDLE"
         /\ shell = Idle <=> shell.pc = "IDLE"
         /\ shell.pc # "IDLE" => IsShell(shell)
<1>1. Idle.pc = "IDLE"
  BY DEF Idle
<1>2. bridge = Idle <=> bridge.pc = "IDLE"
  <2>1. [pc |-> "APPLY"].pc = "APPLY" /\ [pc |-> "SAVE"].pc = "SAVE"
    OBVIOUS
  <2> QED
    BY <1>1, <2>1 DEF ShapeInv
<1>3. IsShell(shell) => shell.pc # "IDLE"
  BY DEF IsShell, Places, Clocks
<1> QED
  BY <1>1, <1>2, <1>3 DEF ShapeInv

(* The places of the refresh.                                              *)
LEMMA HandsAre ==
  /\ Len(Hands) = 9 /\ Hands[1] = {"mic"}
  /\ Hands[8] = {"profile", "mhz"} /\ Hands[9] = {"mhz"}
  /\ \A i \in 1 .. 9 : Hands[i] \subseteq Owned \ {"dead"}
  /\ Todo(9) = {"mhz"} /\ Todo(8) = {"profile", "mhz"}
  /\ \A f \in Owned : f \in Todo(1) \/ f = "dead"
  /\ \A i \in 1 .. 8 : Todo(i) = Hands[i] \cup Todo(i + 1) /\ Hands[i + 1] \subseteq Todo(i + 1)
<1>1. /\ Len(Hands) = 9
      /\ Hands[1] = {"mic"} /\ Hands[2] = {"auto"} /\ Hands[3] = {"led"} /\ Hands[4] = {"poll"}
      /\ Hands[5] = {"governor"} /\ Hands[6] = {"governor", "profile"} /\ Hands[7] = Policy
      /\ Hands[8] = {"profile", "mhz"} /\ Hands[9] = {"mhz"}
  BY DEF Hands
<1>2. \A i \in 1 .. 9 : i \in {1, 2, 3, 4, 5, 6, 7, 8, 9}
  OBVIOUS
<1>3. \A i \in 1 .. 9 : Hands[i] \subseteq Owned \ {"dead"}
  BY <1>1, <1>2, FieldsAre DEF Policy
<1>4. \A i \in 1 .. 8 : Todo(i) = Hands[i] \cup Todo(i + 1) /\ Hands[i + 1] \subseteq Todo(i + 1)
  <2> SUFFICES ASSUME NEW i \in 1 .. 8
               PROVE  Todo(i) = Hands[i] \cup Todo(i + 1) /\ Hands[i + 1] \subseteq Todo(i + 1)
    OBVIOUS
  <2>1. i .. 9 = {i} \cup ((i + 1) .. 9) /\ i + 1 \in (i + 1) .. 9
    OBVIOUS
  <2> QED
    BY <2>1 DEF Todo
<1>5. Todo(9) = {"mhz"}
  <2>1. 9 .. 9 = {9}
    OBVIOUS
  <2> QED
    BY <1>1, <2>1 DEF Todo
<1>6. Todo(8) = {"profile", "mhz"}
  BY <1>1, <1>4, <1>5
<1>7. \A f \in Owned : f \in Todo(1) \/ f = "dead"
  <2>1. Hands[1] \cup Hands[2] \cup Hands[3] \cup Hands[4] \cup Hands[7] \subseteq Todo(1)
    BY DEF Todo
  <2> QED
    BY <1>1, <2>1, FieldsAre DEF Policy
<1> QED
  BY <1>1, <1>3, <1>4, <1>5, <1>6, <1>7

(* What the dongle is found with when it is built.                         *)
LEMMA MeaningIs ==
  ASSUME NEW r \in Records, NEW old
  PROVE  Meaning(r, old) = Restored(r, old)
<1>1. r = NoRecord \/ IsRecord(r)
  BY SettingsAssumption
<1>2. CASE r # NoRecord /\ r.sound
  <2>1. IsRecord(r)
    BY <1>1, <1>2
  <2>2. Readable(r)
    BY <1>2, <2>1, DecodedIs DEF Readable
  <2>3. DOMAIN r.body = Fields(r.version)
    BY <2>1 DEF IsRecord, IsOn
  <2>4. Decoded(r.version, r.body) =
          [f \in AllFields |->
            IF f \notin DOMAIN r.body THEN Defaults[f]
            ELSE IF f = "poll" /\ r.body[f] = "1000 HZ" THEN "500 HZ"
            ELSE r.body[f]]
    BY <2>3 DEF Decoded
  <2> QED
    BY <1>2, <2>2, <2>4 DEF Meaning, Restored
<1>3. CASE ~(r # NoRecord /\ r.sound)
  BY <1>3 DEF Meaning, Restored, Readable
<1> QED
  BY <1>2, <1>3

LEMMA InitIInv == Init => IInv
<1> SUFFICES ASSUME Init PROVE IInv
  OBVIOUS
<1>0. Idle.pc = "IDLE" /\ Asleep.pc = "ASLEEP" /\ Asleep.seq = 0 /\ NoResult.seq = 0
  BY DEF Idle, Asleep, NoResult
<1>1. ShapeInv
  BY <1>0 DEF Init, ShapeInv, IsAuto, Asleep
<1>2. CountInv
  BY <1>0, SettingsAssumption DEF Init, CountInv
<1>3. StoreInv
  BY <1>0, SettingsAssumption, MeaningIs DEF Init, StoreInv
<1>4. StartInv
  BY DEF Init, StartInv
<1>5. CopyInv
  <2>1. {"idle", "dead", "poll", "led", "auto"} \subseteq AllFields
        /\ {"dead", "poll", "led", "auto"} \subseteq Owned
    BY FieldsAre
  <2> QED
    BY <2>1, DefaultsAre DEF Init, CopyInv
<1>6. PolicyInv
  BY <1>0, DefaultsAre DEF Init, PolicyInv
<1>7. WorkingInv /\ RuntimeInv
  BY DefaultsAre, FieldsAre DEF Init, WorkingInv, RuntimeInv, Answered, Newest
<1>8. HandInv /\ StoredInv /\ HeldInv /\ AgreeInv /\ WriteInv /\ ParityInv /\ SurviveInv
  BY <1>0 DEF Init, HandInv, StoredInv, HeldInv, AgreeInv, WriteInv, ParityInv, SurviveInv,
      Setting, Saving, Publishing, Copying, Alone
<1> QED
  BY <1>1, <1>2, <1>3, <1>4, <1>5, <1>6, <1>7, <1>8 DEF IInv

(* While the shell is at rest it holds nothing.                            *)
RestInv ==
    HandInv /\ StoredInv /\ HeldInv /\ AgreeInv /\ WriteInv /\ ParityInv /\ SurviveInv

-----------------------------------------------------------------------------
(* The start                                                               *)

LEMMA PowerOnStep ==
  ASSUME IInv, PowerOn PROVE IInv'
<1> USE DEF PowerOn
<1>0. bridge.pc = "IDLE" /\ shell.pc = "IDLE" /\ ~touched /\ ~unshown
  BY AtRest DEF IInv, ShapeInv, Idle
<1>1. web = Defaults /\ live = Factory /\ ~loaded
  BY DEF IInv, StartInv
<1>2. CASE storage' /\ Readable(flash)
  <2>1. /\ web' = Decoded(flash.version, flash.body) /\ loaded' = TRUE /\ runtime' = web'
        /\ live' = [f \in Owned |-> IF f \in Policy THEN live[f] ELSE web'[f]]
    BY <1>2
  <2>2. IsRecord(flash)
    BY <1>2 DEF IInv, StoreInv, Readable
  <2>3. IsOn(web', AllFields) /\ Valid(web')
    BY <1>2, <2>1, <2>2, DecodedIs DEF Readable
  <2>4. /\ IsOn(live', Owned) /\ live'.profile = live.profile /\ live'.mhz = live.mhz
        /\ live'.dead = web'.dead /\ live'.poll = web'.poll /\ live'.led = web'.led
        /\ live'.auto = web'.auto
    BY <2>1, FieldsAre DEF IsOn, Policy
  <2>5. Normal(live')
    BY <1>1, <2>4, DefaultsAre DEF Normal
  <2>6. CopyInv'
    BY <2>1, <2>3, <2>4, <2>5 DEF CopyInv, Valid
  <2>10. PolicyInv' /\ WorkingInv' /\ RuntimeInv'
    BY <1>0, <2>1, <2>4, <2>5 DEF PolicyInv, WorkingInv, RuntimeInv, Answered, Newest
  <2>7. ShapeInv'
    BY <2>1 DEF IInv, ShapeInv
  <2>8. StoreInv' /\ StartInv'
    BY <1>0, <1>2, <2>1 DEF IInv, StoreInv, StartInv
  <2>9. RestInv' /\ CountInv'
    BY <1>0 DEF IInv, RestInv, HandInv, StoredInv, HeldInv, AgreeInv, WriteInv, ParityInv,
        SurviveInv, CountInv, Setting, Saving, Publishing, Copying, Alone
  <2> QED
    BY <2>6, <2>7, <2>8, <2>9, <2>10 DEF IInv, RestInv
<1>3. CASE ~(storage' /\ Readable(flash))
  <2>1. web' = Defaults /\ runtime' = web' /\ UNCHANGED <<loaded, live>>
    BY <1>3
  <2>2. CopyInv'
    <3>1. {"idle", "dead", "poll", "led", "auto"} \subseteq AllFields
          /\ {"dead", "poll", "led", "auto"} \subseteq Owned
      BY FieldsAre
    <3> QED
      BY <1>1, <2>1, <3>1, DefaultsAre DEF CopyInv
  <2>6. PolicyInv' /\ WorkingInv' /\ RuntimeInv'
    BY <1>0, <1>1, <2>1, DefaultsAre, FieldsAre
        DEF PolicyInv, WorkingInv, RuntimeInv, Answered, Newest
  <2>3. ShapeInv'
    BY <2>1 DEF IInv, ShapeInv
  <2>4. StoreInv' /\ StartInv'
    BY <1>0, <1>1, <1>3, <2>1 DEF IInv, StoreInv, StartInv
  <2>5. RestInv' /\ CountInv'
    BY <1>0 DEF IInv, RestInv, HandInv, StoredInv, HeldInv, AgreeInv, WriteInv, ParityInv,
        SurviveInv, CountInv, Setting, Saving, Publishing, Copying, Alone
  <2> QED
    BY <2>2, <2>3, <2>4, <2>5, <2>6 DEF IInv, RestInv
<1> QED
  BY <1>2, <1>3

LEMMA PowerCutStep ==
  ASSUME IInv, PowerCut PROVE IInv'
<1> USE DEF PowerCut
<1>0. Idle.pc = "IDLE" /\ Asleep.pc = "ASLEEP" /\ Asleep.seq = 0 /\ NoResult.seq = 0
  BY DEF Idle, Asleep, NoResult
<1>1. ShapeInv'
  BY <1>0 DEF ShapeInv, IsAuto, Asleep
<1>2. CountInv'
  BY <1>0, SettingsAssumption DEF IInv, CountInv
<1>3. StoreInv' /\ StartInv'
  BY <1>0 DEF IInv, StoreInv, StartInv
<1>5. CopyInv'
  <2>1. {"idle", "dead", "poll", "led", "auto"} \subseteq AllFields
        /\ {"dead", "poll", "led", "auto"} \subseteq Owned
    BY FieldsAre
  <2> QED
    BY <2>1, DefaultsAre DEF CopyInv
<1>6. RestInv'
  BY <1>0 DEF RestInv, HandInv, StoredInv, HeldInv, AgreeInv, WriteInv, ParityInv, SurviveInv,
      Setting, Saving, Publishing, Copying, Alone
<1>7. PolicyInv' /\ WorkingInv' /\ RuntimeInv'
  BY <1>0, DefaultsAre, FieldsAre DEF PolicyInv, WorkingInv, RuntimeInv, Answered, Newest
<1> QED
  BY <1>1, <1>2, <1>3, <1>5, <1>6, <1>7 DEF IInv, RestInv

(* What the variables hold when Bluetooth is ready.                        *)
StartsFrom == IF inherited' THEN legacy ELSE [p \in Policy |-> live[p]]
ActsFirst == [f \in Owned |-> IF f \in Policy THEN StartsFrom[f] ELSE live[f]]

LEMMA BluetoothReadyStep ==
  ASSUME IInv, BluetoothReady PROVE IInv'
<1> USE DEF BluetoothReady
<1>0. /\ bridge.pc = "IDLE" /\ shell.pc = "IDLE" /\ bridge = Idle /\ shell = Idle
      /\ ~touched /\ ~unshown
  BY AtRest DEF IInv, ShapeInv, Idle
<1>1. /\ inherited' = (storage /\ legacy # NoLegacy)
      /\ live' = IF loaded THEN Applied(web) ELSE ActsFirst
      /\ web' = RefreshedFrom(web, live')
      /\ runtime' = Published(web')
      /\ phase' = IF ~inherited' THEN "READY" ELSE IF loaded THEN "CLEAR" ELSE "MIGRATE"
      /\ UNCHANGED <<flash, legacy, storage, odd, loaded, bridge, shell, auto, done,
                     shown, stuck, kept, touched, unshown, raced, calls>>
  BY DEF RefreshedFrom, ActsFirst, StartsFrom
<1> HIDE DEF BluetoothReady
<1>2. IsOn(web, AllFields) /\ Valid(web) /\ web.dead = live.dead
  <2>1. CASE loaded
    BY <2>1, <1>1, DecodedIs DEF BluetoothReady, IInv, StartInv, CopyInv, StoreInv, Readable
  <2>2. CASE ~loaded
    BY <2>2, DefaultsAre DEF BluetoothReady, IInv, StartInv, CopyInv
  <2> QED
    BY <2>1, <2>2 DEF IInv, ShapeInv
<1>3. /\ IsOn(live', Owned) /\ Normal(live') /\ live'.dead = web.dead
      /\ live'.mhz \in Validated /\ live'.poll # "1000 HZ"
  <2>1. CASE loaded
    <3>1. live' = Applied(web)
      BY <1>1, <2>1
    <3>2. Applied(web).dead = web.dead /\ Applied(web).poll = web.poll
      BY <1>2, AppliedIs, FieldsAre
    <3>3. Valid(Norm(web))
      BY <1>2, NormIs
    <3> QED
      BY <1>2, <3>1, <3>2, <3>3, AppliedIs DEF Valid
  <2>2. CASE ~loaded
    <3>1. live = Factory
      BY <2>2 DEF BluetoothReady, IInv, StartInv
    <3>2. /\ IsOn(live', Owned)
          /\ \A f \in Owned : live'[f] = IF f \in Policy THEN StartsFrom[f] ELSE live[f]
      BY <1>1, <2>2 DEF ActsFirst, IsOn
    <3>3. live'.dead = live.dead /\ live'.poll = live.poll
          /\ live'.profile = StartsFrom.profile /\ live'.mhz = StartsFrom.mhz
      BY <3>2, FieldsAre DEF Policy
    <3>4. live.poll = "REALTIME" /\ live.mhz = 320 /\ live.profile = "ECO"
      BY <3>1, DefaultsAre, FieldsAre
    <3>5. Normal(StartsFrom) /\ StartsFrom.mhz \in Validated
      <4>1. CASE inherited'
        <5>1. legacy # NoLegacy
          BY <1>1, <4>1
        <5> QED
          BY <4>1, <5>1 DEF IInv, StoreInv, StartsFrom
      <4>2. CASE ~inherited'
        <5>1. StartsFrom.profile = live.profile /\ StartsFrom.mhz = live.mhz
          BY <4>2 DEF StartsFrom, Policy
        <5> QED
          BY <3>4, <5>1, ProfilesAre DEF Normal
      <4> QED
        BY <4>1, <4>2
    <3> QED
      BY <1>2, <3>2, <3>3, <3>4, <3>5 DEF Normal
  <2> QED
    BY <2>1, <2>2 DEF IInv, ShapeInv
<1>4. IsOn(web', AllFields) /\ Valid(web') /\ runtime' = web' /\ Agree(web', live')
  <2>1. /\ IsOn(web', AllFields) /\ web'.poll = live'.poll /\ web'.mhz \in {web.mhz, live'.mhz}
        /\ web.dead = live'.dead => Agree(web', live')
    <3> DEFINE c == web  l == live'
    <3>1. web' = RefreshedFrom(c, l)
      BY <1>1
    <3> HIDE DEF c, l
    <3>2. /\ IsOn(web', AllFields) /\ web'.poll = l.poll /\ web'.mhz \in {c.mhz, l.mhz}
          /\ c.dead = l.dead => Agree(web', l)
      BY <3>1, RefreshedIs
    <3> QED
      BY <3>2 DEF c, l
  <2>2. Valid(web')
    BY <1>2, <1>3, <2>1 DEF Valid
  <2> QED
    BY <1>1, <1>3, <2>1, <2>2 DEF Published
<1>5. CopyInv'
  <2>1. /\ web'.dead = web.dead /\ web'.poll = live'.poll /\ web'.led = live'.led
        /\ web'.auto = live'.auto
    BY <1>1, RefreshedIs
  <2> QED
    BY <1>3, <1>4, <2>1 DEF CopyInv, Valid
<1>10. PolicyInv' /\ WorkingInv' /\ RuntimeInv'
  <2>1. /\ web'.dead = live'.dead /\ web'.poll = live'.poll /\ web'.led = live'.led
        /\ web'.auto = live'.auto
    BY <1>4, FieldsAre DEF Agree
  <2> QED
    BY <1>0, <1>1, <1>3, <1>4, <2>1 DEF PolicyInv, WorkingInv, RuntimeInv, Answered, Newest
<1>6. storage => ActingOf(runtime.idle, live)' = kept
  <2> SUFFICES ASSUME storage PROVE ActingOf(runtime.idle, live)' = kept
    OBVIOUS
  <2>0. runtime'.idle = web.idle
    BY <1>1, <1>4, RefreshedIs
  <2>1. CASE loaded
    BY <1>1, <1>2, <2>0, <2>1, AppliedIs DEF BluetoothReady, IInv, StartInv, StoreInv, Restored
  <2>2. CASE ~loaded
    <3>1. web = Defaults /\ live = Factory /\ ~Readable(flash)
      BY <2>2 DEF BluetoothReady, IInv, StartInv
    <3>2. kept = IF legacy # NoLegacy THEN WithPolicy(Defaults, legacy) ELSE Defaults
      BY <3>1 DEF IInv, StoreInv, Restored
    <3>3. IsOn(ActingOf(web.idle, live'), AllFields) /\ IsOn(kept, AllFields)
      <4>1. IsOn(ActingOf(web.idle, live'), AllFields)
        BY <1>3, ActingIs
      <4>2. IsOn(WithPolicy(Defaults, legacy), AllFields) /\ IsOn(Defaults, AllFields)
        BY WithPolicyIs, DefaultsAre
      <4> QED
        BY ONLY <3>2, <4>1, <4>2
    <3>4. \A f \in Owned : live'[f] = IF f \in Policy THEN StartsFrom[f] ELSE live[f]
      BY <1>1, <2>2 DEF ActsFirst
    <3>5. \A f \in AllFields : ActingOf(web.idle, live')[f] = kept[f]
      <4> SUFFICES ASSUME NEW f \in AllFields PROVE ActingOf(web.idle, live')[f] = kept[f]
        OBVIOUS
      <4>1. CASE f = "idle"
        <5>1. "idle" \notin Policy
          BY DEF Policy
        <5> QED
          <6>1. ActingOf(web.idle, live')["idle"] = Defaults["idle"]
            BY <1>3, <3>1, ActingIs
          <6>2. WithPolicy(Defaults, legacy)["idle"] = Defaults["idle"]
            BY <5>1, WithPolicyIs, FieldsAre
          <6> QED
            BY <3>2, <4>1, <6>1, <6>2
      <4>2. CASE f # "idle"
        <5>1. f \in Owned /\ ActingOf(web.idle, live')[f] = live'[f] /\ live[f] = Defaults[f]
          <6>1. f \in Owned
            BY <4>2, FieldsAre
          <6>2. ActingOf(web.idle, live')[f] = live'[f]
            <7>1. Normal(live')
              BY <1>3
            <7> QED
              BY ONLY <6>1, <7>1, ActingIs
          <6>3. live[f] = Defaults[f]
            BY ONLY <3>1, <6>1, DefaultsAre
          <6> QED
            BY <6>1, <6>2, <6>3
        <5>2. CASE legacy # NoLegacy
          <6>1. StartsFrom = legacy
            BY <1>1, <5>2 DEF StartsFrom
          <6> QED
            BY <3>2, <3>4, <5>1, <5>2, <6>1, WithPolicyIs
        <5>3. CASE legacy = NoLegacy
          <6>1. StartsFrom = [p \in Policy |-> live[p]]
            BY <1>1, <5>3 DEF StartsFrom
          <6> QED
            BY <3>2, <3>4, <5>1, <5>3, <6>1
        <5> QED
          BY <5>2, <5>3
      <4> QED
        BY <4>1, <4>2
    <3> QED
      BY <2>0, <3>3, <3>5, Same
  <2> QED
    BY <2>1, <2>2 DEF IInv, ShapeInv
<1>7. ShapeInv'
  BY <1>0, <1>1 DEF IInv, ShapeInv
<1>8. StoreInv' /\ StartInv' /\ CountInv'
  BY <1>0, <1>1, <1>4 DEF IInv, StoreInv, StartInv, CountInv
<1>9. RestInv'
  <2>1. ~odd
    BY <1>0 DEF IInv, ParityInv, Publishing, Setting, Saving, Copying
  <2>2. storage => Norm(ActingOf(web.idle, live))' = kept
    BY <1>3, <1>4, <1>6, ActingIs
  <2>3. HandInv' /\ StoredInv' /\ HeldInv' /\ WriteInv' /\ ParityInv'
    BY <1>0, <1>1, <2>1 DEF HandInv, StoredInv, HeldInv, WriteInv, ParityInv,
        Setting, Saving, Publishing, Copying, Alone
  <2> QED
    BY <1>0, <1>1, <1>4, <2>2, <2>3 DEF RestInv, AgreeInv, SurviveInv, Alone
<1> QED
  BY <1>5, <1>7, <1>8, <1>9, <1>10 DEF IInv, RestInv

(* The migration writes what acts, then removes the older record.          *)
LEMMA MigrateStep ==
  ASSUME IInv, Migrate PROVE IInv'
<1>0. /\ bridge.pc = "IDLE" /\ shell.pc = "IDLE" /\ bridge = Idle /\ shell = Idle
      /\ ~touched /\ ~unshown
  BY AtRest DEF Migrate, MigrateSave, MigrateClear, IInv, ShapeInv, Idle
<1>1. /\ UNCHANGED <<storage, web, runtime, odd, live, bridge, shell, auto, done, shown,
                     stuck, kept, touched, unshown, raced, calls>>
      /\ phase' \in {"CLEAR", "READY"} /\ phase \in {"MIGRATE", "CLEAR"}
  BY DEF Migrate, MigrateSave, MigrateClear
<1>4. PolicyInv' /\ WorkingInv' /\ RuntimeInv' /\ CopyInv' /\ CountInv'
  BY <1>0, <1>1 DEF IInv, PolicyInv, WorkingInv, RuntimeInv, CopyInv, CountInv, Excused, Newest,
      Setting
<1>5. HandInv' /\ StoredInv' /\ HeldInv' /\ WriteInv' /\ ParityInv' /\ SurviveInv'
  BY <1>0, <1>1 DEF IInv, HandInv, StoredInv, HeldInv, WriteInv, ParityInv, SurviveInv,
      Setting, Saving, Publishing, Copying, Alone
<1>6. AgreeInv' /\ StartInv'
  BY <1>0, <1>1 DEF AgreeInv, StartInv, Setting, Saving, Alone
<1>2. CASE \E ok \in BOOLEAN : MigrateSave(ok)
  <2>1. PICK ok \in BOOLEAN : MigrateSave(ok)
    BY <1>2
  <2>2. CASE ok /\ storage
    <3>1. /\ flash' = Encoded(web) /\ loaded' = TRUE /\ phase' = "CLEAR" /\ phase = "MIGRATE"
          /\ UNCHANGED <<legacy, inherited>>
      BY <2>1, <2>2 DEF MigrateSave
    <3>2. Norm(web) = kept
      <4>1. Norm(web) = Norm(ActingOf(web.idle, live))
        BY <3>1, NormAgreeing DEF IInv, AgreeInv, CopyInv
      <4> QED
        BY <1>0, <2>2, <3>1, <4>1 DEF IInv, SurviveInv
    <3>3. StoreInv'
      <4>1. IsOn(web, AllFields) /\ Valid(web)
        BY <3>1 DEF IInv, CopyInv, StartInv
      <4> QED
        BY <1>0, <1>1, <2>2, <3>1, <3>2, <4>1, EncodedIs DEF IInv, StoreInv
    <3>4. ShapeInv'
      BY <1>0, <1>1, <3>1 DEF IInv, ShapeInv
    <3> QED
      BY <1>4, <1>5, <1>6, <3>3, <3>4 DEF IInv
  <2>3. CASE ~(ok /\ storage)
    <3>1. phase' = "READY" /\ phase = "MIGRATE" /\ UNCHANGED <<flash, loaded, legacy, inherited>>
      BY <2>1, <2>3 DEF MigrateSave
    <3>2. ShapeInv'
      BY <1>0, <1>1, <3>1 DEF IInv, ShapeInv
    <3>3. StoreInv'
      BY <1>0, <1>1, <3>1 DEF IInv, StoreInv
    <3> QED
      BY <1>4, <1>5, <1>6, <3>2, <3>3 DEF IInv
  <2> QED
    BY <2>2, <2>3
<1>3. CASE \E ok \in BOOLEAN : MigrateClear(ok)
  <2>1. /\ phase = "CLEAR" /\ phase' = "READY" /\ UNCHANGED <<flash, loaded>>
        /\ \/ legacy' = NoLegacy /\ inherited' = FALSE
           \/ UNCHANGED <<legacy, inherited>>
    BY <1>3 DEF MigrateClear
  <2>2. Readable(flash) /\ loaded
    BY <2>1 DEF IInv, StoreInv
  <2>3. StoreInv'
    BY <1>0, <1>1, <2>1, <2>2 DEF IInv, StoreInv, Restored
  <2>4. ShapeInv'
    BY <1>0, <1>1, <2>1 DEF IInv, ShapeInv
  <2> QED
    BY <1>4, <1>5, <1>6, <2>3, <2>4 DEF IInv
<1> QED
  BY <1>2, <1>3 DEF Migrate

-----------------------------------------------------------------------------
(* What the shell writes, for what it was asked.                           *)
SavedAs(what, c) == IF what = "ALL" THEN c ELSE WithPolicy(c, Defaults)

LEMMA SavedIs ==
  ASSUME NEW what, NEW c, IsOn(c, AllFields)
  PROVE  /\ IsOn(SavedAs(what, c), AllFields)
         /\ Valid(SavedAs(what, c)) <=> c.poll # "1000 HZ" /\ (what = "ALL" => c.mhz \in Validated)
<1>1. CASE what = "ALL"
  BY <1>1 DEF SavedAs, Valid
<1>2. CASE what # "ALL"
  <2>1. SavedAs(what, c) = WithPolicy(c, Defaults)
    BY <1>2 DEF SavedAs
  <2>2. "poll" \in AllFields /\ "poll" \notin Policy /\ "mhz" \in AllFields /\ "mhz" \in Policy
    BY FieldsAre DEF Policy
  <2>3. WithPolicy(c, Defaults).poll = c.poll /\ WithPolicy(c, Defaults).mhz = 320
    BY <2>2, WithPolicyIs, DefaultsAre
  <2>4. IsOn(WithPolicy(c, Defaults), AllFields)
    BY WithPolicyIs
  <2>5. Valid(WithPolicy(c, Defaults)) <=> c.poll # "1000 HZ"
    BY <2>3, ProfilesAre DEF Valid
  <2> QED
    BY ONLY <1>2, <2>1, <2>4, <2>5
<1> QED
  BY <1>1, <1>2

-----------------------------------------------------------------------------
(* The commands of the host                                                *)

LEMMA ApplyStep ==
  ASSUME IInv, NEW c \in Requests, Apply(c) PROVE IInv'
<1>1. IsOn(c, AllFields) /\ Valid(c)
  BY SettingsAssumption
<1>2. /\ phase = "READY" /\ bridge = Idle /\ bridge.pc = "IDLE"
      /\ live' = Applied(c) /\ web' = c /\ odd' = ~odd
      /\ bridge' = [pc |-> "APPLY"] /\ bridge'.pc = "APPLY"
      /\ touched' = TRUE /\ unshown' = FALSE /\ raced' = InHand
      /\ shell' = IF shell = Idle THEN shell ELSE [shell EXCEPT !.overtaken = TRUE]
      /\ calls < MaxCalls /\ calls' = calls + 1
      /\ UNCHANGED <<flash, legacy, phase, storage, runtime, loaded, inherited, auto, done,
                     shown, stuck, kept>>
  BY <1>1 DEF Apply, Running, Calls, SetBegins, Idle
<1>3. /\ shell'.pc = shell.pc
      /\ shell.pc # "IDLE" => /\ shell'.overtaken = TRUE /\ IsShell(shell)
                              /\ shell'.what = shell.what /\ shell'.body = shell.body
      /\ shell' = Idle \/ IsShell(shell')
  <2>1. CASE shell = Idle
    BY <1>2, <2>1 DEF Idle
  <2>2. CASE shell # Idle
    <3>1. IsShell(shell) /\ shell' = [shell EXCEPT !.overtaken = TRUE]
      BY <1>2, <2>2, AtRest DEF IInv
    <3>2. /\ shell'.pc = shell.pc /\ shell'.what = shell.what /\ shell'.at = shell.at
          /\ shell'.body = shell.body /\ shell'.overtaken = TRUE
          /\ shell' = [pc |-> shell'.pc, what |-> shell'.what, overtaken |-> shell'.overtaken,
                       at |-> shell'.at, body |-> shell'.body]
      BY <3>1 DEF IsShell
    <3>3. Holding(shell') = Holding(shell)
      BY <3>2 DEF Holding
    <3> QED
      BY <3>1, <3>2, <3>3 DEF IsShell
  <2> QED
    BY <2>1, <2>2
<1>4. InHand' = InHand
  <2>1. shell.pc # "IDLE" => shell'.body = shell.body
    BY <1>3
  <2> QED
    BY <1>3, <2>1 DEF InHand
<1>5. /\ IsOn(live', Owned) /\ Normal(live') /\ Agree(web', live')
      /\ live'.mhz \in Validated /\ live'.poll = c.poll /\ live'.dead = c.dead
      /\ live'.auto = c.auto /\ live'.led = c.led /\ c.poll # "1000 HZ"
  <2>1. Norm(c).mhz \in Validated
    BY <1>1, NormIs DEF Valid
  <2> QED
    BY <1>1, <1>2, <2>1, AppliedIs, FieldsAre DEF Valid
<1>6. ShapeInv'
  BY <1>2, <1>3 DEF IInv, ShapeInv
<1>7. CountInv'
  BY <1>2, SettingsAssumption DEF IInv, CountInv
<1>8. StoreInv' /\ StartInv'
  BY <1>2, <1>3 DEF IInv, StoreInv, StartInv
<1>9. CopyInv'
  BY <1>1, <1>2, <1>5 DEF IInv, CopyInv
<1>10. PolicyInv'
  <2>1. shell.pc = "MHZ" => "mhz" \in InHand
    BY <1>3 DEF InHand, IsShell, Holding, IsOn
  <2> QED
    BY <1>2, <1>3, <1>5, <2>1 DEF PolicyInv
<1>11. WorkingInv' /\ RuntimeInv'
  BY <1>2, <1>5 DEF WorkingInv, RuntimeInv, Setting
<1>12. HandInv'
  BY <1>2, <1>4 DEF HandInv, Excused
<1>13. ~Alone'
  BY <1>3 DEF Alone
<1>14. StoredInv' /\ HeldInv' /\ AgreeInv' /\ SurviveInv'
  BY <1>2, <1>5, <1>13 DEF StoredInv, HeldInv, AgreeInv, SurviveInv
<1>15. WriteInv'
  <2>1. shell.pc = "ENCODE REST" => Valid(Saved(web)')
    <3>1. Saved(web)' = SavedAs(shell'.what, c)
      BY <1>2 DEF Saved, SavedAs
    <3> QED
      BY <1>1, <3>1, SavedIs DEF Valid
  <2>2. /\ shell.pc \notin Clocks \cup {"IDLE"} => storage
        /\ shell.pc = "REFRESH" /\ "poll" \in InHand => shell.body.poll # "1000 HZ"
        /\ shell.pc \in {"COPY REST", "WRITE"} => Valid(shell.body)
    BY DEF IInv, WriteInv
  <2>3. shell.pc \in {"REFRESH", "COPY REST", "WRITE"} => shell'.body = shell.body
    BY <1>3
  <2> QED
    BY <1>1, <1>2, <1>3, <1>4, <1>5, <2>1, <2>2, <2>3 DEF WriteInv
<1>16. ParityInv'
  <2>1. ~Publishing
    BY <1>2 DEF Publishing, Setting, Saving
  <2>2. Publishing'
    BY <1>2 DEF Publishing, Setting
  <2>3. odd <=> Copying
    BY <2>1 DEF IInv, ParityInv
  <2>4. odd' <=> ~odd
    BY <1>2
  <2>5. Copying' <=> Copying
    BY <1>3 DEF Copying
  <2> QED
    BY <2>2, <2>3, <2>4, <2>5 DEF ParityInv
<1> QED
  BY <1>6, <1>7, <1>8, <1>9, <1>10, <1>11, <1>12, <1>14, <1>15, <1>16 DEF IInv

LEMMA SaveStep ==
  ASSUME IInv, Save PROVE IInv'
<1>1. /\ phase = "READY" /\ bridge = Idle /\ bridge.pc = "IDLE"
      /\ bridge' = [pc |-> "SAVE"] /\ bridge'.pc = "SAVE"
      /\ calls < MaxCalls /\ calls' = calls + 1
      /\ UNCHANGED <<flash, legacy, phase, storage, runtime, loaded, inherited, live, shell,
                     auto, done, shown, stuck, kept, touched, unshown, raced>>
  BY DEF Save, Running, Calls, Idle
<1>2. IF storage
      THEN web' = RefreshedFrom(web, live) /\ odd' = IF Valid(web') THEN ~odd ELSE odd
      ELSE UNCHANGED <<web, odd>>
  BY DEF Save, SetBegins, Refreshed, RefreshedFrom
<1>3. IsOn(web, AllFields) /\ web.dead = live.dead /\ web.poll # "1000 HZ" /\ live.poll # "1000 HZ"
  BY DEF IInv, CopyInv
<1>4. /\ IsOn(web', AllFields) /\ web'.idle = web.idle /\ web'.dead = web.dead
      /\ storage => Agree(web', live)
      /\ Agree(web, live) => web' = web
      /\ web'.mhz \in {web.mhz, live.mhz} /\ web'.poll \in {web.poll, live.poll}
      /\ \A f \in Owned : web'[f] \in {web[f], live[f]}
  <2>1. CASE storage
    <3>1. web' = RefreshedFrom(web, live)
      BY <1>2, <2>1
    <3>2. IsOn(web', AllFields) /\ web'.idle = web.idle /\ web'.dead = web.dead
      BY <3>1, RefreshedIs
    <3>5. web'.mhz \in {web.mhz, live.mhz} /\ web'.poll = live.poll
      BY <3>1, RefreshedIs
    <3>8. web.dead = live.dead
      BY ONLY <1>3
    <3>7. Agree(RefreshedFrom(web, live), live)
      BY ONLY <3>8, RefreshedIs
    <3>6. Agree(web', live)
      BY ONLY <3>1, <3>7
    <3>3. Agree(web, live) => web' = web
      BY <1>3, <3>1, RefreshedIs
    <3>4. \A f \in Owned : web'[f] \in {web[f], live[f]}
      BY <3>1, RefreshedIs
    <3> QED
      BY ONLY <3>2, <3>3, <3>4, <3>5, <3>6, <2>1
  <2>2. CASE ~storage
    BY <1>2, <1>3, <2>2
  <2> QED
    BY <2>1, <2>2
<1>5. Alone /\ shell.pc \in {"COPY", "COPY REST", "ENCODE", "ENCODE REST", "WRITE"} => web' = web
  BY <1>4 DEF IInv, AgreeInv
<1>6. ShapeInv'
  BY <1>1, <1>2 DEF IInv, ShapeInv
<1>7. CountInv'
  BY <1>1, SettingsAssumption DEF IInv, CountInv
<1>8. StoreInv' /\ StartInv'
  BY <1>1 DEF IInv, StoreInv, StartInv
<1>9. CopyInv'
  BY <1>1, <1>3, <1>4 DEF IInv, CopyInv
<1>10. PolicyInv'
  BY <1>1 DEF IInv, PolicyInv
<1>11. WorkingInv'
  <2>1. \A f \in {"auto", "poll", "led"} : web'[f] \in {web[f], live[f]}
    BY <1>4, FieldsAre
  <2> QED
    BY <1>1, <2>1 DEF IInv, WorkingInv, Excused
<1>12. RuntimeInv' /\ HandInv'
  BY <1>1, <1>4 DEF IInv, RuntimeInv, HandInv, InHand, Excused, Newest, Setting
<1>13. StoredInv'
  BY <1>1, <1>4 DEF IInv, StoredInv, Alone, Todo
<1>14. HeldInv'
  <2>1. InHand' = InHand /\ (Alone' <=> Alone) /\ UNCHANGED <<shell, live, runtime>>
    BY <1>1 DEF InHand, Alone
  <2>2. Alone /\ shell.pc \in {"ENCODE REST", "WRITE"} => Saved(web)' = Saved(web)
    BY <1>1, <1>5 DEF Saved
  <2> QED
    BY <1>5, <2>1, <2>2 DEF IInv, HeldInv
<1>15. AgreeInv'
  BY <1>1, <1>4, <1>5 DEF IInv, AgreeInv, Setting, Saving, Alone
<1>16. WriteInv'
  <2>1. shell.pc = "COPY" => Valid(web')
    <3> SUFFICES ASSUME shell.pc = "COPY" PROVE Valid(web')
      OBVIOUS
    <3>1. Valid(web) /\ (shell.overtaken => live.mhz \in Validated)
      BY DEF IInv, WriteInv, Clocks
    <3>2. CASE shell.overtaken
      BY <1>3, <1>4, <3>1, <3>2 DEF Valid
    <3>3. CASE ~shell.overtaken
      BY <1>5, <3>1, <3>3 DEF Alone
    <3> QED
      BY <3>2, <3>3
  <2>2. shell.pc = "ENCODE REST" => Valid(Saved(web)')
    <3> SUFFICES ASSUME shell.pc = "ENCODE REST" PROVE Valid(Saved(web)')
      OBVIOUS
    <3>1. Saved(web) = SavedAs(shell.what, web) /\ Saved(web)' = SavedAs(shell.what, web')
      BY <1>1 DEF Saved, SavedAs
    <3>2. Valid(Saved(web)) /\ (shell.overtaken => live.mhz \in Validated)
      BY DEF IInv, WriteInv, Clocks
    <3>3. shell.what = "ALL" => web.mhz \in Validated
      BY <1>3, <3>1, <3>2, SavedIs
    <3>4. CASE shell.overtaken
      BY <1>3, <1>4, <3>1, <3>2, <3>3, <3>4, SavedIs
    <3>5. CASE ~shell.overtaken
      BY <1>5, <3>1, <3>2, <3>5 DEF Alone
    <3> QED
      BY <3>4, <3>5
  <2>3. ~Setting' /\ InHand' = InHand
    BY <1>1 DEF Setting, InHand
  <2> QED
    BY <1>1, <2>1, <2>2, <2>3 DEF IInv, WriteInv
<1>17. ParityInv'
  BY <1>1, <1>2 DEF IInv, ParityInv, ShapeInv, Publishing, Setting, Saving, Copying
<1>18. SurviveInv'
  BY <1>1, <1>4 DEF IInv, SurviveInv
<1> QED
  BY <1>6, <1>7, <1>8, <1>9, <1>10, <1>11, <1>12, <1>13, <1>14, <1>15, <1>16, <1>17, <1>18 DEF IInv

LEMMA ApplyEndsStep ==
  ASSUME IInv, ApplyEnds,
         UNCHANGED <<flash, loaded, kept, touched, raced, failures>>,
         UNCHANGED <<legacy, phase, storage, web, inherited, live, shell, auto, shown,
                     stuck, unshown, calls, cuts>>
  PROVE  IInv'
<1>1. /\ bridge.pc = "APPLY" /\ bridge' = Idle /\ bridge'.pc = "IDLE"
      /\ done'.seq = done.seq + 1
      /\ runtime' = Published(web) /\ odd' = IF Valid(web) THEN ~odd ELSE odd
  BY DEF ApplyEnds, SetEnds, Finish, Idle
<1>2. Valid(web) /\ touched /\ Agree(web, live) /\ phase = "READY"
  BY <1>1, AtRest DEF IInv, WriteInv, AgreeInv, Setting, ShapeInv
<1>3. runtime' = web /\ odd' = ~odd
  BY <1>1, <1>2 DEF Published
<1>4. ShapeInv'
  BY <1>1, <1>2, <1>3 DEF IInv, ShapeInv
<1>5. CountInv'
  BY <1>1, SettingsAssumption DEF IInv, CountInv
<1>6. StoreInv' /\ StartInv'
  BY <1>2 DEF IInv, StoreInv, StartInv
<1>7. CopyInv'
  BY <1>2, <1>3 DEF IInv, CopyInv
<1>8. PolicyInv' /\ WorkingInv'
  BY DEF IInv, PolicyInv, WorkingInv, Excused
<1>9. RuntimeInv'
  <2>1. web.dead = live.dead /\ web.poll = live.poll /\ web.led = live.led /\ web.auto = live.auto
    BY <1>2, FieldsAre DEF Agree
  <2> QED
    BY <1>3, <2>1 DEF RuntimeInv, Answered, Newest
<1>10. HandInv' /\ StoredInv'
  BY DEF IInv, HandInv, StoredInv, InHand, Excused, Newest, Alone, Todo
<1>11. HeldInv'
  BY <1>3 DEF IInv, HeldInv, InHand, Alone, Saved
<1>12. AgreeInv'
  BY <1>1, <1>2 DEF AgreeInv
<1>13. SurviveInv'
  BY <1>2 DEF SurviveInv
<1>14. WriteInv'
  BY <1>1 DEF IInv, WriteInv, Setting, Saved, InHand
<1>15. ParityInv'
  BY <1>1, <1>2, <1>3 DEF IInv, ParityInv, ShapeInv, Publishing, Setting, Saving, Copying
<1> QED
  BY <1>4, <1>5, <1>6, <1>7, <1>8, <1>9, <1>10, <1>11, <1>12, <1>13, <1>14, <1>15 DEF IInv

LEMMA SaveEndsStep ==
  ASSUME IInv, NEW ok \in BOOLEAN, SaveEnds(ok),
         UNCHANGED <<legacy, phase, storage, web, inherited, live, shell, auto, shown,
                     stuck, unshown, calls, cuts>>
  PROVE  IInv'
<1>1. /\ bridge.pc = "SAVE" /\ bridge' = Idle /\ bridge'.pc = "IDLE"
      /\ done'.seq = done.seq + 1
  BY DEF SaveEnds, Finish, Idle
<1>2. /\ IF storage
         THEN runtime' = Published(web) /\ odd' = IF Valid(web) THEN ~odd ELSE odd
         ELSE UNCHANGED <<odd, runtime>>
      /\ raced' = IF storage /\ Valid(web) THEN raced \cap (InHand \cup Split) ELSE raced
  BY DEF SaveEnds, SetEnds
<1>3. IF ok /\ storage /\ Valid(web)
      THEN /\ flash' = Encoded(web) /\ loaded' = TRUE
           /\ kept' = Norm(Acting(web)) /\ touched' = FALSE
      ELSE UNCHANGED <<flash, loaded, kept, touched>>
  BY DEF SaveEnds
<1>4. phase = "READY" /\ IsOn(web, AllFields)
  BY <1>1, AtRest DEF IInv, CopyInv, ShapeInv
<1>5. storage => Agree(web, live)
  BY <1>1 DEF IInv, AgreeInv, Saving
<1>6. Acting(web) = ActingOf(web.idle, live)
  BY DEF Acting, ActingOf
<1>7. storage => Norm(web) = Norm(ActingOf(web.idle, live))
  BY <1>4, <1>5, NormAgreeing
<1>8. /\ storage /\ Valid(web) => runtime' = web
      /\ ~(storage /\ Valid(web)) => UNCHANGED <<runtime, raced>>
  BY <1>2 DEF Published
<1>9. InHand' = InHand /\ (Alone' <=> Alone) /\ ~Setting /\ ~Setting'
  BY <1>1 DEF InHand, Alone, Setting
<1>10. ShapeInv'
  BY <1>1, <1>2, <1>3, <1>4 DEF IInv, ShapeInv
<1>11. CountInv'
  BY <1>1, SettingsAssumption DEF IInv, CountInv
<1>12. StoreInv'
  <2>1. CASE ok /\ storage /\ Valid(web)
    BY <1>3, <1>4, <1>6, <1>7, <2>1, EncodedIs DEF IInv, StoreInv
  <2>2. CASE ~(ok /\ storage /\ Valid(web))
    BY <1>3, <2>2 DEF IInv, StoreInv
  <2> QED
    BY <2>1, <2>2
<1>13. StartInv'
  BY <1>4 DEF StartInv
<1>14. CopyInv'
  BY <1>8 DEF IInv, CopyInv
<1>15. PolicyInv'
  <2>1. "mhz" \in raced /\ (~Normal(live) \/ shell.pc = "MHZ") => "mhz" \in raced'
    <3>1. shell.pc = "MHZ" => "mhz" \in InHand
      BY AtRest DEF IInv, InHand, IsShell, Holding, IsOn
    <3> QED
      BY <1>2, <3>1 DEF Split
  <2> QED
    BY <2>1 DEF IInv, PolicyInv
<1>16. WorkingInv' /\ RuntimeInv' /\ HandInv'
  <2>1. CASE storage /\ Valid(web)
    <3>1. web.dead = live.dead /\ web.poll = live.poll /\ web.led = live.led
          /\ web.auto = live.auto
      BY <1>5, <2>1, FieldsAre DEF Agree
    <3>2. WorkingInv'
      BY <3>1 DEF WorkingInv
    <3>3. RuntimeInv'
      BY <1>8, <2>1, <3>1 DEF RuntimeInv, Answered, Newest
    <3>4. HandInv'
      BY <1>2, <1>9, <2>1 DEF IInv, HandInv, Excused, Newest
    <3> QED
      BY <3>2, <3>3, <3>4
  <2>2. CASE ~(storage /\ Valid(web))
    BY <1>8, <1>9, <2>2 DEF IInv, WorkingInv, RuntimeInv, HandInv, Excused, Newest
  <2> QED
    BY <2>1, <2>2
<1>17. StoredInv'
  BY <1>9 DEF IInv, StoredInv, Todo
<1>18. HeldInv'
  BY <1>8, <1>9 DEF IInv, HeldInv, Saved
<1>19. AgreeInv'
  BY <1>1, <1>4, <1>9 DEF IInv, AgreeInv, Saving
<1>20. WriteInv'
  BY <1>9 DEF IInv, WriteInv, Saved
<1>21. ParityInv'
  BY <1>1, <1>2 DEF IInv, ParityInv, ShapeInv, Publishing, Setting, Saving, Copying
<1>22. SurviveInv'
  <2>1. CASE ok /\ storage /\ Valid(web)
    BY <1>3, <1>6, <2>1 DEF SurviveInv
  <2>2. CASE ~(ok /\ storage /\ Valid(web))
    BY <1>3, <2>2 DEF IInv, SurviveInv
  <2> QED
    BY <2>1, <2>2
<1> QED
  BY <1>10, <1>11, <1>12, <1>13, <1>14, <1>15, <1>16, <1>17, <1>18, <1>19, <1>20, <1>21, <1>22
      DEF IInv

-----------------------------------------------------------------------------
(* The shell                                                               *)

(* What a command on the variables leaves alone, and what it changes.      *)
SetsFrame ==
    /\ phase = "READY" /\ bridge = Idle /\ touched' = TRUE
    /\ calls' = calls \/ (calls < MaxCalls /\ calls' = calls + 1)
    /\ UNCHANGED <<flash, legacy, phase, storage, web, runtime, odd, loaded, inherited,
                   bridge, auto, done, shown, stuck, kept>>
SetsChange ==
    /\ IsOn(live', Owned) /\ live'.dead = live.dead
    /\ live'.poll = live.poll /\ live'.led = live.led
    /\ unshown' \/ (unshown' = unshown /\ live'.auto = live.auto)
    /\ unshown' \in BOOLEAN
    /\ shell.pc \in Clocks \cup {"IDLE"}
    /\ shell' = Idle \/ (IsShell(shell') /\ shell'.pc \in Clocks)
    /\ \A f \in raced : f # "mhz" => f \in raced'
    /\ PolicyInv'

LEMMA SetsKeep ==
  ASSUME IInv, SetsFrame, SetsChange PROVE IInv'
<1>1. bridge.pc = "IDLE" /\ bridge'.pc = "IDLE" /\ shell'.pc \in Clocks \cup {"IDLE"}
      /\ ~Setting /\ ~Setting' /\ ~Saving /\ ~Saving' /\ ~Copying /\ ~Copying'
  <2>1. bridge.pc = "IDLE" /\ bridge'.pc = "IDLE" /\ shell.pc \in Clocks \cup {"IDLE"}
    BY DEF SetsFrame, SetsChange, Idle
  <2>2. shell'.pc \in Clocks \cup {"IDLE"}
    <3>1. CASE shell' = Idle
      BY <3>1 DEF Idle
    <3> QED
      BY <3>1 DEF SetsChange
  <2> QED
    BY <2>1, <2>2 DEF Clocks, Setting, Saving, Copying
<1>2. ShapeInv'
  BY <1>1 DEF IInv, ShapeInv, SetsFrame, SetsChange
<1>3. CountInv'
  BY <1>1, SettingsAssumption DEF IInv, CountInv, SetsFrame
<1>4. StoreInv' /\ StartInv'
  BY <1>1 DEF IInv, StoreInv, StartInv, SetsFrame, Clocks
<1>5. CopyInv'
  BY DEF IInv, CopyInv, SetsFrame, SetsChange
<1>6. \A f \in Answered : Excused(f) => Excused(f)'
  BY DEF Excused, SetsChange, Answered
<1>7. \A f \in Answered : Excused(f)' \/ Newest(f)' = Newest(f)
  BY DEF Excused, Newest, SetsChange, SetsFrame, Answered
<1>8. WorkingInv'
  <2>1. \A f \in {"auto", "poll", "led"} : f \in Answered /\ Newest(f) = live[f] /\ Newest(f)' = live'[f]
    BY DEF Answered, Newest
  <2> QED
    BY <1>6, <1>7, <2>1 DEF IInv, WorkingInv, SetsFrame
<1>9. RuntimeInv'
  BY <1>1, <1>6, <1>7 DEF IInv, RuntimeInv, SetsFrame
<1>10. HandInv' /\ StoredInv'
  BY <1>1 DEF HandInv, StoredInv, Clocks
<1>11. HeldInv' /\ AgreeInv' /\ WriteInv' /\ SurviveInv'
  BY <1>1 DEF HeldInv, AgreeInv, WriteInv, SurviveInv, SetsFrame, Clocks
<1>12. ParityInv'
  BY <1>1 DEF IInv, ParityInv, Publishing, SetsFrame
<1> QED
  BY <1>2, <1>3, <1>4, <1>5, <1>8, <1>9, <1>10, <1>11, <1>12, SetsChange DEF IInv, SetsChange

LEMMA ShellSetsStep ==
  ASSUME IInv, ShellSets PROVE IInv'
<1>1. SetsFrame
  <2>1. ShellRuns /\ touched' = TRUE
        /\ (calls' = calls \/ (calls < MaxCalls /\ calls' = calls + 1))
    BY DEF ShellSets, ShellSetsClock, ShellSetsGovernor, ShellSwitches, ShellCalls, Calls
  <2>2. UNCHANGED <<store, phase, storage, copies, loaded, inherited, bridge, auto,
                    done, shown, stuck, kept, cuts, failures>>
    BY DEF ShellSets
  <2> QED
    BY <2>1, <2>2 DEF ShellRuns, Running, SetsFrame
<1>2. DOMAIN live = Owned
  BY DEF IInv, CopyInv, IsOn
<1>3. unshown \in BOOLEAN /\ PolicyInv
  BY DEF IInv, ShapeInv
<1>4. Idle.pc = "IDLE"
  BY DEF Idle
<1>5. ASSUME NEW set \in Shellings, shell = Idle,
             live' = [live EXCEPT !.profile = set[1]],
             shell' = [pc |-> "MHZ", what |-> "CLOCK", overtaken |-> FALSE,
                       at |-> 0, body |-> [mhz |-> set[2]]],
             raced' = raced \ {"mhz"}, unshown' = unshown
      PROVE  SetsChange
  <2>1. IsOn(live', Owned)
    BY <1>2, <1>5 DEF IsOn
  <2>2. /\ live'.dead = live.dead /\ live'.poll = live.poll /\ live'.led = live.led
        /\ live'.auto = live.auto /\ live'.profile = set[1]
    BY <1>2, <1>5, FieldsAre
  <2>3. IsShell(shell') /\ shell'.pc = "MHZ" /\ shell'.body.mhz = set[2]
    BY <1>5 DEF IsShell, Places, Clocks, Holding, IsOn
  <2>4. PolicyInv'
    BY <2>2, <2>3, SettingsAssumption DEF PolicyInv
  <2> QED
    BY <1>3, <1>4, <1>5, <2>1, <2>2, <2>3, <2>4 DEF SetsChange, Clocks
<1>6. ASSUME shell.pc = "MHZ", live' = [live EXCEPT !.mhz = shell.body.mhz],
             shell' = [shell EXCEPT !.pc = "GOVERNOR", !.body = Nothing],
             UNCHANGED <<raced, unshown>>
      PROVE  SetsChange
  <2>1. IsOn(live', Owned)
    BY <1>2, <1>6 DEF IsOn
  <2>2. /\ live'.dead = live.dead /\ live'.poll = live.poll /\ live'.led = live.led
        /\ live'.auto = live.auto /\ live'.profile = live.profile /\ live'.mhz = shell.body.mhz
    BY <1>2, <1>6, FieldsAre
  <2>3. IsShell(shell)
    BY <1>6, AtRest DEF IInv
  <2>4. IsShell(shell') /\ shell'.pc = "GOVERNOR"
    BY <1>6, <2>3 DEF IsShell, Places, Clocks, Holding, IsOn, Nothing
  <2>5. PolicyInv'
    BY <1>3, <1>6, <2>2, <2>4 DEF PolicyInv, Normal
  <2> QED
    BY <1>3, <1>6, <2>1, <2>2, <2>4, <2>5 DEF SetsChange, Clocks
<1>7. ASSUME shell.pc \in {"GOVERNOR", "IDLE"}, shell' = Idle, UNCHANGED <<raced, unshown>>,
             NEW governor, live' = [live EXCEPT !.governor = governor]
      PROVE  SetsChange
  <2>1. IsOn(live', Owned)
    BY <1>2, <1>7 DEF IsOn
  <2>2. /\ live'.dead = live.dead /\ live'.poll = live.poll /\ live'.led = live.led
        /\ live'.auto = live.auto /\ live'.profile = live.profile /\ live'.mhz = live.mhz
    BY <1>2, <1>7, FieldsAre
  <2>3. PolicyInv'
    BY <1>3, <1>4, <1>7, <2>2 DEF PolicyInv, Normal
  <2> QED
    BY <1>3, <1>7, <2>1, <2>2, <2>3 DEF SetsChange, Clocks
<1>8. ASSUME shell = Idle, shell' = Idle, UNCHANGED raced, NEW f \in {"mic", "auto"},
             live' = [live EXCEPT ![f] = ~@], unshown' = (unshown \/ f = "auto")
      PROVE  SetsChange
  <2>1. IsOn(live', Owned)
    BY <1>2, <1>8 DEF IsOn
  <2>2. /\ live'.dead = live.dead /\ live'.poll = live.poll /\ live'.led = live.led
        /\ f # "auto" => live'.auto = live.auto
        /\ live'.profile = live.profile /\ live'.mhz = live.mhz
    BY <1>2, <1>8, FieldsAre
  <2>3. PolicyInv'
    BY <1>3, <1>4, <1>8, <2>2 DEF PolicyInv, Normal
  <2>4. unshown' \in BOOLEAN /\ (f = "auto" => unshown') /\ (f # "auto" => unshown' = unshown)
    BY <1>3, <1>8
  <2> QED
    BY <1>4, <1>8, <2>1, <2>2, <2>3, <2>4 DEF SetsChange, Clocks
<1>9. SetsChange
  <2>1. CASE ShellSetsClock
    BY <2>1, <1>5, <1>6, <1>7 DEF ShellSetsClock, ShellCalls
  <2>2. CASE ShellSetsGovernor
    BY <2>2, <1>4, <1>7 DEF ShellSetsGovernor, ShellCalls
  <2>3. CASE ShellSwitches
    BY <2>3, <1>8 DEF ShellSwitches, ShellCalls
  <2> QED
    BY <2>1, <2>2, <2>3 DEF ShellSets
<1> QED
  BY <1>1, <1>9, SetsKeep

LEMMA ShellSaveStep ==
  ASSUME IInv, ShellSave,
         UNCHANGED <<phase, storage, bridge, auto, done, shown, stuck, cuts>>
  PROVE  IInv'
<1>1. /\ phase = "READY" /\ bridge = Idle /\ shell = Idle
      /\ bridge.pc = "IDLE" /\ shell.pc = "IDLE" /\ storage
      /\ calls < MaxCalls /\ calls' = calls + 1
      /\ UNCHANGED <<web, runtime, odd, live, touched, unshown, raced, kept, flash, legacy,
                     loaded, inherited>>
  BY DEF ShellSave, ShellCalls, ShellRuns, Running, Calls, Idle
<1>2. /\ IsShell(shell') /\ shell'.pc = "REFRESH" /\ shell'.at = 1 /\ ~shell'.overtaken
      /\ shell'.body = [f \in {"mic"} |-> live[f]]
  <2>1. PICK what \in {"ALL", "RELEASE"} :
          shell' = [pc |-> "REFRESH", what |-> what, overtaken |-> FALSE, at |-> 1,
                    body |-> [f \in {"mic"} |-> live[f]]]
    BY HandsAre DEF ShellSave
  <2> QED
    BY <2>1, HandsAre DEF IsShell, Places, Clocks, Holding, IsOn
<1>3. InHand' = {"mic"} /\ ~Setting /\ ~Setting' /\ ~Saving /\ ~Saving' /\ ~Copying /\ ~Copying'
  BY <1>1, <1>2 DEF InHand, Setting, Saving, Copying
<1>4. ShapeInv'
  BY <1>1, <1>2 DEF IInv, ShapeInv
<1>5. CountInv'
  BY <1>1, SettingsAssumption DEF IInv, CountInv
<1>6. StoreInv' /\ StartInv'
  BY <1>1, <1>2 DEF IInv, StoreInv, StartInv
<1>7. CopyInv' /\ WorkingInv'
  BY <1>1 DEF IInv, CopyInv, WorkingInv, Excused
<1>8. PolicyInv'
  BY <1>1, <1>2 DEF IInv, PolicyInv
<1>9. RuntimeInv'
  BY <1>1, <1>3 DEF IInv, RuntimeInv, Excused, Newest
<1>10. HandInv'
  BY <1>3 DEF HandInv, Answered
<1>11. StoredInv'
  BY <1>1, <1>2, HandsAre DEF IInv, StoredInv, CopyInv
<1>12. HeldInv'
  BY <1>1, <1>2, <1>3 DEF HeldInv
<1>13. AgreeInv' /\ SurviveInv'
  BY <1>1, <1>2, <1>3 DEF IInv, AgreeInv, SurviveInv
<1>14. WriteInv'
  BY <1>1, <1>2, <1>3 DEF WriteInv
<1>15. ParityInv'
  BY <1>1, <1>3 DEF IInv, ParityInv, Publishing
<1> QED
  BY <1>4, <1>5, <1>6, <1>7, <1>8, <1>9, <1>10, <1>11, <1>12, <1>13, <1>14, <1>15 DEF IInv

(* What no step of the shell after its first changes.                      *)
ShellGoesOn ==
    /\ ShellRuns /\ shell.pc \notin Clocks \cup {"IDLE"}
    /\ UNCHANGED <<phase, storage, bridge, auto, done, shown, stuck, live, unshown, calls>>

LEMMA ShellGoes ==
  ASSUME IInv, ShellGoesOn
  PROVE  /\ phase = "READY" /\ bridge = Idle /\ bridge.pc = "IDLE" /\ storage
         /\ phase' = "READY" /\ bridge' = Idle /\ bridge'.pc = "IDLE" /\ storage'
         /\ IsShell(shell) /\ CountInv' /\ StartInv'
         /\ ~Setting /\ ~Setting' /\ ~Publishing /\ ~Publishing' /\ ~Saving /\ ~Saving'
<1>1. phase = "READY" /\ bridge = Idle /\ bridge.pc = "IDLE"
  BY DEF ShellGoesOn, ShellRuns, Running, Idle
<1>2. storage /\ IsShell(shell)
  BY AtRest DEF IInv, WriteInv, ShellGoesOn
<1>3. storage' = storage /\ bridge' = bridge /\ phase' = phase
  BY DEF ShellGoesOn
<1>4. storage'
  BY ONLY <1>2, <1>3
<1>5. ~Setting /\ ~Setting' /\ ~Publishing /\ ~Publishing' /\ ~Saving /\ ~Saving'
  BY ONLY <1>1, <1>3 DEF Publishing, Setting, Saving
<1> QED
  BY <1>1, <1>2, <1>3, <1>4, <1>5 DEF IInv, CountInv, StartInv, ShellGoesOn

LEMMA ShellRefreshesStep ==
  ASSUME IInv, ShellRefreshes,
         UNCHANGED <<phase, storage, bridge, auto, done, shown, stuck, cuts>>
  PROVE  IInv'
<1> DEFINE i == shell.at
           next == IF LastPlace THEN {} ELSE Hands[i + 1]
           left == IF i = 8 THEN {"profile"} ELSE Hands[i] \ next
<1>1. /\ ShellGoesOn /\ shell.pc = "REFRESH"
      /\ UNCHANGED <<runtime, touched, raced, kept, flash, legacy, loaded, inherited>>
  BY DEF ShellRefreshes, ShellGoesOn, Clocks
<1>2. /\ phase = "READY" /\ bridge.pc = "IDLE" /\ bridge'.pc = "IDLE" /\ storage /\ phase' = "READY"
      /\ storage' /\ IsShell(shell) /\ CountInv' /\ StartInv' /\ bridge' = Idle
      /\ ~Setting /\ ~Setting' /\ ~Publishing /\ ~Publishing' /\ ~Saving'
  BY <1>1, ShellGoes
<1>3. i \in 1 .. 9 /\ IsOn(shell.body, Hands[i]) /\ InHand = Hands[i] /\ ~Copying /\ ~odd
  <2>1. i \in 1 .. 9 /\ IsOn(shell.body, Hands[i])
    BY <1>1, <1>2 DEF IsShell, Holding
  <2> QED
    BY <1>1, <1>2, <2>1 DEF InHand, IsOn, Copying, IInv, ParityInv
<1>4. LastPlace <=> i = 9 \/ (i = 8 /\ shell.body.profile \in DOMAIN Profiles)
  BY HandsAre DEF LastPlace
<1>5. left \subseteq Hands[i] /\ Hands[i] \subseteq Owned \ {"dead"} /\ next \subseteq Owned \ {"dead"}
  <2>1. Hands[i] \subseteq Owned \ {"dead"} /\ (~LastPlace => Hands[i + 1] \subseteq Owned \ {"dead"})
    BY <1>3, <1>4, HandsAre
  <2>2. i = 8 => "profile" \in Hands[i]
    BY HandsAre
  <2> QED
    BY <2>1, <2>2
<1>6. web' = [f \in AllFields |-> IF f \in left THEN shell.body[f] ELSE web[f]]
  BY DEF ShellRefreshes
<1>7. IF ~LastPlace
      THEN /\ shell' = [shell EXCEPT !.at = i + 1,
                          !.body = [f \in next |-> IF f \in DOMAIN shell.body THEN shell.body[f] ELSE live[f]]]
           /\ UNCHANGED odd
      ELSE IF Valid(web')
      THEN /\ shell' = [shell EXCEPT !.pc = "COPY", !.at = 0,
                          !.body = [f \in FirstFields |-> web'[f]]]
           /\ odd' = ~odd
      ELSE /\ shell' = [shell EXCEPT !.pc = "ENCODE", !.at = 0, !.body = Nothing]
           /\ UNCHANGED odd
  BY DEF ShellRefreshes
<1> HIDE DEF left
<1>8. /\ IsOn(web', AllFields) /\ web'.idle = web.idle /\ web'.dead = web.dead
      /\ \A f \in AllFields : web'[f] = IF f \in left THEN shell.body[f] ELSE web[f]
  BY <1>5, <1>6, FieldsAre DEF IsOn
<1>9. /\ shell'.what = shell.what /\ shell'.overtaken = shell.overtaken /\ IsShell(shell')
      /\ ~LastPlace => /\ shell'.pc = "REFRESH" /\ shell'.at = i + 1 /\ InHand' = next
                       /\ \A f \in next : shell'.body[f] =
                             IF f \in Hands[i] THEN shell.body[f] ELSE live[f]
      /\ LastPlace => \/ /\ Valid(web') /\ shell'.pc = "COPY" /\ InHand' = FirstFields
                          /\ \A f \in FirstFields : shell'.body[f] = web'[f]
                       \/ (shell'.pc = "ENCODE" /\ InHand' = {} /\ ~Valid(web'))
  <2>1. CASE ~LastPlace
    <3> DEFINE b == [f \in next |-> IF f \in DOMAIN shell.body THEN shell.body[f] ELSE live[f]]
    <3>1. IsOn(b, next) /\ DOMAIN b = next
          /\ \A f \in next : b[f] = IF f \in Hands[i] THEN shell.body[f] ELSE live[f]
      BY <1>3 DEF IsOn
    <3>2. shell' = [shell EXCEPT !.at = i + 1, !.body = b]
      BY <1>7, <2>1
    <3>3. i + 1 \in 1 .. 9 /\ next = Hands[i + 1]
      BY <1>3, <1>4, <2>1
    <3> HIDE DEF b, next
    <3>4. /\ shell' = [pc |-> shell'.pc, what |-> shell'.what, overtaken |-> shell'.overtaken,
                       at |-> shell'.at, body |-> shell'.body]
          /\ shell'.pc = "REFRESH" /\ shell'.what = shell.what
          /\ shell'.overtaken = shell.overtaken /\ shell'.at = i + 1 /\ shell'.body = b
      BY <1>1, <1>2, <3>2 DEF IsShell
    <3>5. Holding(shell') = next
      BY <3>3, <3>4 DEF Holding
    <3>6. IsShell(shell')
      BY <1>1, <1>2, <3>1, <3>3, <3>4, <3>5 DEF IsShell, Clocks
    <3>7. InHand' = next
      BY <3>1, <3>4 DEF InHand
    <3> QED
      BY ONLY <2>1, <3>1, <3>4, <3>6, <3>7
  <2>2. CASE LastPlace /\ Valid(web')
    <3> DEFINE b == [f \in FirstFields |-> web'[f]]
    <3>1. IsOn(b, FirstFields) /\ DOMAIN b = FirstFields /\ \A f \in FirstFields : b[f] = web'[f]
      BY DEF IsOn
    <3>2. shell' = [shell EXCEPT !.pc = "COPY", !.at = 0, !.body = b]
      BY <1>7, <2>2
    <3> HIDE DEF b
    <3>4. /\ shell' = [pc |-> shell'.pc, what |-> shell'.what, overtaken |-> shell'.overtaken,
                       at |-> shell'.at, body |-> shell'.body]
          /\ shell'.pc = "COPY" /\ shell'.what = shell.what
          /\ shell'.overtaken = shell.overtaken /\ shell'.body = b
      BY <1>1, <1>2, <3>2 DEF IsShell
    <3>5. IsShell(shell')
      BY <1>1, <1>2, <3>1, <3>4 DEF IsShell, Clocks, Places, Holding
    <3> QED
      BY <2>2, <3>1, <3>4, <3>5 DEF InHand
  <2>3. CASE LastPlace /\ ~Valid(web')
    <3>2. shell' = [shell EXCEPT !.pc = "ENCODE", !.at = 0, !.body = Nothing]
      BY <1>7, <2>3
    <3>4. /\ shell' = [pc |-> shell'.pc, what |-> shell'.what, overtaken |-> shell'.overtaken,
                       at |-> shell'.at, body |-> shell'.body]
          /\ shell'.pc = "ENCODE" /\ shell'.what = shell.what
          /\ shell'.overtaken = shell.overtaken /\ shell'.body = Nothing
      BY <1>1, <1>2, <3>2 DEF IsShell
    <3>5. IsShell(shell')
      BY <1>1, <1>2, <3>4 DEF IsShell, Clocks, Places, Holding, IsOn, Nothing
    <3> QED
      BY <2>3, <3>4, <3>5 DEF InHand
  <2> QED
    BY <2>1, <2>2, <2>3
<1>10. ShapeInv'
  <2>1. odd' \in BOOLEAN
    BY <1>7 DEF IInv, ShapeInv
  <2> QED
    BY <1>1, <1>2, <1>9, <2>1 DEF IInv, ShapeInv, ShellGoesOn
<1>11. StoreInv'
  <2>1. shell'.pc # "CLEAR" /\ storage' = storage
    BY <1>1, <1>9 DEF ShellGoesOn
  <2> QED
    BY <1>1, <1>2, <2>1 DEF IInv, StoreInv
<1>12. live' = live /\ unshown' = unshown
  BY <1>1 DEF ShellGoesOn
<1>13. CopyInv'
  <2>1. web'.poll # "1000 HZ"
    <3>1. "poll" \in left => "poll" \in InHand
      BY <1>3, <1>5
    <3> QED
      BY <1>1, <1>8, <3>1, FieldsAre DEF IInv, CopyInv, WriteInv
  <2> QED
    BY <1>1, <1>8, <1>12, <2>1 DEF IInv, CopyInv
<1>14. PolicyInv'
  BY <1>1, <1>9, <1>12 DEF IInv, PolicyInv
<1>15. WorkingInv'
  <2> SUFFICES ASSUME NEW f \in {"auto", "poll", "led"} PROVE (Excused(f) \/ web[f] = live[f])'
    BY DEF WorkingInv
  <2>1. Excused(f) \/ web[f] = live[f]
    BY DEF IInv, WorkingInv
  <2>2. f \in InHand => Excused(f) \/ shell.body[f] = live[f]
    BY <1>1 DEF IInv, HandInv, Answered, Newest
  <2>3. web'[f] = IF f \in left THEN shell.body[f] ELSE web[f]
    BY <1>8, FieldsAre
  <2>4. f \in left => f \in InHand
    BY <1>3, <1>5
  <2>5. Excused(f)' <=> Excused(f)
    BY <1>1, <1>12 DEF Excused
  <2> QED
    BY <1>12, <2>1, <2>2, <2>3, <2>4, <2>5
<1>16. RuntimeInv'
  BY <1>1, <1>2, <1>8, <1>12 DEF IInv, RuntimeInv, Excused, Newest
<1>17. HandInv'
  <2>1. CASE ~LastPlace
    <3>1. \A f \in next : f \in Answered =>
            Excused(f) \/ shell'.body[f] = live[f]
      BY <1>1, <1>3, <1>5, <1>9, <2>1, FieldsAre DEF IInv, HandInv, Newest
    <3>2. \A f \in next : f # "idle"
      BY <1>5, FieldsAre
    <3> QED
      BY <1>1, <1>9, <1>12, <2>1, <3>1, <3>2 DEF HandInv, Excused, Newest
  <2>2. CASE LastPlace
    <3>1. \A f \in FirstFields : f \in Answered => f = "auto"
      BY DEF FirstFields, Answered
    <3> QED
      BY <1>9, <1>15, <2>2, <3>1 DEF HandInv, WorkingInv, Newest
  <2> QED
    BY <2>1, <2>2
<1>18. Alone' => /\ Alone
                 /\ \A f \in Hands[i] : shell.body[f] = live[f]
                 /\ \A f \in Owned : f \in Todo(i) \/ web[f] = live[f]
  BY <1>1, <1>3, <1>9 DEF IInv, Alone, HeldInv, StoredInv
<1>19. StoredInv'
  <2> SUFFICES ASSUME Alone', ~LastPlace, NEW f \in Owned, f \notin Todo(i + 1)
               PROVE  web'[f] = live[f]
    BY <1>9, <1>12 DEF StoredInv, Todo
  <2>1. i \in 1 .. 8
    BY <1>3, <1>4
  <2>2. Todo(i) = Hands[i] \cup Todo(i + 1) /\ next \subseteq Todo(i + 1)
    BY <2>1, HandsAre
  <2>3. f \in Hands[i] => f \in left
    <3>1. CASE i = 8
      <4>1. Todo(i + 1) = {"mhz"} /\ Hands[i] = {"profile", "mhz"}
        BY <3>1, HandsAre
      <4> QED
        BY <3>1, <4>1 DEF left
    <3>2. CASE i # 8
      BY <2>2, <3>2 DEF left
    <3> QED
      BY <3>1, <3>2
  <2>4. f \in AllFields
    BY FieldsAre
  <2> QED
    BY <1>5, <1>8, <1>18, <2>2, <2>3, <2>4
<1>20. Alone' /\ LastPlace => Agree(web', live)
  <2> SUFFICES ASSUME Alone', LastPlace, NEW f \in Owned
               PROVE  web'[f] = live[f] \/ (f = "mhz" /\ live.profile \in DOMAIN Profiles)
    BY DEF Agree
  <2>0. f \in AllFields
    BY FieldsAre
  <2>1. CASE i = 9
    <3>1. Hands[i] = {"mhz"} /\ Todo(i) = {"mhz"} /\ left = {"mhz"}
      BY <2>1, HandsAre DEF left
    <3> QED
      BY <1>8, <1>18, <2>0, <3>1
  <2>2. CASE i = 8 /\ shell.body.profile \in DOMAIN Profiles
    <3>1. Hands[i] = {"profile", "mhz"} /\ Todo(i) = {"profile", "mhz"} /\ left = {"profile"}
      BY <2>2, HandsAre DEF left
    <3>2. shell.body.profile = live.profile
      BY <1>18, <3>1
    <3> QED
      BY <1>8, <1>18, <2>0, <2>2, <3>1, <3>2
  <2> QED
    BY <1>4, <2>1, <2>2
<1>21. HeldInv'
  <2>1. CASE ~LastPlace
    BY <1>9, <1>12, <1>18, <2>1 DEF HeldInv
  <2>2. CASE LastPlace
    BY <1>9, <2>2 DEF HeldInv
  <2> QED
    BY <2>1, <2>2
<1>22. AgreeInv'
  BY <1>2, <1>9, <1>12, <1>20 DEF AgreeInv
<1>23. WriteInv'
  <2>1. shell.overtaken => live.mhz \in Validated
    BY <1>1 DEF IInv, WriteInv, Clocks
  <2>2. shell'.pc = "REFRESH" /\ "poll" \in InHand' => shell'.body.poll # "1000 HZ"
    <3> SUFFICES ASSUME shell'.pc = "REFRESH", "poll" \in InHand' PROVE shell'.body.poll # "1000 HZ"
      OBVIOUS
    <3>1. ~LastPlace
      BY <1>9
    <3>2. "poll" \in next /\ shell'.body.poll = IF "poll" \in Hands[i] THEN shell.body.poll ELSE live.poll
      BY <1>9, <3>1
    <3> QED
      BY <1>1, <1>3, <3>2 DEF IInv, WriteInv, CopyInv
  <2>3. shell'.pc \in {"REFRESH", "COPY", "ENCODE"} /\ (shell'.pc = "COPY" => Valid(web'))
    BY <1>9
  <2> QED
    BY <1>2, <1>9, <1>12, <2>1, <2>2, <2>3 DEF WriteInv
<1>24. ParityInv'
  <2>1. odd' <=> Copying'
    BY <1>3, <1>7, <1>9 DEF Copying
  <2> QED
    BY <1>2, <2>1 DEF ParityInv
<1>25. SurviveInv'
  BY <1>1, <1>2, <1>8, <1>12 DEF IInv, SurviveInv
<1> QED
  BY <1>2, <1>10, <1>11, <1>13, <1>14, <1>15, <1>16, <1>17, <1>19, <1>21, <1>22, <1>23, <1>24,
     <1>25 DEF IInv

LEMMA ShellCopiesStep ==
  ASSUME IInv, ShellCopies,
         UNCHANGED <<phase, storage, bridge, auto, done, shown, stuck, cuts>>
  PROVE  IInv'
<1>1. /\ ShellGoesOn /\ shell.pc \in {"COPY", "COPY REST"}
      /\ runtime' = [f \in AllFields |-> IF f \in InHand THEN shell.body[f] ELSE runtime[f]]
      /\ UNCHANGED <<web, touched, kept, flash, legacy, loaded, inherited>>
  BY DEF ShellCopies, ShellGoesOn, Clocks
<1>2. /\ phase = "READY" /\ bridge.pc = "IDLE" /\ bridge'.pc = "IDLE" /\ storage /\ phase' = "READY"
      /\ storage' /\ IsShell(shell) /\ CountInv' /\ StartInv' /\ bridge' = Idle
      /\ ~Setting /\ ~Setting' /\ ~Publishing /\ ~Publishing' /\ ~Saving'
  BY <1>1, ShellGoes
<1>3. live' = live /\ unshown' = unshown /\ storage' = storage
  BY <1>1 DEF ShellGoesOn
<1>4. /\ InHand = Holding(shell) /\ IsOn(shell.body, InHand) /\ InHand \subseteq AllFields
      /\ shell.pc = "COPY" => InHand = FirstFields
      /\ shell.pc = "COPY REST" => InHand = AllFields \ FirstFields
      /\ Copying /\ odd
  <2>1. odd <=> Copying
    BY <1>2 DEF IInv, ParityInv
  <2> QED
    BY <1>1, <1>2, <2>1, FieldsAre DEF InHand, IsShell, Holding, IsOn, Copying, FirstFields
<1>5. /\ IsOn(runtime', AllFields)
      /\ \A f \in AllFields : runtime'[f] = IF f \in InHand THEN shell.body[f] ELSE runtime[f]
  BY <1>1 DEF IsOn
<1>6. \/ /\ shell.pc = "COPY" /\ IsShell(shell') /\ shell'.pc = "COPY REST"
         /\ shell'.what = shell.what /\ shell'.overtaken = shell.overtaken
         /\ InHand' = AllFields \ FirstFields
         /\ \A f \in AllFields \ FirstFields : shell'.body[f] = web[f]
         /\ UNCHANGED <<odd, raced>>
      \/ /\ shell.pc = "COPY REST" /\ IsShell(shell') /\ shell'.pc = "ENCODE" /\ InHand' = {}
         /\ shell'.what = shell.what /\ shell'.overtaken = shell.overtaken
         /\ odd' = ~odd
         /\ raced' = IF shell.overtaken THEN raced ELSE raced \cap Split
  <2>1. CASE shell.pc = "COPY"
    <3> DEFINE b == [f \in AllFields \ FirstFields |-> web[f]]
    <3>1. /\ IsOn(b, AllFields \ FirstFields) /\ DOMAIN b = AllFields \ FirstFields
          /\ \A f \in AllFields \ FirstFields : b[f] = web[f]
      BY DEF IsOn
    <3>2. shell' = [shell EXCEPT !.pc = "COPY REST", !.body = b] /\ UNCHANGED <<odd, raced>>
      BY <2>1 DEF ShellCopies
    <3> HIDE DEF b
    <3>3. /\ shell' = [pc |-> shell'.pc, what |-> shell'.what, overtaken |-> shell'.overtaken,
                       at |-> shell'.at, body |-> shell'.body]
          /\ shell'.pc = "COPY REST" /\ shell'.what = shell.what
          /\ shell'.overtaken = shell.overtaken /\ shell'.body = b
      BY <1>2, <3>2 DEF IsShell
    <3>4. IsShell(shell')
      BY <1>2, <2>1, <3>1, <3>3 DEF IsShell, Clocks, Places, Holding
    <3> QED
      BY <2>1, <3>1, <3>2, <3>3, <3>4 DEF InHand
  <2>2. CASE shell.pc = "COPY REST"
    <3>2. /\ shell' = [shell EXCEPT !.pc = "ENCODE", !.body = Nothing] /\ odd' = ~odd
          /\ raced' = IF shell.overtaken THEN raced ELSE raced \cap Split
      BY <2>2 DEF ShellCopies
    <3>3. /\ shell' = [pc |-> shell'.pc, what |-> shell'.what, overtaken |-> shell'.overtaken,
                       at |-> shell'.at, body |-> shell'.body]
          /\ shell'.pc = "ENCODE" /\ shell'.what = shell.what
          /\ shell'.overtaken = shell.overtaken /\ shell'.body = Nothing
      BY <1>2, <3>2 DEF IsShell
    <3>4. IsShell(shell')
      BY <1>2, <2>2, <3>3 DEF IsShell, Clocks, Places, Holding, IsOn, Nothing
    <3> QED
      BY <2>2, <3>2, <3>3, <3>4 DEF InHand
  <2> QED
    BY <1>1, <2>1, <2>2
<1>7. ShapeInv'
  <2>1. odd' \in BOOLEAN
    BY <1>6 DEF IInv, ShapeInv
  <2> QED
    BY <1>1, <1>2, <1>6, <2>1 DEF IInv, ShapeInv, ShellGoesOn
<1>8. StoreInv'
  BY <1>1, <1>2, <1>3, <1>6 DEF IInv, StoreInv
<1>9. CopyInv'
  <2>1. Valid(runtime')
    <3>1. "mhz" \in AllFields \ FirstFields /\ "poll" \in AllFields \ FirstFields
      BY FieldsAre DEF FirstFields
    <3>2. CASE shell.pc = "COPY"
      BY <1>4, <1>5, <3>1, <3>2 DEF IInv, CopyInv, Valid
    <3>3. CASE shell.pc = "COPY REST"
      BY <1>4, <1>5, <3>1, <3>3 DEF IInv, WriteInv, Valid
    <3> QED
      BY <1>1, <3>2, <3>3
  <2> QED
    BY <1>1, <1>3, <1>5, <2>1 DEF IInv, CopyInv
<1>10. Alone /\ shell.pc = "COPY REST" =>
          \A f \in Owned : f = "mhz" \/ (web[f] = live[f] /\ runtime'[f] = web[f])
  <2> SUFFICES ASSUME Alone, shell.pc = "COPY REST", NEW f \in Owned, f # "mhz"
               PROVE  web[f] = live[f] /\ runtime'[f] = web[f]
    OBVIOUS
  <2>1. web[f] = live[f]
    BY DEF IInv, AgreeInv, Agree
  <2>2. f \in AllFields
    BY FieldsAre
  <2> QED
    BY <1>4, <1>5, <2>1, <2>2 DEF IInv, HeldInv
<1>11. Alone /\ shell.pc = "COPY REST" => runtime'.idle = web.idle
  <2>1. "idle" \in AllFields \ FirstFields
    BY FieldsAre DEF FirstFields
  <2> QED
    BY <1>4, <1>5, <2>1 DEF IInv, HeldInv
<1>12. \/ UNCHANGED raced
       \/ Alone /\ shell.pc = "COPY REST" /\ raced' = raced \cap Split
  BY <1>1, <1>6 DEF Alone
<1>13. PolicyInv'
  <2>1. "mhz" \in raced /\ ~Normal(live) => "mhz" \in raced'
    BY <1>12 DEF Split
  <2> QED
    BY <1>1, <1>3, <1>6, <2>1 DEF IInv, PolicyInv
<1>14. WorkingInv'
  <2>1. CASE UNCHANGED raced
    BY <1>1, <1>3, <2>1 DEF IInv, WorkingInv, Excused
  <2>2. CASE Alone /\ shell.pc = "COPY REST"
    BY <1>1, <1>3, <1>10, <2>2, FieldsAre DEF WorkingInv
  <2> QED
    BY <1>12, <2>1, <2>2
<1>15. RuntimeInv'
  <2> SUFFICES ASSUME NEW f \in Answered PROVE (Excused(f) \/ runtime[f] = Newest(f))'
    BY DEF RuntimeInv
  <2>0. f \in AllFields /\ (f # "idle" => f \in Owned) /\ f # "mhz"
    BY FieldsAre DEF Answered
  <2>1. Excused(f) \/ runtime[f] = Newest(f)
    BY <1>2 DEF IInv, RuntimeInv
  <2>2. f \in InHand => Excused(f) \/ shell.body[f] = Newest(f)
    BY <1>1 DEF IInv, HandInv
  <2>3. Newest(f)' = Newest(f)
    BY <1>1, <1>3 DEF Newest
  <2>4. CASE UNCHANGED raced
    <3>1. Excused(f)' <=> Excused(f)
      BY <1>3, <2>4 DEF Excused
    <3> QED
      BY <1>5, <2>0, <2>1, <2>2, <2>3, <3>1
  <2>5. CASE Alone /\ shell.pc = "COPY REST"
    BY <1>10, <1>11, <2>0, <2>3, <2>5 DEF Newest
  <2> QED
    BY <1>12, <2>4, <2>5
<1>16. HandInv'
  <2>1. CASE shell.pc = "COPY"
    <3> SUFFICES ASSUME NEW f \in Answered, f \in AllFields \ FirstFields
                 PROVE  (Excused(f) \/ shell.body[f] = Newest(f))'
      BY <1>6, <2>1 DEF HandInv
    <3>1. shell'.body[f] = web[f]
      BY <1>6, <2>1
    <3>2. Excused(f)' <=> Excused(f)
      BY <1>3, <1>6, <2>1 DEF Excused
    <3>3. f \in {"idle", "dead", "poll", "led"}
      BY DEF Answered, FirstFields
    <3>4. Excused(f) \/ web[f] = Newest(f)
      BY <3>3 DEF IInv, CopyInv, WorkingInv, Newest
    <3>5. Newest(f)' = Newest(f)
      BY <1>1, <1>3 DEF Newest
    <3> QED
      BY <3>1, <3>2, <3>4, <3>5
  <2>2. CASE shell.pc = "COPY REST"
    BY <1>6, <2>2 DEF HandInv
  <2> QED
    BY <1>1, <2>1, <2>2
<1>17. StoredInv'
  BY <1>6 DEF StoredInv
<1>18. HeldInv'
  <2>1. CASE shell.pc = "COPY"
    <3>1. Alone' => \A f \in FirstFields : runtime'[f] = web[f]
      <4>1. FirstFields \subseteq AllFields
        BY FieldsAre DEF FirstFields
      <4> QED
        BY <1>4, <1>5, <1>6, <2>1, <4>1 DEF IInv, HeldInv, Alone
    <3> QED
      BY <1>1, <1>6, <2>1, <3>1 DEF HeldInv
  <2>2. CASE shell.pc = "COPY REST"
    BY <1>6, <2>2 DEF HeldInv
  <2> QED
    BY <1>1, <2>1, <2>2
<1>19. AgreeInv'
  BY <1>1, <1>2, <1>3, <1>6 DEF IInv, AgreeInv, Alone
<1>20. WriteInv'
  <2>1. shell.overtaken => live.mhz \in Validated
    BY <1>1 DEF IInv, WriteInv, Clocks
  <2>2. shell'.pc = "COPY REST" => Valid(shell'.body)
    <3> SUFFICES ASSUME shell'.pc = "COPY REST" PROVE Valid(shell'.body)
      OBVIOUS
    <3>1. shell.pc = "COPY" /\ shell'.body.mhz = web.mhz /\ shell'.body.poll = web.poll
      BY <1>6, FieldsAre DEF FirstFields
    <3> QED
      BY <3>1 DEF IInv, WriteInv, Valid
  <2>3. shell'.pc \in {"COPY REST", "ENCODE"} /\ shell'.overtaken = shell.overtaken
    BY <1>6
  <2> QED
    BY <1>2, <1>3, <2>1, <2>2, <2>3 DEF WriteInv
<1>21. ParityInv'
  <2>1. odd' <=> Copying'
    BY <1>4, <1>6 DEF Copying
  <2> QED
    BY <1>2, <2>1 DEF ParityInv
<1>22. SurviveInv'
  BY <1>1, <1>2, <1>3 DEF IInv, SurviveInv
<1> QED
  BY <1>2, <1>7, <1>8, <1>9, <1>13, <1>14, <1>15, <1>16, <1>17, <1>18, <1>19, <1>20, <1>21,
     <1>22 DEF IInv

(* Encoding, writing and clearing change none of the copies.               *)
LEMMA CopiesKept ==
  ASSUME IInv, ShellGoesOn, UNCHANGED <<web, runtime, raced>>,
         shell.pc \in {"ENCODE", "ENCODE REST", "WRITE", "CLEAR"},
         shell' = Idle \/ (IsShell(shell') /\ shell'.pc \in {"ENCODE REST", "WRITE", "CLEAR"}),
         UNCHANGED odd
  PROVE  /\ CopyInv' /\ PolicyInv' /\ WorkingInv' /\ RuntimeInv' /\ HandInv' /\ StoredInv'
         /\ ParityInv'
<1>1. live' = live /\ unshown' = unshown /\ ~Setting /\ ~Setting' /\ ~Publishing /\ ~Publishing'
  BY ShellGoes DEF ShellGoesOn
<1>2. shell'.pc \in {"IDLE", "ENCODE REST", "WRITE", "CLEAR"}
  <2>1. CASE shell' = Idle
    BY <2>1 DEF Idle
  <2> QED
    BY <2>1
<1>3. CopyInv' /\ WorkingInv' /\ RuntimeInv'
  BY <1>1 DEF IInv, CopyInv, WorkingInv, RuntimeInv, Excused, Newest
<1>4. PolicyInv' /\ HandInv' /\ StoredInv'
  BY <1>1, <1>2 DEF IInv, PolicyInv, HandInv, StoredInv
<1>5. ParityInv'
  BY <1>1, <1>2 DEF IInv, ParityInv, Copying
<1> QED
  BY <1>3, <1>4, <1>5

LEMMA ShellEncodesStep ==
  ASSUME IInv, ShellEncodes,
         UNCHANGED <<phase, storage, bridge, auto, done, shown, stuck, cuts>>
  PROVE  IInv'
<1>1. /\ ShellGoesOn /\ shell.pc \in {"ENCODE", "ENCODE REST"}
      /\ UNCHANGED <<odd, web, runtime, touched, raced, kept, flash, legacy, loaded, inherited>>
  BY DEF ShellEncodes, ShellGoesOn, Clocks
<1>2. /\ phase = "READY" /\ bridge.pc = "IDLE" /\ bridge'.pc = "IDLE" /\ storage /\ phase' = "READY"
      /\ storage' /\ IsShell(shell) /\ CountInv' /\ StartInv' /\ bridge' = Idle
      /\ ~Setting' /\ ~Saving'
  BY <1>1, ShellGoes
<1>3. IsOn(Saved(web), AllFields)
  <2>1. Saved(web) = SavedAs(shell.what, web)
    BY DEF Saved, SavedAs
  <2> QED
    BY <2>1, SavedIs DEF IInv, CopyInv
<1>4. \/ shell' = Idle /\ shell'.pc = "IDLE"
      \/ /\ shell.pc = "ENCODE" /\ Valid(Saved(web))
         /\ IsShell(shell') /\ shell'.pc = "ENCODE REST" /\ shell'.body = Saved(web)
         /\ shell'.what = shell.what /\ shell'.overtaken = shell.overtaken
      \/ /\ shell.pc = "ENCODE REST" /\ Valid(Saved(web))
         /\ IsShell(shell') /\ shell'.pc = "WRITE" /\ Valid(shell'.body)
         /\ shell'.what = shell.what /\ shell'.overtaken = shell.overtaken
         /\ ~shell.overtaken => shell'.body = Saved(web)
  <2>1. CASE shell.pc = "ENCODE" /\ ~Valid(Saved(web))
    BY <2>1 DEF ShellEncodes, Idle
  <2>2. CASE shell.pc = "ENCODE" /\ Valid(Saved(web))
    <3> DEFINE b == Saved(web)
    <3>1. shell' = [shell EXCEPT !.pc = "ENCODE REST", !.body = b]
      BY <2>2 DEF ShellEncodes
    <3>2. IsOn(b, AllFields)
      BY <1>3
    <3> HIDE DEF b
    <3>3. /\ shell' = [pc |-> shell'.pc, what |-> shell'.what, overtaken |-> shell'.overtaken,
                       at |-> shell'.at, body |-> shell'.body]
          /\ shell'.pc = "ENCODE REST" /\ shell'.what = shell.what
          /\ shell'.overtaken = shell.overtaken /\ shell'.body = b
      BY <1>2, <3>1 DEF IsShell
    <3>4. IsShell(shell')
      BY <1>2, <2>2, <3>2, <3>3 DEF IsShell, Places, Clocks, Holding
    <3> QED
      BY <2>2, <3>3, <3>4 DEF b
  <2>3. CASE shell.pc = "ENCODE REST"
    <3> DEFINE mixed == [f \in AllFields |->
                           IF f \in FirstFields THEN shell.body[f] ELSE Saved(web)[f]]
    <3>1. shell' = [shell EXCEPT !.pc = "WRITE", !.body = mixed]
      BY <2>3 DEF ShellEncodes
    <3>2. IsOn(mixed, AllFields)
      BY DEF IsOn
    <3>3. /\ mixed.mhz = Saved(web).mhz /\ mixed.poll = Saved(web).poll
          /\ shell.body = Saved(web) => mixed = Saved(web)
      <4>1. mixed.mhz = Saved(web).mhz /\ mixed.poll = Saved(web).poll
        BY FieldsAre DEF FirstFields
      <4>2. shell.body = Saved(web) => \A f \in AllFields : mixed[f] = Saved(web)[f]
        OBVIOUS
      <4> QED
        BY <1>3, <3>2, <4>1, <4>2, Same
    <3> HIDE DEF mixed
    <3>4. /\ shell' = [pc |-> shell'.pc, what |-> shell'.what, overtaken |-> shell'.overtaken,
                       at |-> shell'.at, body |-> shell'.body]
          /\ shell'.pc = "WRITE" /\ shell'.what = shell.what
          /\ shell'.overtaken = shell.overtaken /\ shell'.body = mixed
      BY <1>2, <3>1 DEF IsShell
    <3>6. IsShell(shell')
      BY <1>2, <2>3, <3>2, <3>4 DEF IsShell, Places, Clocks, Holding
    <3>5. Valid(Saved(web)) /\ (~shell.overtaken => shell.body = Saved(web))
      BY <2>3 DEF IInv, WriteInv, HeldInv, Alone
    <3> QED
      BY <2>3, <3>3, <3>4, <3>5, <3>6 DEF Valid
  <2> QED
    BY <1>1, <2>1, <2>2, <2>3
<1>5. ShapeInv'
  BY <1>1, <1>2, <1>4 DEF IInv, ShapeInv, ShellGoesOn
<1>6. StoreInv'
  <2>1. shell'.pc # "CLEAR" /\ storage' = storage
    BY <1>1, <1>4 DEF ShellGoesOn
  <2> QED
    BY <1>1, <1>2, <2>1 DEF IInv, StoreInv
<1>7. CopyInv' /\ PolicyInv' /\ WorkingInv' /\ RuntimeInv' /\ HandInv' /\ StoredInv' /\ ParityInv'
  BY <1>1, <1>4, CopiesKept
<1>8. live' = live /\ (shell'.what = shell.what => Saved(web)' = Saved(web))
  BY <1>1 DEF ShellGoesOn, Saved
<1>9. HeldInv'
  BY <1>4, <1>8 DEF HeldInv, Alone
<1>10. AgreeInv'
  BY <1>1, <1>2, <1>4, <1>8 DEF IInv, AgreeInv, Alone
<1>11. WriteInv'
  BY <1>1, <1>2, <1>4, <1>8 DEF IInv, WriteInv, Clocks
<1>12. SurviveInv'
  BY <1>1, <1>2, <1>8 DEF IInv, SurviveInv
<1> QED
  BY <1>2, <1>5, <1>6, <1>7, <1>9, <1>10, <1>11, <1>12 DEF IInv

LEMMA ShellWritesStep ==
  ASSUME IInv, NEW ok \in BOOLEAN, ShellWrites(ok),
         UNCHANGED <<phase, storage, bridge, auto, done, shown, stuck, cuts>>
  PROVE  IInv'
<1>1. /\ ShellGoesOn /\ shell.pc = "WRITE"
      /\ UNCHANGED <<odd, web, runtime, raced, legacy, inherited>>
  BY DEF ShellWrites, ShellGoesOn, Clocks
<1>2. /\ phase = "READY" /\ bridge.pc = "IDLE" /\ bridge'.pc = "IDLE" /\ storage /\ phase' = "READY"
      /\ storage' /\ IsShell(shell) /\ CountInv' /\ StartInv' /\ bridge' = Idle
      /\ ~Setting' /\ ~Saving'
  BY <1>1, ShellGoes
<1>3. IF ok
      THEN /\ flash' = Encoded(shell.body) /\ loaded' = TRUE
           /\ kept' = Norm(IF shell.overtaken THEN shell.body ELSE Saved(Acting(web)))
           /\ touched' = (shell.overtaken \/ shell.what = "RELEASE")
      ELSE UNCHANGED <<flash, loaded, kept, touched>>
  BY DEF ShellWrites
<1>4. \/ shell' = Idle /\ shell'.pc = "IDLE"
      \/ /\ ok /\ IsShell(shell') /\ shell'.pc = "CLEAR" /\ shell'.overtaken = shell.overtaken
  <2>1. \/ shell' = Idle
        \/ ok /\ shell' = [shell EXCEPT !.pc = "CLEAR"]
    BY DEF ShellWrites
  <2>2. CASE shell' = Idle
    BY <2>2 DEF Idle
  <2>3. CASE ok /\ shell' = [shell EXCEPT !.pc = "CLEAR"]
    <3>1. /\ shell' = [pc |-> shell'.pc, what |-> shell'.what, overtaken |-> shell'.overtaken,
                       at |-> shell'.at, body |-> shell'.body]
          /\ shell'.pc = "CLEAR" /\ shell'.what = shell.what
          /\ shell'.overtaken = shell.overtaken /\ shell'.body = shell.body
      BY <1>2, <2>3 DEF IsShell
    <3>2. IsOn(shell.body, DOMAIN shell.body)
      BY <1>1, <1>2 DEF IsShell, Holding, IsOn
    <3>3. IsShell(shell')
      BY <1>1, <1>2, <3>1, <3>2 DEF IsShell, Places, Clocks, Holding
    <3> QED
      BY <2>3, <3>1, <3>3
  <2> QED
    BY <2>1, <2>2, <2>3
<1>5. /\ Acting(web) = ActingOf(web.idle, live) /\ IsOn(web, AllFields)
      /\ IsOn(shell.body, AllFields) /\ Valid(shell.body)
  <2>1. Valid(shell.body)
    BY <1>1 DEF IInv, WriteInv
  <2>2. IsOn(shell.body, AllFields)
    BY <1>1, <1>2 DEF IsShell, Holding
  <2> QED
    BY <2>1, <2>2 DEF Acting, ActingOf, IInv, CopyInv
<1>6. ~shell.overtaken => Norm(shell.body) = Norm(Saved(Acting(web)))
  <2> SUFFICES ASSUME ~shell.overtaken PROVE Norm(shell.body) = Norm(Saved(Acting(web)))
    OBVIOUS
  <2>1. shell.body = Saved(web) /\ Agree(web, live)
    BY <1>1 DEF IInv, HeldInv, AgreeInv, Alone
  <2>2. Norm(web) = Norm(Acting(web))
    BY <1>5, <2>1, NormAgreeing
  <2>3. CASE shell.what = "ALL"
    BY <2>1, <2>2, <2>3 DEF Saved
  <2>4. CASE shell.what # "ALL"
    <3>1. Saved(web) = WithPolicy(web, Defaults) /\ Saved(Acting(web)) = WithPolicy(Acting(web), Defaults)
      BY <2>4 DEF Saved
    <3>2. \A f \in AllFields : f \notin Policy => web[f] = Acting(web)[f]
      <4> SUFFICES ASSUME NEW f \in AllFields, f \notin Policy PROVE web[f] = Acting(web)[f]
        OBVIOUS
      <4>1. f # "mhz" /\ (f # "idle" => f \in Owned)
        BY FieldsAre DEF Policy
      <4> QED
        BY <2>1, <4>1 DEF Acting, Agree
    <3>3. WithPolicy(web, Defaults) = WithPolicy(Acting(web), Defaults)
      BY <3>2 DEF WithPolicy
    <3> QED
      BY <2>1, <3>1, <3>3
  <2> QED
    BY <2>3, <2>4
<1>7. ShapeInv'
  <2>1. touched' \in BOOLEAN
    BY <1>2, <1>3 DEF IInv, ShapeInv, IsShell
  <2>2. loaded' \in BOOLEAN
    BY <1>3 DEF IInv, ShapeInv
  <2> QED
    BY <1>1, <1>2, <1>4, <2>1, <2>2 DEF IInv, ShapeInv, ShellGoesOn
<1>8. StoreInv'
  <2>1. CASE ok
    <3>1. IsRecord(flash') /\ Readable(flash') /\ Restored(flash', legacy) = Norm(shell.body)
      BY <1>3, <1>5, <2>1, EncodedIs
    <3>2. kept' = Norm(shell.body)
      BY <1>3, <1>6, <2>1
    <3> QED
      BY <1>1, <1>2, <1>3, <2>1, <3>1, <3>2 DEF IInv, StoreInv
  <2>2. CASE ~ok
    <3>1. UNCHANGED <<flash, loaded, kept, legacy>> /\ shell'.pc = "IDLE" /\ storage' = storage
      BY <1>1, <1>3, <1>4, <2>2 DEF ShellGoesOn
    <3> QED
      BY <1>2, <3>1 DEF IInv, StoreInv
  <2> QED
    BY <2>1, <2>2
<1>9. CopyInv' /\ PolicyInv' /\ WorkingInv' /\ RuntimeInv' /\ HandInv' /\ StoredInv' /\ ParityInv'
  BY <1>1, <1>4, CopiesKept
<1>10. HeldInv' /\ AgreeInv'
  BY <1>2, <1>4 DEF HeldInv, AgreeInv
<1>11. live' = live /\ (shell.overtaken => live.mhz \in Validated)
  BY <1>1 DEF ShellGoesOn, IInv, WriteInv, Clocks
<1>12. WriteInv'
  BY <1>2, <1>4, <1>11 DEF WriteInv
<1>13. SurviveInv'
  <2>1. CASE ok
    <3> SUFFICES ASSUME ~touched' PROVE Norm(ActingOf(web.idle, live))' = kept'
      BY DEF SurviveInv
    <3>1. ~shell.overtaken /\ shell.what = "ALL"
      BY <1>1, <1>2, <1>3, <2>1 DEF IsShell, Clocks
    <3>2. kept' = Norm(Acting(web))
      BY <1>3, <2>1, <3>1 DEF Saved
    <3> QED
      BY <1>1, <1>5, <1>11, <3>2
  <2>2. CASE ~ok
    BY <1>1, <1>2, <1>3, <1>11, <2>2 DEF IInv, SurviveInv
  <2> QED
    BY <2>1, <2>2
<1> QED
  BY <1>2, <1>7, <1>8, <1>9, <1>10, <1>12, <1>13 DEF IInv

LEMMA ShellClearsStep ==
  ASSUME IInv, NEW ok \in BOOLEAN, ShellClears(ok),
         UNCHANGED <<phase, storage, bridge, auto, done, shown, stuck, cuts>>
  PROVE  IInv'
<1>1. /\ ShellGoesOn /\ shell.pc = "CLEAR" /\ shell' = Idle /\ shell'.pc = "IDLE"
      /\ UNCHANGED <<odd, web, runtime, raced, touched, flash, loaded, kept>>
      /\ \/ legacy' = NoLegacy /\ inherited' = FALSE
         \/ UNCHANGED <<legacy, inherited>>
  BY DEF ShellClears, ShellGoesOn, Idle, Clocks
<1>2. /\ phase = "READY" /\ bridge.pc = "IDLE" /\ bridge'.pc = "IDLE" /\ storage /\ phase' = "READY"
      /\ storage' /\ IsShell(shell) /\ CountInv' /\ StartInv' /\ bridge' = Idle
      /\ ~Setting' /\ ~Saving'
  BY <1>1, ShellGoes
<1>3. Readable(flash) /\ loaded
  BY <1>1 DEF IInv, StoreInv
<1>4. ShapeInv'
  <2>1. inherited' \in BOOLEAN
    BY <1>1 DEF IInv, ShapeInv
  <2> QED
    BY <1>1, <1>2, <2>1 DEF IInv, ShapeInv, ShellGoesOn
<1>5. StoreInv'
  BY <1>1, <1>2, <1>3 DEF IInv, StoreInv, Restored
<1>6. CopyInv' /\ PolicyInv' /\ WorkingInv' /\ RuntimeInv' /\ HandInv' /\ StoredInv' /\ ParityInv'
  BY <1>1, CopiesKept
<1>7. HeldInv' /\ AgreeInv' /\ WriteInv'
  BY <1>1, <1>2 DEF HeldInv, AgreeInv, WriteInv, Alone
<1>8. SurviveInv'
  <2>1. UNCHANGED <<kept, touched, storage, web, live>>
    BY <1>1 DEF ShellGoesOn
  <2> QED
    BY <1>2, <2>1 DEF IInv, SurviveInv
<1> QED
  BY <1>2, <1>4, <1>5, <1>6, <1>7, <1>8 DEF IInv

-----------------------------------------------------------------------------
(* The readers                                                             *)

(* What no reader changes.                                                 *)
Settings == <<flash, legacy, phase, storage, web, runtime, odd, loaded, inherited, live,
              bridge, shell, done, kept, touched, unshown, raced, calls>>

LEMMA SettingsKept ==
  ASSUME IInv, UNCHANGED Settings
  PROVE  /\ StoreInv' /\ StartInv' /\ CopyInv' /\ PolicyInv' /\ WorkingInv' /\ RuntimeInv'
         /\ HandInv' /\ StoredInv' /\ HeldInv' /\ AgreeInv' /\ WriteInv' /\ ParityInv'
         /\ SurviveInv'
<1> USE DEF Settings, IInv
<1>1. StoreInv' /\ StartInv'
  BY DEF StoreInv, StartInv
<1>2. CopyInv' /\ PolicyInv' /\ WorkingInv' /\ RuntimeInv'
  BY DEF CopyInv, PolicyInv, WorkingInv, RuntimeInv, Setting, Excused, Newest
<1>3. HandInv' /\ StoredInv' /\ HeldInv'
  BY DEF HandInv, StoredInv, HeldInv, Setting, Excused, Newest, InHand, Alone, Todo, Saved
<1>4. AgreeInv'
  BY DEF AgreeInv, Setting, Saving, Alone
<1>5. WriteInv'
  BY DEF WriteInv, Setting, Saved, InHand
<1>6. ParityInv'
  BY DEF ParityInv, Publishing, Setting, Saving, Copying
<1>7. SurviveInv'
  BY DEF SurviveInv
<1> QED
  BY <1>1, <1>2, <1>3, <1>4, <1>5, <1>6, <1>7

LEMMA AutoTurnStep ==
  ASSUME IInv, AutoTurn PROVE IInv'
<1>1. UNCHANGED Settings /\ UNCHANGED stuck /\ phase = "READY" /\ bridge.pc = "IDLE"
  BY DEF AutoTurn, AutoRuns, Running, Settings, Idle
<1>2. IsAuto(auto) /\ done.seq \in Nat /\ auto.seq \in Nat /\ shown.seq \in Nat
      /\ auto.seq <= done.seq /\ shown.seq <= done.seq
  BY DEF IInv, ShapeInv, CountInv
<1>3. /\ IsAuto(auto') /\ auto'.pc \in {"ASLEEP", "SPIN", "RESULT", "SEQUENCE", "SHOW"}
      /\ auto'.seq \in Nat /\ auto'.seq <= done.seq
      /\ shown'.seq \in Nat /\ shown'.seq <= done.seq
  <2>1. CASE /\ auto' = [auto EXCEPT !.pc = IF odd THEN "SPIN" ELSE "RESULT"]
             /\ UNCHANGED shown
    BY <1>2, <2>1 DEF IsAuto
  <2>2. CASE auto' = [auto EXCEPT !.pc = "SEQUENCE", !.ok = done.ok] /\ UNCHANGED shown
    BY <1>2, <2>2 DEF IsAuto
  <2>3. CASE auto' = [auto EXCEPT !.pc = "SHOW", !.seq = done.seq] /\ UNCHANGED shown
    <3>1. auto' = [pc |-> "SHOW", ok |-> auto.ok, seq |-> done.seq]
      BY <1>2, <2>3 DEF IsAuto
    <3>2. auto'.pc = "SHOW" /\ auto'.ok = auto.ok /\ auto'.seq = done.seq
      BY <3>1
    <3>3. IsAuto(auto')
      BY ONLY <3>1, <3>2 DEF IsAuto
    <3> QED
      BY ONLY <1>2, <2>3, <3>2, <3>3
  <2>4. CASE shown' = Shows /\ auto' = Asleep
    BY <1>2, <2>4 DEF IsAuto, Asleep, Shows
  <2> QED
    BY <2>1, <2>2, <2>3, <2>4 DEF AutoTurn
<1>4. ShapeInv'
  BY <1>1, <1>3 DEF IInv, ShapeInv, Settings
<1>5. CountInv'
  BY <1>1, <1>3 DEF IInv, CountInv, Settings
<1> QED
  BY <1>1, <1>4, <1>5, SettingsKept DEF IInv

LEMMA HostReadsStep ==
  ASSUME IInv, HostReads PROVE IInv'
<1>1. UNCHANGED Settings /\ UNCHANGED <<auto, shown>> /\ stuck' = TRUE
  BY DEF HostReads, Settings
<1>2. ShapeInv' /\ CountInv'
  BY <1>1 DEF IInv, ShapeInv, CountInv, Settings
<1> QED
  BY <1>1, <1>2, SettingsKept DEF IInv

-----------------------------------------------------------------------------
(* Any step                                                                *)

LEMMA NextStep == ASSUME IInv, [Next]_vars PROVE IInv'
<1>1. CASE PowerOn
  BY <1>1, PowerOnStep
<1>2. CASE BluetoothReady
  BY <1>2, BluetoothReadyStep
<1>3. CASE Migrate
  BY <1>3, MigrateStep
<1>4. CASE PowerCut
  BY <1>4, PowerCutStep
<1>5. CASE \E c \in Requests : Apply(c)
  BY <1>5, ApplyStep
<1>6. CASE Save
  BY <1>6, SaveStep
<1>7. CASE HostCommandEnds
  <2>1. UNCHANGED <<legacy, phase, storage, web, inherited, live, shell, auto, shown,
                    stuck, unshown, calls, cuts>>
    BY <1>7 DEF HostCommandEnds
  <2>2. CASE ApplyEnds /\ UNCHANGED <<flash, loaded, kept, touched, raced, failures>>
    BY <2>1, <2>2, ApplyEndsStep
  <2>3. CASE \E ok \in BOOLEAN : SaveEnds(ok)
    BY <2>1, <2>3, SaveEndsStep
  <2> QED
    BY <1>7, <2>2, <2>3 DEF HostCommandEnds
<1>8. CASE ShellSets
  BY <1>8, ShellSetsStep
<1>9. CASE ShellSaves
  <2>1. UNCHANGED <<phase, storage, bridge, auto, done, shown, stuck, cuts>>
    BY <1>9 DEF ShellSaves
  <2>2. CASE ShellSave
    BY <2>1, <2>2, ShellSaveStep
  <2>3. CASE ShellRefreshes
    BY <2>1, <2>3, ShellRefreshesStep
  <2>6. CASE ShellCopies
    BY <2>1, <2>6, ShellCopiesStep
  <2>4. CASE ShellEncodes
    BY <2>1, <2>4, ShellEncodesStep
  <2>5. CASE \E ok \in BOOLEAN : ShellWrites(ok) \/ ShellClears(ok)
    BY <2>1, <2>5, ShellWritesStep, ShellClearsStep
  <2> QED
    BY <1>9, <2>2, <2>3, <2>4, <2>5, <2>6 DEF ShellSaves
<1>10. CASE AutoTurn
  BY <1>10, AutoTurnStep
<1>11. CASE HostReads
  BY <1>11, HostReadsStep
<1>12. CASE UNCHANGED vars
  <2>1. UNCHANGED Settings /\ UNCHANGED <<auto, shown, stuck>>
    BY <1>12 DEF vars, Settings
  <2>2. ShapeInv' /\ CountInv'
    BY <2>1 DEF IInv, ShapeInv, CountInv, Settings
  <2> QED
    BY <2>1, <2>2, SettingsKept DEF IInv
<1> QED
  BY <1>1, <1>2, <1>3, <1>4, <1>5, <1>6, <1>7, <1>8, <1>9, <1>10, <1>11, <1>12 DEF Next

(* The settings are kept in agreement, whoever interrupts whom.            *)
THEOREM SettingsInvariant == Spec => []IInv
<1>1. Init => IInv
  BY InitIInv
<1>2. IInv /\ [Next]_vars => IInv'
  BY NextStep
<1> QED
  BY <1>1, <1>2, PTL DEF Spec

(* The settings and their copies are well typed, the copy of the readers   *)
(* is valid, and its counter is odd only while somebody writes.            *)
LEMMA TypeOKHolds == IInv => TypeOK
<1> SUFFICES ASSUME IInv PROVE TypeOK
  OBVIOUS
<1>1. flash \in {NoRecord} \/ Fields(flash.version) = DOMAIN flash.body
  BY DEF IInv, StoreInv, IsRecord, IsOn
<1>2. legacy = NoLegacy \/ DOMAIN legacy = Policy
  BY DEF IInv, StoreInv, IsOn
<1>3. DOMAIN web = AllFields /\ DOMAIN runtime = AllFields /\ DOMAIN live = Owned /\ Valid(runtime)
  BY DEF IInv, CopyInv, IsOn
<1>4. DOMAIN kept = AllFields
  <2>1. IsOn(kept, AllFields)
    <3>1. CASE Readable(flash)
      <4>1. IsRecord(flash)
        BY <3>1 DEF IInv, StoreInv, Readable
      <4> QED
        BY <3>1, <4>1, DecodedIs, NormIs DEF IInv, StoreInv, Restored
    <3>2. CASE ~Readable(flash)
      BY <3>2, WithPolicyIs, DefaultsAre DEF IInv, StoreInv, Restored
    <3> QED
      BY <3>1, <3>2
  <2> QED
    BY <2>1 DEF IsOn
<1>5. odd => shell.pc \in {"COPY", "COPY REST"} \/ bridge # Idle
  <2>1. bridge = Idle => ~Publishing
    BY DEF Publishing, Setting, Saving, Idle
  <2> QED
    BY <2>1 DEF IInv, ParityInv, Copying
<1>6. done.seq \in 0 .. MaxCalls /\ shown.seq <= done.seq
  BY SettingsAssumption DEF IInv, CountInv
<1> QED
  BY <1>1, <1>2, <1>3, <1>4, <1>5, <1>6 DEF TypeOK, IInv, ShapeInv

(* The types hold for all configurations, records and bounds.              *)
THEOREM TypeCorrect == Spec => []TypeOK
BY SettingsInvariant, TypeOKHolds, PTL

(* When nobody writes, the host is answered the settings that act, but for *)
(* what it applied while the shell held older settings, and for a          *)
(* reconnection that the shell switched.                                   *)
LEMMA TruthfulAnswerHolds == IInv => TruthfulAnswer
<1> SUFFICES ASSUME IInv, bridge = Idle, shell.pc # "MHZ", Answer # NoRecord,
                    NEW f \in AllFields, f \notin raced, ~(f = "auto" /\ unshown)
             PROVE  Answer[f] = InForce[f]
  BY DEF TruthfulAnswer
<1> DEFINE c == [g \in AllFields |->
                  IF g = "mic" \/ g \in {"governor", "profile"}
                      \/ (g = "mhz" /\ live.profile \notin DOMAIN Profiles)
                  THEN live[g] ELSE runtime[g]]
<1>1. Answer = Norm(c)
  BY DEF Answer
<1>2. ~Setting
  BY DEF Setting, Idle
<1>3. InForce.idle = runtime.idle /\ \A g \in Owned : InForce[g] = live[g]
  BY FieldsAre DEF InForce, Acting
<1>4. /\ c.mic = live.mic /\ c.governor = live.governor /\ c.profile = live.profile
      /\ \A g \in Answered : c[g] = runtime[g]
      /\ live.profile \notin DOMAIN Profiles => c.mhz = live.mhz
  BY FieldsAre DEF Answered
<1>5. IsOn(c, AllFields)
  BY DEF IsOn
<1> HIDE DEF c
<1>6. CASE f = "mhz"
  <2>1. Normal(live)
    BY <1>6 DEF IInv, PolicyInv
  <2>2. Norm(c).mhz = live.mhz
    BY <1>4, <1>5, <2>1, NormIs DEF Normal
  <2> QED
    BY <1>1, <1>3, <1>6, <2>2, FieldsAre
<1>7. CASE f # "mhz"
  <2>1. Norm(c)[f] = c[f]
    BY <1>5, <1>7, NormIs
  <2>2. CASE f \in Answered
    <3>1. runtime[f] = Newest(f)
      BY <1>2, <2>2 DEF IInv, RuntimeInv, Excused
    <3>2. CASE f = "idle"
      BY <1>1, <1>3, <1>4, <2>1, <2>2, <3>2
    <3>3. CASE f # "idle"
      <4>1. f \in Owned
        BY <3>3 DEF Owned
      <4> QED
        BY <1>1, <1>3, <1>4, <2>1, <2>2, <3>1, <3>3, <4>1 DEF Newest
    <3> QED
      BY <3>2, <3>3
  <2>3. CASE f \notin Answered
    <3>1. f \in {"mic", "governor", "profile"}
      BY <1>7, <2>3, FieldsAre DEF Answered
    <3> QED
      BY <1>1, <1>3, <1>4, <2>1, <3>1, FieldsAre
  <2> QED
    BY <2>2, <2>3
<1> QED
  BY <1>6, <1>7

(* A reader never sees settings that are not valid or only half written,   *)
(* nor the counter odd when nobody writes, and what the host is answered   *)
(* is what acts: for all configurations, and however the commands of the   *)
(* host come between the steps of the shell.                               *)
THEOREM ReadersConsistent == Spec => []Consistent
<1>1. IInv => Consistent
  BY TypeOKHolds, TruthfulAnswerHolds DEF Consistent
<1> QED
  BY <1>1, SettingsInvariant, PTL

(* What acts is what the records mean, until somebody changes it.          *)
LEMMA SettingsSurviveHolds == IInv => SettingsSurvive
<1> SUFFICES ASSUME IInv, phase = "READY", storage, ~touched, shell.pc # "MHZ",
                    NEW f \in AllFields, f \notin raced
             PROVE  InForce[f] = kept[f]
  BY DEF SettingsSurvive
<1> DEFINE a == ActingOf(web.idle, live)
<1>1. Norm(a) = kept
  BY DEF IInv, SurviveInv
<1>2. ~Setting
  BY DEF IInv, WriteInv
<1>3. IsOn(a, AllFields) /\ a.idle = web.idle /\ \A g \in Owned : a[g] = live[g]
  BY FieldsAre DEF ActingOf, IsOn
<1>4. InForce.idle = runtime.idle /\ \A g \in Owned : InForce[g] = live[g]
  BY FieldsAre DEF InForce, Acting
<1> HIDE DEF a
<1>5. CASE f = "mhz"
  <2>1. Normal(live)
    BY <1>5 DEF IInv, PolicyInv
  <2>2. a.profile = live.profile /\ a.mhz = live.mhz
    BY <1>3, FieldsAre
  <2>3. Normal(a)
    BY <2>1, <2>2 DEF Normal
  <2> QED
    BY <1>1, <1>3, <1>4, <1>5, <2>3, NormIs, FieldsAre
<1>6. CASE f = "idle"
  <2>1. runtime.idle = web.idle
    BY <1>2, <1>6 DEF IInv, RuntimeInv, Answered, Excused, Newest
  <2> QED
    BY <1>1, <1>3, <1>4, <1>6, <2>1, NormIs
<1>7. CASE f \notin {"mhz", "idle"}
  <2>1. f \in Owned
    BY <1>7 DEF Owned
  <2> QED
    BY <1>1, <1>3, <1>4, <1>7, <2>1, NormIs
<1> QED
  BY <1>5, <1>6, <1>7

(* After any start with a usable flash what acts is what was saved last,   *)
(* by whichever firmware, until somebody changes it.                       *)
THEOREM SettingsKeptAlive == Spec => []SettingsSurvive
BY SettingsInvariant, SettingsSurviveHolds, PTL
=============================================================================
