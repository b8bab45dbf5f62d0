---------------------------- MODULE MCWebConfig -----------------------------
(* WebConfig with records of old versions, and configurations that differ *)
(* in every field.                                                         *)
EXTENDS WebConfig

Mine ==
    [f \in AllFields |->
        CASE f = "mic" -> TRUE [] f = "auto" -> FALSE
          [] f = "governor" -> "REALTIME" [] f = "profile" -> "CUSTOM" [] f = "mhz" -> 384
          [] f = "idle" -> 15 [] f = "dead" -> 8 [] f = "poll" -> "500 HZ" [] f = "led" -> 35]
Other ==
    [Mine EXCEPT !.auto = TRUE, !.profile = "PERFORMANCE", !.mhz = 400, !.idle = 30,
                 !.dead = 4, !.poll = "250 HZ", !.led = 20]
Retired == [f \in Fields(4) |-> IF f = "poll" THEN "1000 HZ" ELSE Mine[f]]
Old(version) ==
    [version |-> version, sound |-> TRUE,
     body |-> IF version = 4 THEN Retired ELSE [f \in Fields(version) |-> Mine[f]]]

MCRequests == {Other}
MCRecords == {[Old(5) EXCEPT !.sound = FALSE]} \cup {Old(1), Old(4)}
MCLegacies == {NoLegacy, [governor |-> "REALTIME", profile |-> "PERFORMANCE", mhz |-> 400]}
MCShellings == {<<"ECO", 320>>, <<"CUSTOM", 480>>}
=============================================================================
