------------------------- MODULE MCSafetySupervisor -------------------------
(* Model values and small sets for the run of SafetySupervisor. *)
EXTENDS SafetySupervisor, TLC

CONSTANTS w1, w2, camera, drone

TwoWorkers == {w1, w2}
TwoUnits == {camera, drone}
OnlyDrone == {drone}

Action(hard, speed, target) ==
    [dict |-> TRUE, finite |-> TRUE, hard |-> hard, speed |-> speed, accel |-> 0, target |-> target]
Lockdown == Action(TRUE, 0, <<>>)
TooFast == Action(FALSE, 9, <<>>)
Level == Action(FALSE, 0, <<1>>)
Text == [Lockdown EXCEPT !.dict = FALSE]
NoSpeed == Action(FALSE, NotNumber, <<>>)
NoAltitude == Action(FALSE, 0, <<1, NotNumber>>)
SixActions == {Lockdown, TooFast, Level, Text, NoSpeed, NoAltitude}

Motion1 == "pir_motion" :> TRUE
Quiet == "pir_motion" :> FALSE
BatteryLow == "battery" :> 1
BatteryUnknown == "battery" :> NotNumber
SensorReports == {Motion1, Quiet @@ BatteryLow, BatteryUnknown}
KinematicsReports == {"x" :> 1 @@ "z" :> 1, "z" :> Nan}
=============================================================================
