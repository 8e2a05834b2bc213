--------------------------- MODULE SimplexArbiter ---------------------------
(***************************************************************************)
(* The envelope checks and the fallbacks of ai/simplex.py, as functions of *)
(* an action and of the values the arbiter read from the state dict of a   *)
(* unit.  pir_motion and tripwire_broken stand for the four triggers of    *)
(* the security interlock, motor_temp for both temperatures, x for both    *)
(* horizontal coordinates.  Speed and acceleration are their magnitudes.   *)
(***************************************************************************)
EXTENDS Integers, Sequences

CONSTANTS Nan,            \* float("nan"): every comparison with it is false
          NotNumber,      \* None or a string: comparing it raises
          MaxVelocity, MaxAccel, MinX, MaxX, MaxZ, MinClearance,
          MaxMotorTemp, MinBattery,
          RtbAltitude     \* the 15.0 of the return to base

Outlier == {Nan, NotNumber}

(* SafetyEnvelope takes any bounds, consistent or not. *)
ASSUME EnvelopeAssumption ==
    /\ {MaxVelocity, MaxAccel, MinX, MaxX, MaxZ, MinClearance,
        MaxMotorTemp, MinBattery, RtbAltitude} \subseteq Int
    /\ Outlier \cap Int = {} /\ Nan # NotNumber

Triggers == {"pir_motion", "tripwire_broken"}
Keys == Triggers \cup {"battery", "motor_temp", "x", "z"}

(* current_state.get(key, default) *)
Default == [pir_motion |-> FALSE, tripwire_broken |-> FALSE,
            battery |-> 100, motor_temp |-> 25, x |-> 0, z |-> 10]

Get(state, key) == IF key \in DOMAIN state THEN state[key] ELSE Default[key]

Below(value, bound) == value # Nan /\ value < bound
Above(value, bound) == value # Nan /\ value > bound

(* An action: dict and finite say whether it is a dict and whether its     *)
(* numbers are; hard whether its command drives a physical actuator;       *)
(* target is empty, <<x>> or <<x, z>>.  speed, accel and the elements of   *)
(* target are integers or NotNumber.                                       *)
NumericalSanity(action) ==
    CASE ~action.dict -> "INVALID_COMMAND"
      [] action.dict /\ ~action.finite -> "AI_EXCEPTION_OR_NAN"
      [] OTHER -> "NONE"

(* Mutant of Reads: require_dual_sensor_corroboration is off. *)
ReadsUncorroborated(action) ==
    <<"battery", "motor_temp">> \o (IF Len(action.target) = 1 THEN <<"z">> ELSE <<>>)

(* The keys that a check reads, in the order in which evaluate reads them. *)
Reads(action) ==
    (IF action.hard THEN <<"pir_motion", "tripwire_broken">> ELSE <<>>)
    \o <<"battery", "motor_temp">>
    \o (IF Len(action.target) = 1 THEN <<"z">> ELSE <<>>)

SecurityInterlock(action, seen) ==
    /\ action.hard
    /\ Triggers \subseteq DOMAIN seen
    /\ \A trigger \in Triggers : ~seen[trigger]

HardwareHealth(seen) ==
    CASE "battery" \in DOMAIN seen /\ Below(seen["battery"], MinBattery) -> "CRITICAL_BATTERY"
      [] "motor_temp" \in DOMAIN seen /\ Above(seen["motor_temp"], MaxMotorTemp) -> "THERMAL_OVERHEAT"
      [] OTHER -> "NONE"

Altitude(action, seen) == IF Len(action.target) = 2 THEN action.target[2] ELSE seen["z"]

Motion(action) ==
    CASE action.speed > MaxVelocity -> "EXCESSIVE_VELOCITY"
      [] action.speed <= MaxVelocity /\ action.accel > MaxAccel -> "EXCESSIVE_ACCELERATION"
      [] OTHER -> IF action.target # <<>> /\ action.target[1] \notin MinX..MaxX
                  THEN "GEOFENCE_BREACH" ELSE "NONE"

(* min_z and max_yaw_rate_dps are in the envelope; no check reads them. *)
Kinematics(action, seen) ==
    CASE Motion(action) # "NONE" -> Motion(action)
      [] Motion(action) = "NONE" /\ action.target = <<>> -> "NONE"
      [] OTHER -> IF Below(Altitude(action, seen), MinClearance) THEN "INSUFFICIENT_CLEARANCE"
                  ELSE IF Above(Altitude(action, seen), MaxZ) THEN "GEOFENCE_BREACH" ELSE "NONE"

(* What the values read so far decide; NONE asks for the next value. *)
Verdict(action, seen) ==
    CASE SecurityInterlock(action, seen) -> "UNVERIFIED_SECURITY_ACTION"
      [] ~SecurityInterlock(action, seen) /\ HardwareHealth(seen) # "NONE" -> HardwareHealth(seen)
      [] OTHER -> IF DOMAIN seen = {Reads(action)[i] : i \in DOMAIN Reads(action)}
                  THEN Kinematics(action, seen) ELSE "NONE"

(* Comparing a value that is no number raises out of the handler: of the   *)
(* action, up to where Motion decides, *)
MotionRaises(action) ==
    \/ action.speed = NotNumber
    \/ /\ action.speed # NotNumber /\ action.speed <= MaxVelocity
       /\ \/ action.accel = NotNumber
          \/ /\ action.accel # NotNumber /\ action.accel <= MaxAccel
             /\ action.target # <<>> /\ action.target[1] = NotNumber

(* or of the state. *)
Raises(action, seen) ==
    \/ \E key \in {"battery", "motor_temp"} \cap DOMAIN seen : seen[key] = NotNumber
    \/ /\ DOMAIN seen = {Reads(action)[i] : i \in DOMAIN Reads(action)}
       /\ NotNumber \notin {seen["battery"], seen["motor_temp"]} /\ HardwareHealth(seen) = "NONE"
       /\ \/ MotionRaises(action)
          \/ /\ ~MotionRaises(action) /\ Motion(action) = "NONE"
             /\ action.target # <<>> /\ Altitude(action, seen) = NotNumber

AtLeast(value, bound) == IF Below(value, bound) THEN bound ELSE value

(* _generate_fallback; hold actuators has no target. *)
Grave == {"CRITICAL_BATTERY", "THERMAL_OVERHEAT"}

FallbackReads(reason) ==
    IF reason = "UNVERIFIED_SECURITY_ACTION" THEN <<>>
    ELSE IF reason \in Grave THEN <<"z">> ELSE <<"x", "z">>

(* Mutant of Fallback: hover takes the altitude as it is. *)
FallbackAsItIs(reason, seen) ==
    CASE reason = "UNVERIFIED_SECURITY_ACTION" -> <<>>
      [] reason \in Grave -> <<0, AtLeast(seen["z"], RtbAltitude)>>
      [] OTHER -> <<seen["x"], seen["z"]>>

Fallback(reason, seen) ==
    CASE reason = "UNVERIFIED_SECURITY_ACTION" -> <<>>
      [] reason \in Grave -> <<0, AtLeast(seen["z"], RtbAltitude)>>
      [] OTHER -> <<seen["x"], AtLeast(seen["z"], MinClearance)>>

Manoeuvre(target) ==
    [dict |-> TRUE, finite |-> TRUE, hard |-> FALSE, speed |-> 0, accel |-> 0, target |-> target]
=============================================================================
