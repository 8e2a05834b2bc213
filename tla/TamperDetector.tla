--------------------------- MODULE TamperDetector ---------------------------
(***************************************************************************)
(* TamperDetector.evaluate_cctv of ai/anomaly.py as a function of one      *)
(* camera's frame statistics: the reports it makes of them, and how severe *)
(* they are.  A statistic is a whole number or NotGiven; the code compares *)
(* floats in the same way.                                                 *)
(***************************************************************************)
EXTENDS Integers

CONSTANTS NotGiven,              \* a statistic that is missing from the payload
          DarkBelow,             \* occlusion_luminance_threshold
          BlurredBelow,          \* spray_blur_laplacian_threshold
          TiltedAbove,           \* angle_shift_threshold_deg
          ShakenAbove,           \* mount_jerk_threshold_mps2
          FlatBelow              \* ir_failure_expected_contrast

ASSUME TamperAssumption ==
    /\ {DarkBelow, BlurredBelow, TiltedAbove, ShakenAbove, FlatBelow} \subseteq Int
    /\ NotGiven \notin Int

Below(x, limit)   == x # NotGiven /\ x < limit
Outside(x, limit) == x # NotGiven /\ (x > limit \/ x < -limit)

Rank == [medium |-> 6, high |-> 7, critical |-> 8]

Report(type, severity) == [type |-> type, severity |-> severity]

OpticalOcclusion(s) == Below(s.luminance, DarkBelow)
SprayPaint(s) == /\ s.luminance # NotGiven /\ s.luminance >= DarkBelow
                 /\ Below(s.laplacian, BlurredBelow)
AngleShift(s) == Outside(s.tilt, TiltedAbove) \/ Outside(s.jerk, ShakenAbove)
IrFailure(s)  == s.irActive /\ Below(s.contrast, FlatBelow)

EvaluateCctv(s) ==
    {r \in {Report("optical_occlusion", "high"), Report("spray_paint", "critical"),
            Report("angle_shift", "high"), Report("ir_failure", "medium")} :
        \/ r.type = "optical_occlusion" /\ OpticalOcclusion(s)
        \/ r.type = "spray_paint" /\ SprayPaint(s)
        \/ r.type = "angle_shift" /\ AngleShift(s)
        \/ r.type = "ir_failure" /\ IrFailure(s)}

(* on_cctv_diagnostics: the worst report decides whether a vote is called. *)
CallsVote(s) == \E r \in EvaluateCctv(s) : Rank[r.severity] >= Rank["high"]
=============================================================================
