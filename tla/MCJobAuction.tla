---------------------------- MODULE MCJobAuction ----------------------------
EXTENDS JobAuction

CONSTANTS host, drone, t1, t2, t3

TwoNodes == {host, drone}
OnlyHost == {host}
OnlyDrone == {drone}
HostHasTwo == [n \in {host, drone} |-> IF n = host THEN {t1, t2} ELSE {t3}]
HostBetween == [n \in {host, drone} |-> IF n = host THEN {2} ELSE {1, 3}]
\* The host's workers are alike.
Alike == Permutations({t1, t2})
=============================================================================
