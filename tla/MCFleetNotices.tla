---------------------------- MODULE MCFleetNotices ----------------------------
(* Two rounds that may overlap, two markers.                               *)
EXTENDS FleetNotices
=============================================================================
