--------------------------- MODULE MCVideoDecoder ---------------------------
(* Four frames for TLC: one whose pts is a whole number of microseconds, a  *)
(* second keyframe, and a pause longer than pendingSampleMaxAgeNs.          *)
EXTENDS VideoDecoder

MCStream ==
    << [pts |-> 1200300, key |-> TRUE], [pts |-> 17900000, key |-> FALSE],
       [pts |-> 34500700, key |-> TRUE], [pts |-> 1100000000, key |-> FALSE] >>

=============================================================================
