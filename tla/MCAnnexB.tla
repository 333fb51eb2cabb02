------------------------------- MODULE MCAnnexB -------------------------------
(***************************************************************************)
(* An instance of AnnexB: frames of all NAL units that differ in what the  *)
(* conversion looks at.  None has a start code in it (that is what the 3   *)
(* behind two zeros is for) and none ends in a zero.                       *)
(***************************************************************************)
EXTENDS AnnexB

Units264 == {<<103, 66, 0, 31>>, <<39, 100, 0, 0, 3>>, <<103, 77, 64, 31, 1, 1>>,  \* SPS
             <<104, 206>>, <<40, 0, 3, 0, 0, 3, 1>>,                               \* PPS
             <<101, 0, 1, 0, 0, 3>>, <<65, 0, 0, 3, 0, 0, 3, 1>>,                  \* slices
             <<6, 0, 1>>, <<10>>}                                  \* SEI, end of sequence

\* 0 0 3 among the bytes of profile and level, as encoders write it, and a short one
VPS == <<64, 1, 12, 1, 255, 255, 1, 96, 0, 0, 3, 0, 144, 0, 0, 3, 0, 0, 3, 0, 93, 149>>
ShortVPS == <<64, 1, 14, 0, 255, 255, 1>>

LongSPS == <<66, 1, 1>> \o [i \in 1..23 |-> 7]

Units265 == {VPS, ShortVPS, <<66, 1, 0, 0, 3>>, LongSPS, <<68, 1, 193, 0, 1>>,  \* SPS, PPS
             <<78, 1, 0, 1>>, <<38, 1, 0, 0, 3, 0, 0, 3>>, <<2, 1, 208>>,
             <<0, 1, 208>>}                           \* SEI, IDR, TRAIL_R, TRAIL_N

All264 == BoundedSeq(Units264, 4) \ {<<>>}
All265 == BoundedSeq(Units265, 4) \ {<<>>}
==============================================================================
