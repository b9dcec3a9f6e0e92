---------------------------- MODULE MCIkdRebuild ----------------------------
(* Three points, two of them below the son and one cell across the edge.   *)
EXTENDS IkdRebuild, TLC
CONSTANTS p1, p2, p3
MCPoints == {p1, p2, p3}
MCSonPoints == {p1, p2}
MCVoxels == {{p1}, {p2, p3}}
MCBoxes == {{p1, p2}, {p2, p3}, {p1, p2, p3}}
=============================================================================
