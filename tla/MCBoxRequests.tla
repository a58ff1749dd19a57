---------------------------- MODULE MCBoxRequests ----------------------------
(* Small instances of BoxRequests for TLC.                                 *)
EXTENDS BoxRequests, TLC

CONSTANTS box1, box2, meta1, meta2

\* The meta-files of the boxes, in the common case and when the second box
\* happens to be called like the meta-file of the first ("/box1" and "/box1.pub").
DistinctMeta == [box \in Boxes |-> IF box = box1 THEN meta1 ELSE meta2]
CollidingMeta == [box \in Boxes |-> IF box = box1 THEN box2 ELSE meta2]

\* Workers are interchangeable, and so are two boxes when their meta-files
\* change places with them.
Symmetry == Permutations(Workers)
SymmetryOfBoxes ==
    Symmetry \cup {box1 :> box2 @@ box2 :> box1 @@ meta1 :> meta2 @@ meta2 :> meta1}

=============================================================================
