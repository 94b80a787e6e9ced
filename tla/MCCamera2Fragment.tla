------------------------- MODULE MCCamera2Fragment -------------------------
(* In an upright view, a preview that fits and one that is larger.            *)
EXTENDS Camera2Fragment

MCPreviewSizes == {[width |-> 640, height |-> 480], [width |-> 1920, height |-> 1080]}
MCViewSizes == {[width |-> 600, height |-> 800]}
=============================================================================
