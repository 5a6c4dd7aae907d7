---------------------------- MODULE MCGuiSession ----------------------------
(* Instances of GuiSession for TLC.                                        *)
EXTENDS GuiSession

CONSTANTS w1, w2, d1, d2, s1, s2, m1, m2

TwoWrites == {w1, w2}
TwoDownloads == {d1, d2}
TwoScans == {s1, s2}
TwoMedia == {m1, m2}
=============================================================================
