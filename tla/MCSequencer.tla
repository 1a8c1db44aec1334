---------------------------- MODULE MCSequencer ----------------------------
(* Sequencer with the workspaces and sequences TLC uses. *)
EXTENDS Sequencer
CONSTANTS w1, w2, w3, s1, s2

OneWorkspace  == {w1}
TwoWorkspaces == {w1, w2}
OneSequence   == {s1}
TwoSequences  == {s1, s2}
=============================================================================
