-------------------------------- MODULE MCLogs --------------------------------
(* The log of a partition, as its sequencer numbers it and as two command    *)
(* processors write it in the hand-over window of the leader elections (one  *)
(* workspace, trust level 0).  The two share no state here; the variable     *)
(* part names the one that moves.                                            *)
EXTENDS MCSequencer, CommandProcessor

CONSTANT p1

OnePartition == [w \in WSIDs |-> p1]

VARIABLE part

LogsInit == part \in {"sequencer", "commands"} /\ SequencerInit /\ Init

NextSequencer == part = "sequencer" /\ SequencerNext /\ UNCHANGED vars
NextCommand   == part = "commands" /\ Next /\ UNCHANGED sequencerVars

LogsNext == (NextSequencer \/ NextCommand) /\ UNCHANGED part

LogsSpec == LogsInit /\ [][LogsNext]_<<sequencerVars, vars, part>>

\* The processes are interchangeable
Symmetry == Permutations(Nodes)
=============================================================================
