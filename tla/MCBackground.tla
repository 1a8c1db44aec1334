----------------------------- MODULE MCBackground -----------------------------
(* The background work of a partition: an async actualizer, and the flusher  *)
(* and the actualizer of its sequencer.  The two share no state; the         *)
(* variable part names the one that moves.  Three sequences and a threshold  *)
(* of one unflushed value make the batcher wait for the flusher.             *)
EXTENDS AsyncActualizer

CONSTANTS w1, w2, w3, s1, NoWS

VARIABLES
    part,
    eventLog, numbers, persistedOffset, seqStorage, nextOffset, cache, inproc,
    toBeFlushed, toBeFlushedOffset, flusherSig, client, flusher,
    flusherCancelled, actualizer, actualizerCancelled, cleanup

Sequence == INSTANCE Sequencer WITH
    SeqWSIDs <- {w1, w2, w3}, SeqIDs <- {s1}, MaxNumUnflushedValues <- 1,
    LRUCacheSize <- 3, InitialValue <- 2, FirstOffset <- 0, LastOffset <- 2,
    MaxNumber <- 2

seqVars == <<eventLog, numbers, persistedOffset, seqStorage, nextOffset, cache, inproc,
             toBeFlushed, toBeFlushedOffset, flusherSig, client, flusher,
             flusherCancelled, actualizer, actualizerCancelled, cleanup>>
backgroundVars == <<vars, seqVars, part>>

BackgroundInit ==
    /\ part \in {"projector", "sequencer"}
    /\ Init /\ Sequence!SequencerInit
    /\ part = "sequencer" => kind = "view"

\* The workspaces are interchangeable until one has an event.
FirstWorkspaceIsW1 ==
    \A j \in 1..Len(plog) : plog[j] = w2 => \E i \in 1..(j - 1) : plog[i] = w1

NextProjector == part = "projector" /\ Next /\ FirstWorkspaceIsW1' /\ UNCHANGED seqVars
NextSequencer == part = "sequencer" /\ Sequence!SequencerStep /\ UNCHANGED vars

BackgroundNext == (NextProjector \/ NextSequencer) /\ UNCHANGED part

(* The fairness of AsyncActualizer!Spec and of Sequencer!SequencerFairSpec. *)
BackgroundFairness ==
    /\ WF_vars(part = "projector" /\ Read)
    /\ WF_vars(part = "projector" /\ Project)
    /\ WF_vars(part = "projector" /\ TimerFires)
    /\ WF_seqVars(part = "sequencer" /\ Sequence!FlusherStep)
    /\ WF_seqVars(part = "sequencer" /\ Sequence!ActualizerStep)
    /\ WF_seqVars(part = "sequencer" /\ Sequence!CleanupStep)
    /\ WF_seqVars(part = "sequencer" /\ Sequence!Flush)
    /\ WF_seqVars(part = "sequencer" /\ client.pc = "failed" /\ Sequence!Actualize)
    /\ WF_seqVars(part = "sequencer" /\ Sequence!StorageRecovers)

BackgroundSpec == BackgroundInit /\ [][BackgroundNext]_backgroundVars /\ BackgroundFairness

\* The properties of the sequencer, which is at its start where it does not move.
Moves == part = "sequencer"
ActualizationEnds == Moves => Sequence!ActualizationEnds
CleanupReturns == Moves => Sequence!CleanupReturns
FlushedNumbersArePersisted == Moves => Sequence!FlushedNumbersArePersisted
=============================================================================
