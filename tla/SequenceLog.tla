---------------------------- MODULE SequenceLog ----------------------------
(***************************************************************************)
(* What the sequencer promises to the log of one partition, whatever       *)
(* happens to its caches, its background goroutines and its process:       *)
(* events are appended one after another, none is rewritten, and the       *)
(* numbers an event carries for a sequence continue that sequence - no     *)
(* number of a sequence is issued to two events and none is skipped.       *)
(***************************************************************************)
EXTENDS Integers

CONSTANTS
    Keys,           \* the sequences, NumberKey of pkg/isequencer/types.go
    FirstOffset,    \* offset of the first event
    LastOffset,     \* offset of the last event
    InitialValue,   \* first number of a sequence
    MaxNumber       \* last number of a sequence

VARIABLE eventLog   \* the numbers of each event, {} where there is no event

LogOffsets == FirstOffset .. LastOffset
Numbers == InitialValue .. MaxNumber
Events  == SUBSET (Keys \X Numbers)

\* The numbers that have been given to events so far.
Used(k) == {n \in Numbers : \E o \in LogOffsets : <<k, n>> \in eventLog[o]}

\* An event carries an interval of numbers of each sequence it uses, and the
\* interval starts where the previous events left that sequence.
Continues(e) ==
    \A k \in Keys, n \in Numbers :
        <<k, n>> \in e => /\ n \notin Used(k)
                          /\ \A m \in Numbers :
                                m < n => (<<k, m>> \in e \/ m \in Used(k))

Init == eventLog = [o \in LogOffsets |-> {}]

\* The event is whatever the next state of the log holds at o.
Append(o) ==
    LET e == eventLog'[o]
    IN  /\ eventLog[o] = {}
        /\ \A p \in LogOffsets : p < o => eventLog[p] # {}
        /\ e \in Events /\ e # {} /\ Continues(e)
        /\ eventLog' = [eventLog EXCEPT ![o] = e]

Next == \E o \in LogOffsets : Append(o)

Spec == Init /\ [][Next]_eventLog
=============================================================================
