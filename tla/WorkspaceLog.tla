---------------------------- MODULE WorkspaceLog ----------------------------
(***************************************************************************)
(* What the command side promises to the clients of a workspace: one log   *)
(* per workspace that grows at its end only, in which no record ID is      *)
(* created twice and only created records are updated, and a reply for an  *)
(* event that is in the log.  Storage, recovery and processes do not       *)
(* appear here.                                                            *)
(***************************************************************************)
EXTENDS Integers

CONSTANTS WSIDs, Offsets, RecordIDs, NoEntry

VARIABLES
    log,    \* log[w][o]: the event of workspace w with WLog offset o
    done    \* done[w]: the offsets that clients got a reply for

Entry == [creates : SUBSET RecordIDs, updates : SUBSET RecordIDs]

Init == /\ log = [w \in WSIDs |-> [o \in Offsets |-> NoEntry]]
        /\ done = [w \in WSIDs |-> {}]

Written(w) == {o \in Offsets : log[w][o] # NoEntry}
Created(w) == UNION {log[w][o].creates : o \in Written(w)}

\* The new entry is whatever the next state holds at o, under these
\* conditions; all other rows stay
Append(w, o) ==
    LET e == log'[w][o]
    IN  /\ \A j \in Offsets : log[w][j] # NoEntry <=> j < o
        /\ e \in Entry
        /\ e.creates \cap Created(w) = {}
        /\ e.updates \subseteq Created(w)
        /\ log' = [log EXCEPT ![w][o] = e]
        /\ UNCHANGED done

Acknowledge(w, o) ==
    /\ log[w][o] # NoEntry
    /\ done' = [done EXCEPT ![w] = @ \cup {o}]
    /\ UNCHANGED log

Next == \E w \in WSIDs, o \in Offsets :
            \/ Append(w, o)
            \/ Acknowledge(w, o)

Spec == Init /\ [][Next]_<<log, done>>
=============================================================================
