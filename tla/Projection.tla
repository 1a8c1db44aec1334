----------------------------- MODULE Projection -----------------------------
(***************************************************************************)
(* What an async projector promises of its projection: the row of every    *)
(* workspace is the fold of a prefix of the workspace's events, the saved  *)
(* position never passes an event that is not folded, and events that have *)
(* been announced are folded and saved in the end.                         *)
(***************************************************************************)
EXTENDS Naturals, Sequences

CONSTANTS WSIDs, NoWSID

VARIABLES plog,       \* the workspace of each event, NoWSID: it triggers nothing
          view,       \* the events folded into the row of a workspace
          position,   \* the saved position of the projector
          announced   \* the last event the projector has been told about

vars == <<plog, view, position, announced>>

\* The events of a workspace up to the n-th event of a log.
EventsIn(log, w, n) == {i \in 1..Len(log) : i <= n /\ log[i] = w}

\* S is what the events of w up to some event fold to.
IsFold(S, log, w) ==
    /\ S \subseteq EventsIn(log, w, Len(log))
    /\ \A n \in S : EventsIn(log, w, n) \subseteq S

Init ==
    /\ plog = <<>>
    /\ view = [w \in WSIDs |-> {}]
    /\ position = 0
    /\ announced = 0

AppendEvent ==
    /\ \E w \in WSIDs \cup {NoWSID} : plog' = Append(plog, w)
    /\ UNCHANGED <<view, position, announced>>

\* A restart makes the process forget what has been announced.
Announce ==
    /\ announced' \in 0..Len(plog)
    /\ UNCHANGED <<plog, view, position>>

\* A row takes in the next events of its workspace.
Fold(w) ==
    /\ \E S \in SUBSET EventsIn(plog, w, Len(plog)) :
          /\ view[w] \subseteq S
          /\ IsFold(S, plog, w)
          /\ view' = [view EXCEPT ![w] = S]
    /\ UNCHANGED <<plog, position, announced>>

Save ==
    /\ position' \in position..Len(plog)
    /\ \A w \in WSIDs : EventsIn(plog, w, position') \subseteq view[w]
    /\ UNCHANGED <<plog, view, announced>>

Next == AppendEvent \/ Announce \/ Save \/ \E w \in WSIDs : Fold(w)

Spec == Init /\ [][Next]_vars
=============================================================================
