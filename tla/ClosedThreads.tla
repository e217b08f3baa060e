---------------------------- MODULE ClosedThreads ----------------------------
(***************************************************************************)
(* The closed-anchor registry of hermes_mesh/threads.py.  What the file    *)
(* says of one anchor is one of three states, and each function of the     *)
(* module is a map on that state, applied under the registry lock.         *)
(***************************************************************************)

AnchorStates == {"open", "pending", "closed"}

\* Mutants: a live terminator recorded as a real close at once; a withdrawal
\* that drops whatever entry it finds; a promotion that needs no entry.
RecordedAtOnce(state, pending) == IF state = "open" THEN "closed" ELSE state

WithdrawnAnyEntry(state) == "open"

PromotedAnyEntry(state) == "closed"

\* record: an anchor that is already there, pending or not, is left as it is.
Recorded(state, pending) ==
    IF state # "open" THEN state ELSE IF pending THEN "pending" ELSE "closed"

\* promote: the pending close becomes a real one.
Promoted(state) == IF state = "pending" THEN "closed" ELSE state

\* withdraw: only a pending close is retracted.
Withdrawn(state) == IF state = "pending" THEN "open" ELSE state

\* is_closed: a pending close blocks replies just as a real one does.
IsClosed(state) == state # "open"
=============================================================================
