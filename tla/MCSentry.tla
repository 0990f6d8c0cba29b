------------------------------ MODULE MCSentry -------------------------------
(***************************************************************************)
(* The settings in which AccessSentry is checked: two visits in a row, or,  *)
(* over a longer time, a dashboard that dies and writes that fail, more     *)
(* visits than the audit log has room for, loads that overlap or cannot     *)
(* read the file, an assessment that changes under an open challenge, or    *)
(* somebody who stands at the rack and is photographed or not.             *)
(***************************************************************************)
EXTENDS AccessSentry

Visiting == [faults |-> {"stale"}, incidents |-> {FALSE},
             visits |-> 2, asking |-> 1, challenges |-> 2]
\* Identification may answer after the visitor has left.
Late == [Visiting EXCEPT !.faults = {"slow"}]
Restarts == [faults |-> {"crash", "write", "stale"}, incidents |-> {FALSE},
             visits |-> 2, asking |-> 0, challenges |-> 3]
\* More visits than the audit log has room for.
Crowded == [faults |-> {"crash"}, incidents |-> {FALSE},
            visits |-> 3, asking |-> 0, challenges |-> 3]
\* Loads that overlap, of a file that may not be legible.
Reloads == [faults |-> {"crash", "overlap", "unreadable"}, incidents |-> {FALSE},
            visits |-> 1, asking |-> 0, challenges |-> 2]
Assessed == [faults |-> {}, incidents |-> BOOLEAN,
             visits |-> 1, asking |-> 1, challenges |-> 2]
Waiting == [faults |-> {"stale", "slow", "window", "send"}, incidents |-> {FALSE},
            visits |-> 1, asking |-> 1, challenges |-> 2]

VisitSettings == {Visiting}
LateSettings == {Late}
LongSettings == {Restarts, Crowded, Reloads, Assessed, Waiting}

\* Fairness is that of AccessSentry; it is only needed where somebody waits.
LongSpec == Spec /\ (setting = Waiting => WF_vars(WallTick) /\ WF_vars(WriteLands))
-----------------------------------------------------------------------------
\* A visitor who stays and is not photographed is announced or decided on, in the end
\* (AccessSentry!SilenceIsAnnounced).
SilenceInTheEnd == setting = Waiting => SilenceIsAnnounced
=============================================================================
