------------------------- MODULE MCAcquisitionTask -------------------------
(* Models of the acquisition thread for TLC: requests, modes and intervals. *)
EXTENDS AcquisitionTask

AllRealtime == [r \in 1 .. N |-> "realtime"]
EachMode == <<"realtime", "schfrz", "clock">>
\* Just long enough for every other request to be answered or to time out.
Roomy == [r \in 1 .. N |-> (N - 1) * (LockTimeout + 1)]
\* Every request is due again after a second.
Crowded == [r \in 1 .. N |-> 0]

=============================================================================
