-------------------------- MODULE MessageTransport --------------------------
(***************************************************************************)
(* What a sender may expect of a transport: the abstract specification     *)
(* that XioAdapter implements.  A message is done with when it is sent, or *)
(* it is accepted and waits.  Those that wait are done with in the order   *)
(* they were sent in, each of them once, and none is overtaken by a        *)
(* message that is written at once.                                        *)
(*                                                                         *)
(* The transports have no lock.  After two calls that got in each other's  *)
(* way nothing is promised any more.                                       *)
(***************************************************************************)
EXTENDS Naturals, Sequences

VARIABLES
    outcome,        \* what became of each message, in the order they were sent in
    overlapped      \* a thread was inside send when another call came in between

transportVars == <<outcome, overlapped>>

Waiting == {m \in DOMAIN outcome : outcome[m] = "accepted"}
Oldest(m) == m \in Waiting /\ \A n \in Waiting : m <= n

Init ==
    /\ outcome = <<>>
    /\ overlapped = FALSE

\* A message is written or dropped at once only if no other waits.
Send(result) ==
    /\ result \in {"complete", "dropped"} => Waiting = {}
    /\ outcome' = Append(outcome, result)
    /\ UNCHANGED overlapped

\* The oldest message is written to its end, or given up.
Settle(result) ==
    /\ \E m \in Waiting : Oldest(m) /\ outcome' = [outcome EXCEPT ![m] = result]
    /\ UNCHANGED overlapped

\* The connection ends: everything that waits has failed.
Abandon ==
    /\ outcome' = [m \in DOMAIN outcome |-> IF m \in Waiting THEN "failed" ELSE outcome[m]]
    /\ UNCHANGED overlapped

Overlap == overlapped' = TRUE

Next ==
    \/ \E result \in {"accepted", "complete", "dropped", "failed"} : Send(result)
    \/ \E result \in {"complete", "failed"} : Settle(result)
    \/ Abandon \/ Overlap

Spec == Init /\ [][Next]_transportVars

=============================================================================
