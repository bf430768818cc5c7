------------------------------ MODULE AuditLog ------------------------------
(***************************************************************************)
(* What the audit trail promises: a log of each stream that only grows, at *)
(* its end, and one stream at a time.                                      *)
(***************************************************************************)
EXTENDS SequencesExt

CONSTANTS Streams, Payloads

VARIABLE log

Init == log = [s \in Streams |-> <<>>]

Extend(s) ==
  /\ log' \in [Streams -> Seq(Payloads)]
  /\ IsPrefix(log[s], log'[s])
  /\ \A r \in Streams \ {s} : log'[r] = log[r]

Next == \E s \in Streams : Extend(s)

Spec == Init /\ [][Next]_log
=============================================================================
