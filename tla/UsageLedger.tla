----------------------------- MODULE UsageLedger -----------------------------
(***************************************************************************)
(* What the asynchronous metering path promises about each usage event     *)
(* offered to it (internal/writer/writer.go, seen from proxy.recordUsage    *)
(* and from the readers of request_usage): an event is rejected on the      *)
(* spot or accepted, an accepted event waits in the order of acceptance,    *)
(* and the oldest waiting events leave together, as rows of request_usage   *)
(* or as a lost batch.  Whatever left never comes back, so no event is      *)
(* billed twice and none is billed after it was rejected or lost.           *)
(***************************************************************************)
EXTENDS Naturals, Sequences

CONSTANTS Events,     \* the usage events that handlers offer
          BatchSize   \* most events that leave together

VARIABLES pending,    \* accepted events not yet settled, oldest first
          rows,       \* events persisted in request_usage, in id order
          lost,       \* events of batches the database refused
          rejected    \* events Enqueue returned false for

ledgerVars == <<pending, rows, lost, rejected>>

Elements(s) == {s[i] : i \in DOMAIN s}

Known == Elements(pending) \cup Elements(rows) \cup lost \cup rejected

Init ==
  /\ pending = <<>>
  /\ rows = <<>>
  /\ lost = {}
  /\ rejected = {}

Accept(e) ==
  /\ e \notin Known
  /\ pending' = Append(pending, e)
  /\ UNCHANGED <<rows, lost, rejected>>

Reject(e) ==
  /\ e \notin Known
  /\ rejected' = rejected \cup {e}
  /\ UNCHANGED <<pending, rows, lost>>

\* The n oldest pending events leave.
Leave(n) == pending' = SubSeq(pending, n + 1, Len(pending))

Persist(n) ==
  /\ Leave(n)
  /\ rows' = rows \o SubSeq(pending, 1, n)
  /\ UNCHANGED <<lost, rejected>>

Lose(n) ==
  /\ Leave(n)
  /\ lost' = lost \cup Elements(SubSeq(pending, 1, n))
  /\ UNCHANGED <<rows, rejected>>

Next ==
  \/ \E e \in Events : Accept(e) \/ Reject(e)
  \/ \E n \in 1..BatchSize : n <= Len(pending) /\ (Persist(n) \/ Lose(n))

Spec == Init /\ [][Next]_ledgerVars
=============================================================================
