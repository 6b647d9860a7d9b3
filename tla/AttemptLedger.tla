---------------------------- MODULE AttemptLedger ----------------------------
(***************************************************************************)
(* What the rows of worker_attempts promise about one subtask: a lease.    *)
(* Attempts are numbered in the order they are reserved; a reservation     *)
(* ends whatever was open, so the open attempt, if any, is the last one;   *)
(* an attempt that has ended never opens again.  A death reported late may *)
(* still be written over the state it ended in.                            *)
(***************************************************************************)
EXTENDS Naturals, Sequences

VARIABLE ledger  \* the state of every attempt, in order

OpenState == {"reserved", "running"}
ClosedState == {"completed", "failed", "aborted", "superseded"}

Superseded ==
  [n \in DOMAIN ledger |->
     IF ledger[n] \in OpenState THEN "superseded" ELSE ledger[n]]

Reserve == ledger' = Append(Superseded, "reserved")

Start(n) == /\ ledger[n] = "reserved"
            /\ ledger' = [ledger EXCEPT ![n] = "running"]

Close(n) == /\ ledger[n] \in OpenState
            /\ \E outcome \in ClosedState :
                 ledger' = [ledger EXCEPT ![n] = outcome]

\* A death is written without a look at the state it replaces.
Amend(n) == /\ ledger[n] \in ClosedState
            /\ ledger' = [ledger EXCEPT ![n] = "failed"]

Init == ledger = <<>>

Next == Reserve \/ \E n \in DOMAIN ledger : Start(n) \/ Close(n) \/ Amend(n)

Spec == Init /\ [][Next]_ledger

-----------------------------------------------------------------------------
LedgerTypeOK == ledger \in Seq(OpenState \union ClosedState)

\* The lease is exclusive: only the attempt reserved last can be open.
OnlyLastIsOpen ==
  \A n \in DOMAIN ledger : ledger[n] \in OpenState => n = Len(ledger)

=============================================================================
