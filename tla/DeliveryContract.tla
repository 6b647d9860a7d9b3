-------------------------- MODULE DeliveryContract --------------------------
(***************************************************************************)
(* What the delivery of a task promises about its versions, whoever acts   *)
(* on them: clients, policies, operators, the tick and mergers nobody      *)
(* waits for.  A version is one commit on one base.  It is offered when no *)
(* other is open, accepted and authorised in that order while it is open,  *)
(* and never opened again once withdrawn.  Only what was authorised lands, *)
(* and it lands once; a merger that was started in time may land it after  *)
(* it was withdrawn.  The version the task ends with is open and           *)
(* authorised, and nothing is offered, judged or withdrawn after it.       *)
(***************************************************************************)
EXTENDS Naturals, Sequences

VARIABLES
  versions,  \* what was offered, oldest first: commit, base, stage, state
  landed,    \* what mergers pushed: commit and base, and which merger
  finished   \* the version the task ended with, or 0

vars == <<versions, landed, finished>>

Version == [commit : Nat \ {0}, base : Nat \ {0},
            stage : {"offered", "accepted", "authorised"},
            state : {"open", "withdrawn"}]

Open == { n \in DOMAIN versions : versions[n].state = "open" }

\* The gate freezes what it checked.
Offer ==
  /\ finished = 0
  /\ Open = {}
  /\ Len(versions') = Len(versions) + 1
  /\ LET version == versions'[Len(versions')] IN
       /\ version \in Version
       /\ version.stage = "offered" /\ version.state = "open"
       /\ versions' = Append(versions, version)
  /\ UNCHANGED <<landed, finished>>

Advance(n, from, to) ==
  /\ finished = 0
  /\ n \in Open
  /\ versions[n].stage = from
  /\ versions' = [versions EXCEPT ![n].stage = to]
  /\ UNCHANGED <<landed, finished>>

Accept(n) == Advance(n, "offered", "accepted")
Authorise(n) == Advance(n, "accepted", "authorised")

\* Sent back, archived, overtaken by a ref, or rejected by the merger.
Withdraw(n) ==
  /\ finished = 0
  /\ n \in Open
  /\ versions' = [versions EXCEPT ![n].state = "withdrawn"]
  /\ UNCHANGED <<landed, finished>>

Land(n) ==
  /\ versions[n].stage = "authorised"
  /\ \A l \in landed : l.commit # versions[n].commit
  /\ \E l \in landed' :
       /\ l.commit = versions[n].commit /\ l.base = versions[n].base
       /\ landed' = landed \union {l}
  /\ UNCHANGED <<versions, finished>>

Finish(n) ==
  /\ finished = 0
  /\ n \in Open
  /\ versions[n].stage = "authorised"
  /\ finished' = n
  /\ UNCHANGED <<versions, landed>>

Init == versions = <<>> /\ landed = {} /\ finished = 0

Next ==
  \/ Offer
  \/ \E n \in DOMAIN versions :
       Accept(n) \/ Authorise(n) \/ Withdraw(n) \/ Land(n) \/ Finish(n)

Spec == Init /\ [][Next]_vars

-----------------------------------------------------------------------------
\* Only the newest version is open; what landed was authorised, and no commit
\* landed twice; the task ended with its newest version, which was authorised.
Promise ==
  /\ versions \in Seq(Version) /\ finished \in Nat
  /\ Open \subseteq {Len(versions)}
  /\ \A l \in landed : \E n \in DOMAIN versions :
       /\ versions[n].stage = "authorised"
       /\ versions[n].commit = l.commit /\ versions[n].base = l.base
  /\ \A l, k \in landed : l.commit = k.commit => l = k
  /\ finished # 0 =>
       /\ Open = {finished} /\ finished = Len(versions)
       /\ versions[finished].stage = "authorised"

=============================================================================
