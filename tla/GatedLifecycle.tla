--------------------------- MODULE GatedLifecycle ---------------------------
(***************************************************************************)
(* What the delivery pipeline promises: a project moves forward along the  *)
(* lifecycle, and passes the three gates only when the owner has approved. *)
(***************************************************************************)
CONSTANT Projects

VARIABLES
  phase,     \* where each project is
  granted    \* the gates the owner has approved for it

Gate == {"proposal_final", "spec_final", "delivery_final"}

Init ==
  /\ phase = [p \in Projects |-> "none"]
  /\ granted = [p \in Projects |-> {}]

GrantOnly(p, g) == granted' = [granted EXCEPT ![p] = @ \cup {g}]

(* The owner approves a gate.                                              *)
Grant(p, g) == GrantOnly(p, g) /\ UNCHANGED phase

Move(p, from, to) ==
  /\ phase[p] = from
  /\ phase' = [phase EXCEPT ![p] = to]

(* The deal is won in the step in which the owner approves the proposal.   *)
Win(p) == Move(p, "lead", "won") /\ GrantOnly(p, "proposal_final")

Capture(p) == Move(p, "none", "lead") /\ UNCHANGED granted

Discover(p) == Move(p, "won", "discovery") /\ UNCHANGED granted

Build(p) ==
  /\ "spec_final" \in granted[p]
  /\ Move(p, "discovery", "implementation")
  /\ UNCHANGED granted

Validate(p) == Move(p, "implementation", "qa") /\ UNCHANGED granted

Deliver(p) ==
  /\ "delivery_final" \in granted[p]
  /\ Move(p, "qa", "delivered")
  /\ UNCHANGED granted

Next ==
  \E p \in Projects :
    \/ \E g \in Gate : Grant(p, g)
    \/ Win(p) \/ Capture(p) \/ Discover(p) \/ Build(p) \/ Validate(p) \/ Deliver(p)

Spec == Init /\ [][Next]_<<phase, granted>>
=============================================================================
