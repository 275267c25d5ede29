-------------------------- MODULE DeliveryPipeline --------------------------
(***************************************************************************)
(* The path of a project from lead to delivery: the message bus            *)
(* (runtime-app/orchestration), the agent adapters (runtime-app/           *)
(* integration) with the product, engineering and sales code behind them,  *)
(* the lifecycle of the registry and the owner's approvals.                *)
(*                                                                         *)
(* A call into the runtime is a stack of dispatches, newest first.  Its    *)
(* frame holds the message, the attempt, what is left to send, and where   *)
(* the handler waits.  The handlers of all agents but engineering have no  *)
(* await: they run in the step that dispatches the message.                *)
(*                                                                         *)
(* Request ids are <project>:<gate>:v<ver>; a department run's has ver 0   *)
(* (that of two runs of a head is the same if they bear the same instant). *)
(* Notes, events, timelines and artifact contents are left out.            *)
(*                                                                         *)
(* Bounds: MaxCaptures leads per project, MaxRuns department runs,         *)
(* MaxFaults failing writes to the workspace.                              *)
(***************************************************************************)
EXTENDS Naturals, Sequences

CONSTANTS
  Projects, Callers,
  Heads,                 \* department heads whose runs ask for an approval
  MaxAttempts,           \* maxAttempts of the bus
  MaxCaptures, MaxRuns, MaxFaults

Agents == {"ceo", "marketing", "sales", "product", "engineering", "pm", "support"}
Gates == {"proposal_final", "spec_final", "delivery_final", "strategic_decision"}
Decisions == {"approve", "reject", "revise"}

(* mapHeadToApprovalGate; a head is named by the agent type it stands for. *)
GateOf(agent) ==
  CASE agent = "sales" -> "proposal_final"
    [] agent = "product" -> "spec_final"
    [] agent = "engineering" -> "delivery_final"
    [] OTHER -> "strategic_decision"

ASSUME PipelineAssumption ==
  /\ Heads \subseteq Agents
  /\ MaxAttempts \in Nat \ {0}
  /\ {MaxCaptures, MaxRuns, MaxFaults} \subseteq Nat

VARIABLES
  lifecycle,     \* lifecycle_state in the registry; "none" before it is registered
  sales,         \* status of the proposal's approval cycle; "none" without one
  product,       \* spec_version (0: unknown project), last decision, handoff_status
  engineering,   \* delivery_version; 0 without a stored state
  pending,       \* pendingApprovals
  answered,      \* the responses in approvalHistory
  blockers,      \* open blockers of failed dispatches
  calls,         \* each caller's stack of dispatches
  captures, runs, faults

stores == <<sales, product, engineering>>
vars == <<lifecycle, stores, pending, answered, blockers, calls, captures, runs, faults>>

-----------------------------------------------------------------------------
(* The lifecycle.                                                          *)

Events == {"lead_qualified", "proposal_sent", "deal_won", "build_started",
           "final_validation_started", "delivery_approved"}

Edge(event) ==
  CASE event = "lead_qualified" -> <<"lead", "qualified">>
    [] event = "proposal_sent" -> <<"qualified", "proposal">>
    [] event = "deal_won" -> <<"proposal", "won">>
    [] event = "build_started" -> <<"discovery", "implementation">>
    [] event = "final_validation_started" -> <<"implementation", "qa">>
    [] event = "delivery_approved" -> <<"qa", "delivered">>

Phases == {"none", "lead", "qualified", "proposal", "won", "discovery",
           "implementation", "qa", "delivered"}

(* transitionProjectLifecycle: an illegal transition is refused silently.  *)
Try(phase, event) == IF Edge(event)[1] = phase THEN Edge(event)[2] ELSE phase

SetPhase(p, phase) == lifecycle' = [lifecycle EXCEPT ![p] = phase]

-----------------------------------------------------------------------------
(* Messages and frames.                                                    *)

Message == [type : {"status_update", "approval_request", "approval_response",
                    "lead_handoff", "discovery_handoff"},
            from : Agents, to : Agents, p : Projects, ver : Nat,
            gate : Gates \cup {"none"}, decision : Decisions \cup {"none"}]

Note(p, from, to, type) ==
  [type |-> type, from |-> from, to |-> to, p |-> p, ver |-> 0,
   gate |-> "none", decision |-> "none"]

Status(p, from, to) == Note(p, from, to, "status_update")

Ask(p, from, ver) ==
  [Note(p, from, "ceo", "approval_request") EXCEPT !.gate = GateOf(from), !.ver = ver]

Request(p, from, ver) == [p |-> p, from |-> from, gate |-> GateOf(from), ver |-> ver]

Answer(r, d) ==
  [type |-> "approval_response", from |-> "ceo", to |-> r.from, p |-> r.p, ver |-> r.ver,
   gate |-> r.gate, decision |-> d]

Waits == {"plan", "log", "report", "audit"}

Frame == [msg : Message, attempt : 1..MaxAttempts, at : Waits \cup {"send", "failed"},
          out : Seq(Message), ver : Nat]

Push(c, rest, m, k, at, out, ver) ==
  calls' = [calls EXCEPT ![c] =
    <<[msg |-> m, attempt |-> k, at |-> at, out |-> out, ver |-> ver]>> \o rest]

(* The handler of m ended with outgoing messages, or threw.                *)
Sends(c, rest, m, k, out) == Push(c, rest, m, k, "send", out, 0)
Throws(c, rest, m, k) == Push(c, rest, m, k, "failed", <<>>, 0)

-----------------------------------------------------------------------------
(* The handlers: m is dispatched, as attempt k, above the frames in rest.  *)

SalesAnswer(c, rest, m, k) ==
  /\ m.to = "sales" /\ m.type = "approval_response"
  /\ sales[m.p] # "none"
  /\ sales' = [sales EXCEPT ![m.p] = m.decision]
  /\ \/ /\ m.decision # "approve"
        /\ Sends(c, rest, m, k, <<>>)
        /\ UNCHANGED lifecycle
     \/ /\ m.decision = "approve"
        /\ SetPhase(m.p, Try(Try(Try(lifecycle[m.p], "lead_qualified"),
                                 "proposal_sent"), "deal_won"))
        /\ Sends(c, rest, m, k, <<Note(m.p, "sales", "product", "lead_handoff"),
                                  Status(m.p, "sales", "pm")>>)
  /\ UNCHANGED <<product, engineering>>

(* receiveLeadHandoff, writeSpec and requestApproval.  The registry is     *)
(* written directly, whatever its state was.                               *)
ProductLead(c, rest, m, k) ==
  LET spec == product[m.p].spec + 1 IN
  /\ m.to = "product" /\ m.type = "lead_handoff"
  /\ product' = [product EXCEPT ![m.p].spec = spec, ![m.p].handoff = "not_sent"]
  /\ SetPhase(m.p, "discovery")
  /\ Sends(c, rest, m, k, <<Status(m.p, "product", "pm"), Status(m.p, "product", "pm"),
                            Ask(m.p, "product", spec)>>)
  /\ UNCHANGED <<sales, engineering>>

(* Slip: an approved spec gets a new version as well.                      *)
DecidedAnew(s, d) ==
  [spec |-> IF d = "reject" THEN s.spec ELSE s.spec + 1, last |-> d,
   handoff |-> IF d = "approve" THEN "awaiting_engineering_ack" ELSE s.handoff]

(* recordApprovalResponse and, on approval, createDiscoveryHandoff.        *)
Decided(s, d) ==
  [spec |-> IF d = "revise" THEN s.spec + 1 ELSE s.spec, last |-> d,
   handoff |-> IF d = "approve" THEN "awaiting_engineering_ack" ELSE s.handoff]

(* Slip: a revision is handed to engineering too.                          *)
OnwardUnlessRejected(m) ==
  IF m.decision # "reject"
  THEN <<Status(m.p, "product", "pm"), Note(m.p, "product", "engineering", "discovery_handoff")>>
  ELSE <<>>

Onward(m) ==
  IF m.decision = "approve"
  THEN <<Status(m.p, "product", "pm"), Note(m.p, "product", "engineering", "discovery_handoff")>>
  ELSE <<>>

ProductAnswer(c, rest, m, k) ==
  /\ m.to = "product" /\ m.type = "approval_response"
  /\ product[m.p].spec # 0
  /\ product' = [product EXCEPT ![m.p] = Decided(product[m.p], m.decision)]
  /\ Sends(c, rest, m, k, Onward(m))
  /\ UNCHANGED <<lifecycle, sales, engineering>>

(* acknowledgeEngineeringHandoff, whose error the adapter catches.         *)
ProductAck(c, rest, m, k) ==
  LET counts == /\ lifecycle[m.p] \notin {"qa", "delivered"}
                /\ product[m.p].handoff = "awaiting_engineering_ack"
                /\ product[m.p].last = "approve" IN
  /\ m.to = "product" /\ m.type = "status_update"
  /\ \/ /\ counts
        /\ product' = [product EXCEPT ![m.p].handoff = "handoff_completed"]
        /\ SetPhase(m.p, "implementation")
     \/ /\ ~counts
        /\ UNCHANGED <<product, lifecycle>>
  /\ Sends(c, rest, m, k, <<>>)
  /\ UNCHANGED <<sales, engineering>>

(* Engineering reads its state, then waits for the workspace.              *)
EngineeringHandoff(c, rest, m, k) ==
  LET processed == /\ engineering[m.p] # 0
                   /\ lifecycle[m.p] \in {"implementation", "qa", "delivered"} IN
  /\ m.to = "engineering" /\ m.type = "discovery_handoff"
  /\ \/ processed /\ Sends(c, rest, m, k, <<>>)
     \/ /\ ~processed
        /\ Push(c, rest, m, k, "plan", <<>>,
                IF engineering[m.p] = 0 THEN 1 ELSE engineering[m.p])
  /\ UNCHANGED <<lifecycle, stores>>

EngineeringAnswer(c, rest, m, k) ==
  /\ m.to = "engineering" /\ m.type = "approval_response"
  /\ engineering[m.p] # 0 /\ m.ver = engineering[m.p]
  /\ Push(c, rest, m, k, "audit", <<>>, engineering[m.p])
  /\ UNCHANGED <<lifecycle, stores>>

(* An answer to an agent that has nothing to be answered.                  *)
StrayAnswer(c, rest, m, k) ==
  /\ m.type = "approval_response"
  /\ \/ m.to = "sales" /\ sales[m.p] = "none"
     \/ m.to = "product" /\ product[m.p].spec = 0
     \/ m.to = "engineering" /\ (engineering[m.p] = 0 \/ m.ver # engineering[m.p])
  /\ Throws(c, rest, m, k)
  /\ UNCHANGED <<lifecycle, stores>>

(* The CEO records requests (Recorded); the others only take note.         *)
Bystander(c, rest, m, k) ==
  /\ m.to \in {"ceo", "marketing", "pm", "support"}
  /\ Sends(c, rest, m, k, <<>>)
  /\ UNCHANGED <<lifecycle, stores>>

Handle(c, rest, m, k) ==
  \/ SalesAnswer(c, rest, m, k)
  \/ ProductLead(c, rest, m, k)
  \/ ProductAnswer(c, rest, m, k)
  \/ ProductAck(c, rest, m, k)
  \/ EngineeringHandoff(c, rest, m, k)
  \/ EngineeringAnswer(c, rest, m, k)
  \/ StrayAnswer(c, rest, m, k)
  \/ Bystander(c, rest, m, k)

Recorded(m) ==
  IF m.type = "approval_request"
  THEN pending \cup {Request(m.p, m.from, m.ver)}
  ELSE pending

-----------------------------------------------------------------------------
(* The calls into the runtime.                                             *)

Init ==
  /\ lifecycle = [p \in Projects |-> "none"]
  /\ sales = [p \in Projects |-> "none"]
  /\ product = [p \in Projects |-> [spec |-> 0, last |-> "none", handoff |-> "not_sent"]]
  /\ engineering = [p \in Projects |-> 0]
  /\ pending = {}
  /\ answered = {}
  /\ blockers = {}
  /\ calls = [c \in Callers |-> <<>>]
  /\ captures = [p \in Projects |-> 0]
  /\ runs = 0
  /\ faults = 0

Idle(c) == calls[c] = <<>>

(* executeAgentTask(marketing_agent, capture_inbound_lead) registers the   *)
(* project and dispatches the lead to sales, whose handler opens a new     *)
(* approval cycle; nothing in between looks at what these write.           *)
CaptureLead(c, p) ==
  /\ Idle(c) /\ captures[p] < MaxCaptures
  /\ captures' = [captures EXCEPT ![p] = @ + 1]
  /\ SetPhase(p, IF lifecycle[p] = "none" THEN "lead" ELSE lifecycle[p])
  /\ sales' = [sales EXCEPT ![p] = "pending"]
  /\ Sends(c, <<>>, Status(p, "marketing", "sales"), 1, <<Ask(p, "sales", 1)>>)
  /\ UNCHANGED <<product, engineering, pending, answered, blockers, runs, faults>>

(* Slip: an answered request stays pending.                                *)
WithoutNothing(r) == pending

(* resolvePendingApproval                                                  *)
Without(r) == pending \ {r}

(* respondToPendingApproval: the request is resolved before the answer is  *)
(* dispatched, and is not pending again if that fails.  (The code takes    *)
(* the oldest request for the gate; here it may be any of them.)           *)
Respond(c, r, d) ==
  /\ Idle(c)
  /\ r \in pending
  /\ pending' = Without(r)
  /\ answered' = answered \cup {[p |-> r.p, gate |-> r.gate, ver |-> r.ver, decision |-> d]}
  /\ Handle(c, <<>>, Answer(r, d), 1)
  /\ UNCHANGED <<blockers, captures, runs, faults>>

(* runDepartmentWorkflow with requireApproval, for a registered project.   *)
DepartmentRun(p, head) ==
  /\ lifecycle[p] # "none" /\ runs < MaxRuns
  /\ runs' = runs + 1
  /\ pending' = pending \cup {Request(p, head, 0)}
  /\ UNCHANGED <<lifecycle, stores, answered, blockers, calls, captures, faults>>

-----------------------------------------------------------------------------
(* One step of the bus for the newest frame of a call.                     *)

Top(c) == Head(calls[c])
Below(c) == Tail(calls[c])
At(c, where) == ~Idle(c) /\ Top(c).at = where

Dispatch(c) ==
  /\ At(c, "send") /\ Top(c).out # <<>>
  /\ LET m == Head(Top(c).out)
         rest == <<[Top(c) EXCEPT !.out = Tail(Top(c).out)]>> \o Below(c) IN
     /\ Handle(c, rest, m, 1)
     /\ pending' = Recorded(m)
  /\ UNCHANGED <<answered, blockers, captures, runs, faults>>

Return(c) ==
  /\ At(c, "send") /\ Top(c).out = <<>>
  /\ calls' = [calls EXCEPT ![c] = Below(c)]
  /\ UNCHANGED <<lifecycle, stores, pending, answered, blockers, captures, runs, faults>>

(* Slip: the attempts are not limited.                                     *)
TriesForEver(k) == TRUE

TriesAgain(k) == k < MaxAttempts

(* Slip: the attempts are not counted.                                     *)
SameAttempt(k) == k

NextAttempt(k) == k + 1

(* The whole message is dispatched again: its handler runs once more.      *)
Retry(c) ==
  /\ At(c, "failed") /\ TriesAgain(Top(c).attempt)
  /\ Handle(c, Below(c), Top(c).msg, NextAttempt(Top(c).attempt))
  /\ UNCHANGED <<pending, answered, blockers, captures, runs, faults>>

(* Slip: only the message the call began with is reported.                 *)
ReportedOnce(m, rest) ==
  IF rest = <<>> THEN {[p |-> m.p, to |-> m.to, type |-> m.type]} ELSE {}

Reported(m, rest) == {[p |-> m.p, to |-> m.to, type |-> m.type]}

(* Slip: the error is not thrown again.                                    *)
SwallowedBy(rest) == rest

RethrownTo(rest) ==
  IF rest = <<>> THEN <<>>
  ELSE <<[Head(rest) EXCEPT !.at = "failed", !.out = <<>>]>> \o Tail(rest)

(* raiseRepeatedFailureEscalation; the error is thrown again, inside the   *)
(* dispatch of the message this one came from.                             *)
Escalate(c) ==
  /\ At(c, "failed") /\ ~TriesAgain(Top(c).attempt)
  /\ blockers' = blockers \cup Reported(Top(c).msg, Below(c))
  /\ calls' = [calls EXCEPT ![c] = RethrownTo(Below(c))]
  /\ UNCHANGED <<lifecycle, stores, pending, answered, captures, runs, faults>>

-----------------------------------------------------------------------------
(* What engineering does after its awaits on the workspace.                *)

Move(c, at, out) ==
  calls' = [calls EXCEPT ![c] = <<[Top(c) EXCEPT !.at = at, !.out = out]>> \o Below(c)]

(* applyLifecycleUpdate throws on an illegal transition.                   *)
Advance(c, event, at, out) ==
  LET p == Top(c).msg.p IN
  \/ /\ lifecycle[p] = Edge(event)[1]
     /\ SetPhase(p, Edge(event)[2])
     /\ Move(c, at, out)
  \/ /\ lifecycle[p] # Edge(event)[1]
     /\ Move(c, "failed", <<>>)
     /\ UNCHANGED lifecycle

Unshared == <<pending, answered, blockers, captures, runs>>

PlanWritten(c) ==
  /\ At(c, "plan")
  /\ Advance(c, "build_started", "log", <<>>)
  /\ UNCHANGED <<stores, Unshared, faults>>

HandoffLogged(c) ==
  /\ At(c, "log")
  /\ Advance(c, "final_validation_started", "report", <<>>)
  /\ UNCHANGED <<stores, Unshared, faults>>

ReportWritten(c) ==
  LET p == Top(c).msg.p IN
  /\ At(c, "report")
  /\ engineering' = [engineering EXCEPT ![p] = Top(c).ver]
  /\ Move(c, "send", <<Status(p, "engineering", "product"),
                       Status(p, "engineering", "pm"), Status(p, "engineering", "pm"),
                       Status(p, "engineering", "pm"),
                       Ask(p, "engineering", Top(c).ver)>>)
  /\ UNCHANGED <<lifecycle, sales, product, Unshared, faults>>

(* Slip: what is not rejected is approved.                                 *)
AcceptsUnlessRejected(d) == d # "reject"

Accepts(d) == d = "approve"

(* handleApprovalResponse; the state stored is the one read before.        *)
AnswerLogged(c) ==
  LET p == Top(c).msg.p
      d == Top(c).msg.decision
      Store(v) == engineering' = [engineering EXCEPT ![p] = v] IN
  /\ At(c, "audit")
  /\ \/ /\ Accepts(d)
        /\ Advance(c, "delivery_approved", "send",
             <<Status(p, "engineering", "pm"), Status(p, "engineering", "support"),
               Status(p, "engineering", "pm")>>)
        /\ IF lifecycle[p] = "qa" THEN Store(Top(c).ver) ELSE UNCHANGED engineering
     \/ /\ ~Accepts(d)
        /\ Store(IF d = "revise" THEN Top(c).ver + 1 ELSE Top(c).ver)
        /\ Move(c, "send", <<>>)
        /\ UNCHANGED lifecycle
  /\ UNCHANGED <<sales, product, Unshared, faults>>

(* A write to the workspace fails and the handler throws.                  *)
WriteFails(c) ==
  /\ ~Idle(c) /\ Top(c).at \in Waits
  /\ faults < MaxFaults
  /\ faults' = faults + 1
  /\ Move(c, "failed", <<>>)
  /\ UNCHANGED <<lifecycle, stores, Unshared>>

Step(c) ==
  \/ Dispatch(c) \/ Return(c) \/ Retry(c) \/ Escalate(c)
  \/ PlanWritten(c) \/ HandoffLogged(c) \/ ReportWritten(c) \/ AnswerLogged(c)
  \/ WriteFails(c)

Next ==
  \/ \E c \in Callers :
       \/ Step(c)
       \/ \E p \in Projects : CaptureLead(c, p)
       \/ \E r \in pending, d \in Decisions : Respond(c, r, d)
  \/ \E p \in Projects, h \in Heads : DepartmentRun(p, h)

(* A dispatch that can go on does: the event loop runs every continuation. *)
(* Nothing obliges the owner to answer or a lead to arrive.                *)
Fairness == \A c \in Callers : WF_vars(Step(c))

Spec == Init /\ [][Next]_vars /\ Fairness

-----------------------------------------------------------------------------
(* Types of the variables and shapes of the messages in flight.            *)
TypeOK ==
  /\ lifecycle \in [Projects -> Phases]
  /\ sales \in [Projects -> Decisions \cup {"none", "pending"}]
  /\ product \in [Projects -> [spec : Nat, last : Decisions \cup {"none"},
       handoff : {"not_sent", "awaiting_engineering_ack", "handoff_completed"}]]
  /\ engineering \in [Projects -> Nat]
  /\ pending \subseteq [p : Projects, from : Agents, gate : Gates, ver : Nat]
  /\ answered \subseteq [p : Projects, gate : Gates, ver : Nat, decision : Decisions]
  /\ blockers \subseteq [p : Projects, to : Agents, type : {"approval_response",
       "discovery_handoff", "lead_handoff", "status_update", "approval_request"}]
  /\ calls \in [Callers -> Seq(Frame)]
  /\ captures \in [Projects -> 0..MaxCaptures]
  /\ runs \in 0..MaxRuns
  /\ faults \in 0..MaxFaults

Approved(p, gate, ver) ==
  [p |-> p, gate |-> gate, ver |-> ver, decision |-> "approve"] \in answered

Granted(p) == {gate \in {"proposal_final", "spec_final", "delivery_final"} :
                 \E r \in answered : r.p = p /\ r.gate = gate /\ r.decision = "approve"}

(* A project is built only after the owner approved a spec for it, and     *)
(* delivered only after the owner approved a delivery: whatever handler    *)
(* runs again, and whichever call overtakes another, no phase behind a     *)
(* gate is reached without the owner.                                      *)
GatesAreOpened ==
  \A p \in Projects :
    /\ lifecycle[p] \in {"implementation", "qa", "delivered"} => "spec_final" \in Granted(p)
    /\ lifecycle[p] = "delivered" => "delivery_final" \in Granted(p)

(* What is built and what is delivered is the very version the owner was   *)
(* asked about, not a later one (handleApprovalResponse compares request   *)
(* ids; the product agent does not).                                       *)
ApprovedAsBuilt ==
  [][\A p \in Projects :
       /\ lifecycle'[p] = "implementation" /\ lifecycle[p] # "implementation"
            => Approved(p, "spec_final", product[p].spec)
       /\ lifecycle'[p] = "delivered" /\ lifecycle[p] # "delivered"
            => Approved(p, "delivery_final", engineering[p])]_vars

(* A request the owner can still answer is about the version its agent     *)
(* holds: no answer of the owner is thrown away or taken for another.      *)
RequestsAreCurrent ==
  \A r \in pending :
    /\ r.from = "sales" => sales[r.p] = "pending"
    /\ r.from = "product" => r.ver = product[r.p].spec
    /\ r.from = "engineering" => r.ver = engineering[r.p]

Busy(p) == \E c \in Callers : \E i \in 1..Len(calls[c]) : calls[c][i].msg.p = p

(* A build that stopped half-way (a write failed after build_started, so   *)
(* no retry can start it again) is on the owner's list of blockers.        *)
HalfBuildIsReported ==
  \A p \in Projects :
    lifecycle[p] \in {"implementation", "qa"} /\ engineering[p] = 0 /\ ~Busy(p)
      => [p |-> p, to |-> "engineering", type |-> "discovery_handoff"] \in blockers

Effect(p, agent) ==
  \/ agent = "sales" /\ product[p].spec # 0
  \/ agent = "product" /\ engineering[p] # 0
  \/ agent = "engineering" /\ lifecycle[p] = "delivered"
  \/ agent \in {"ceo", "marketing", "pm", "support"}

(* A call that brings an approval to an agent and returns without an error *)
(* has had its effect on the next agent down the line, however often the   *)
(* bus ran the handlers on the way: the answered request is gone, so an    *)
(* error that is swallowed loses the owner's decision.                     *)
ReturnedAnswersTookEffect ==
  [][\A c \in Callers :
       /\ Len(calls[c]) = 1 /\ calls'[c] = <<>> /\ At(c, "send")
       /\ Top(c).msg.decision = "approve"
       => Effect(Top(c).msg.p, Top(c).msg.to)]_vars

(* Every call into the runtime ends: retries inside retries run out.       *)
CallsEnd == \A c \in Callers : ~Idle(c) ~> Idle(c)

(* The pipeline implements the gated lifecycle.                            *)
Gated == INSTANCE GatedLifecycle
  WITH phase <- lifecycle, granted <- [p \in Projects |-> Granted(p)]

ImplementsGates == Gated!Spec

=============================================================================
