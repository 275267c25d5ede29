----------------------- MODULE DeliveryPipelineProofs -----------------------
(***************************************************************************)
(* No phase behind a gate without the owner: GatesAreOpened for every      *)
(* number of projects, callers, leads, department runs and failing writes, *)
(* and every limit on the attempts of a dispatch.                          *)
(*                                                                         *)
(* The argument: what the owner has answered only grows, and a message     *)
(* that takes a project through a gate is only ever sent on an answer.     *)
(* Good messages, frames and stores are therefore stated relative to a set *)
(* of answers, kept by every handler for the answers there are, and kept   *)
(* when there are more.                                                    *)
(***************************************************************************)
EXTENDS DeliveryPipeline, TLAPS

Response == [p : Projects, gate : Gates, ver : Nat, decision : Decisions]

(* The answers in a approve a gate of project p.                           *)
Allows(a, p, gate) ==
  \E r \in a : r.p = p /\ r.gate = gate /\ r.decision = "approve"

GoodMessage(a) ==
  {m \in Message :
     /\ m.type = "discovery_handoff" => Allows(a, m.p, "spec_final")
     /\ m.type = "approval_response" /\ m.decision = "approve" =>
          /\ m.to = "product" => Allows(a, m.p, "spec_final")
          /\ m.to = "engineering" => Allows(a, m.p, "delivery_final")}

GoodFrame(a) ==
  {f \in [msg : GoodMessage(a), attempt : 1..MaxAttempts, at : Waits \cup {"send", "failed"},
          out : Seq(GoodMessage(a)), ver : Nat] :
     /\ f.at \in {"plan", "log", "report"} => f.msg.type = "discovery_handoff"
     /\ f.at = "audit" => f.msg.type = "approval_response" /\ f.msg.to = "engineering"}

GoodStacks(a) == calls \in [Callers -> Seq(GoodFrame(a))]

ProductState ==
  [spec : Nat, last : Decisions \cup {"none"},
   handoff : {"not_sent", "awaiting_engineering_ack", "handoff_completed"}]

StoreTypes ==
  /\ lifecycle \in [Projects -> Phases]
  /\ sales \in [Projects -> Decisions \cup {"none", "pending"}]
  /\ product \in [Projects -> ProductState]
  /\ engineering \in [Projects -> Nat]

GoodStores(a) ==
  /\ StoreTypes
  /\ \A p \in Projects :
       /\ product[p].last = "approve" => Allows(a, p, "spec_final")
       /\ lifecycle[p] \in {"implementation", "qa", "delivered"} => Allows(a, p, "spec_final")
       /\ lifecycle[p] = "delivered" => Allows(a, p, "delivery_final")

GoodRequest ==
  {r \in [p : Projects, from : Agents, gate : Gates, ver : Nat] : r.gate = GateOf(r.from)}

Blockers == [p : Projects, to : Agents,
             type : {"approval_response", "discovery_handoff", "lead_handoff",
                     "status_update", "approval_request"}]

Counters ==
  /\ blockers \subseteq Blockers
  /\ captures \in [Projects -> 0..MaxCaptures]
  /\ runs \in 0..MaxRuns
  /\ faults \in 0..MaxFaults

GateInv ==
  /\ GoodStores(answered)
  /\ GoodStacks(answered)
  /\ pending \subseteq GoodRequest
  /\ answered \subseteq Response
  /\ Counters

-----------------------------------------------------------------------------
(* Messages and frames.                                                    *)

LEMMA GateOfAgent ==
  ASSUME NEW agent \in Agents
  PROVE  /\ GateOf(agent) \in Gates
         /\ agent = "product" <=> GateOf(agent) = "spec_final"
         /\ agent = "engineering" <=> GateOf(agent) = "delivery_final"
BY DEF GateOf, Gates, Agents

(* Notes other than answers and handoffs to engineering open no gate.      *)
LEMMA NoteIsGood ==
  ASSUME NEW a, NEW p \in Projects, NEW from \in Agents, NEW to \in Agents,
         NEW type \in {"status_update", "lead_handoff", "discovery_handoff"},
         type = "discovery_handoff" => Allows(a, p, "spec_final")
  PROVE  Note(p, from, to, type) \in GoodMessage(a)
BY DEF Note, GoodMessage, Message, Gates, Decisions

LEMMA StatusIsGood ==
  ASSUME NEW a, NEW p \in Projects, NEW from \in Agents, NEW to \in Agents
  PROVE  Status(p, from, to) \in GoodMessage(a)
BY NoteIsGood DEF Status

LEMMA AskIsGood ==
  ASSUME NEW a, NEW p \in Projects, NEW from \in Agents, NEW ver \in Nat
  PROVE  Ask(p, from, ver) \in GoodMessage(a)
BY GateOfAgent DEF Ask, Note, GoodMessage, Message, Gates, Decisions, Agents

(* The message of an answer that is recorded is good.                      *)
LEMMA AnswerIsGood ==
  ASSUME NEW a, NEW r \in GoodRequest, NEW d \in Decisions,
         [p |-> r.p, gate |-> r.gate, ver |-> r.ver, decision |-> d] \in a
  PROVE  Answer(r, d) \in GoodMessage(a)
<1> DEFINE m == Answer(r, d)
<1>1. m = [type |-> "approval_response", from |-> "ceo", to |-> r.from, p |-> r.p,
           ver |-> r.ver, gate |-> r.gate, decision |-> d]
  BY DEF Answer
<1>2. m \in Message
  BY <1>1 DEF Message, GoodRequest, Agents
<1>3. ASSUME d = "approve" PROVE Allows(a, r.p, r.gate)
  BY <1>3 DEF Allows
<1>4. r.from \in Agents /\ r.gate = GateOf(r.from)
  BY DEF GoodRequest
<1> QED  BY <1>1, <1>2, <1>3, <1>4, GateOfAgent DEF GoodMessage

(* More answers make no good message, frame or store bad.                  *)
LEMMA MoreAnswers ==
  ASSUME NEW a, NEW b, a \subseteq b
  PROVE  /\ GoodMessage(a) \subseteq GoodMessage(b)
         /\ GoodFrame(a) \subseteq GoodFrame(b)
         /\ GoodStores(a) => GoodStores(b)
         /\ GoodStacks(a) => GoodStacks(b)
<1>1. \A p, gate : Allows(a, p, gate) => Allows(b, p, gate)
  BY DEF Allows
<1>2. GoodMessage(a) \subseteq GoodMessage(b)
  BY <1>1 DEF GoodMessage
<1>3. Seq(GoodMessage(a)) \subseteq Seq(GoodMessage(b))
  BY <1>2
<1>4. GoodFrame(a) \subseteq GoodFrame(b)
  BY <1>2, <1>3 DEF GoodFrame
<1>5. Seq(GoodFrame(a)) \subseteq Seq(GoodFrame(b))
  BY <1>4
<1>6. GoodStacks(a) => GoodStacks(b)
  BY <1>5 DEF GoodStacks
<1>7. GoodStores(a) => GoodStores(b)
  BY <1>1 DEF GoodStores
<1> QED  BY <1>2, <1>4, <1>6, <1>7

(* A frame put on a good stack leaves a good stack.                        *)
LEMMA PushIsGood ==
  ASSUME NEW a, NEW c \in Callers, NEW rest \in Seq(GoodFrame(a)),
         NEW m \in GoodMessage(a), NEW k \in 1..MaxAttempts,
         NEW at \in Waits \cup {"send", "failed"}, NEW out \in Seq(GoodMessage(a)), NEW ver \in Nat,
         at \in {"plan", "log", "report"} => m.type = "discovery_handoff",
         at = "audit" => m.type = "approval_response" /\ m.to = "engineering",
         GoodStacks(a),
         Push(c, rest, m, k, at, out, ver)
  PROVE  GoodStacks(a)'
<1> DEFINE f == [msg |-> m, attempt |-> k, at |-> at, out |-> out, ver |-> ver]
<1>1. f \in GoodFrame(a)
  BY DEF GoodFrame
<1>2. <<f>> \o rest \in Seq(GoodFrame(a))
  BY <1>1
<1> QED  BY <1>2 DEF Push, GoodStacks

LEMMA SendsIsGood ==
  ASSUME NEW a, NEW c \in Callers, NEW rest \in Seq(GoodFrame(a)),
         NEW m \in GoodMessage(a), NEW k \in 1..MaxAttempts,
         NEW out \in Seq(GoodMessage(a)), GoodStacks(a), Sends(c, rest, m, k, out)
  PROVE  GoodStacks(a)'
<1>1. Push(c, rest, m, k, "send", out, 0)
  BY DEF Sends
<1> QED  BY <1>1, PushIsGood

-----------------------------------------------------------------------------
(* The handlers.                                                           *)

LEMMA SalesAnswerKeeps ==
  ASSUME NEW a, NEW c \in Callers, NEW rest \in Seq(GoodFrame(a)), NEW m \in GoodMessage(a),
         NEW k \in 1..MaxAttempts, GoodStacks(a), GoodStores(a), SalesAnswer(c, rest, m, k)
  PROVE  GoodStacks(a)' /\ GoodStores(a)'
<1>1. m.p \in Projects /\ m.type = "approval_response" /\ m.decision \in Decisions \cup {"none"}
  BY DEF GoodMessage, Message, SalesAnswer
<1>2. StoreTypes'
  <2>1. Try(Try(Try(lifecycle[m.p], "lead_qualified"), "proposal_sent"), "deal_won") \in Phases
    BY <1>1 DEF Try, Edge, Phases, GoodStores, StoreTypes
  <2>2. lifecycle' \in [Projects -> Phases]
    BY <1>1, <2>1 DEF SalesAnswer, SetPhase, GoodStores, StoreTypes
  <2>3. sales' \in [Projects -> Decisions \cup {"none", "pending"}]
    BY <1>1 DEF SalesAnswer, GoodStores, StoreTypes
  <2> QED  BY <2>2, <2>3 DEF SalesAnswer, GoodStores, StoreTypes
<1>3. \A p \in Projects : lifecycle'[p] \in {"implementation", "qa", "delivered"}
                             => lifecycle'[p] = lifecycle[p]
  <2> SUFFICES ASSUME NEW p \in Projects,
                      lifecycle'[p] \in {"implementation", "qa", "delivered"}
               PROVE  lifecycle'[p] = lifecycle[p]
    OBVIOUS
  <2>1. CASE lifecycle' = lifecycle
    BY <2>1
  <2>2. CASE SetPhase(m.p, Try(Try(Try(lifecycle[m.p], "lead_qualified"),
                                   "proposal_sent"), "deal_won"))
    BY <1>1, <2>2 DEF SetPhase, Try, Edge, GoodStores, StoreTypes
  <2> QED  BY <2>1, <2>2 DEF SalesAnswer
<1>4. GoodStores(a)'
  BY <1>2, <1>3 DEF GoodStores, SalesAnswer
<1>5. PICK out : /\ Sends(c, rest, m, k, out)
                 /\ \/ out = <<>>
                    \/ out = <<Note(m.p, "sales", "product", "lead_handoff"),
                               Status(m.p, "sales", "pm")>>
  BY DEF SalesAnswer
<1>6. out \in Seq(GoodMessage(a))
  <2>1. Note(m.p, "sales", "product", "lead_handoff") \in GoodMessage(a)
    BY <1>1, NoteIsGood DEF Agents
  <2>2. Status(m.p, "sales", "pm") \in GoodMessage(a)
    BY <1>1, StatusIsGood DEF Agents
  <2>3. <<>> \in Seq(GoodMessage(a))
    OBVIOUS
  <2>4. <<Note(m.p, "sales", "product", "lead_handoff"), Status(m.p, "sales", "pm")>>
           \in Seq(GoodMessage(a))
    BY <2>1, <2>2
  <2> QED  BY <1>5, <2>3, <2>4
<1> QED  BY <1>4, <1>5, <1>6, SendsIsGood

LEMMA ProductLeadKeeps ==
  ASSUME NEW a, NEW c \in Callers, NEW rest \in Seq(GoodFrame(a)), NEW m \in GoodMessage(a),
         NEW k \in 1..MaxAttempts, GoodStacks(a), GoodStores(a), ProductLead(c, rest, m, k)
  PROVE  GoodStacks(a)' /\ GoodStores(a)'
<1> DEFINE spec == product[m.p].spec + 1
<1>1. m.p \in Projects
  BY DEF GoodMessage, Message
<1>2. spec \in Nat
  BY <1>1 DEF GoodStores, StoreTypes, ProductState
<1> HIDE DEF spec
<1>3. StoreTypes' /\ \A p \in Projects : product'[p].last = product[p].last
  <2> DEFINE state == [product[m.p] EXCEPT !.spec = spec, !.handoff = "not_sent"]
  <2>1. product' = [product EXCEPT ![m.p] = state] /\ UNCHANGED <<sales, engineering>>
    BY DEF ProductLead, spec
  <2>2. product[m.p] \in ProductState
    BY <1>1 DEF GoodStores, StoreTypes
  <2>3. state \in ProductState /\ state.last = product[m.p].last
    BY <1>2, <2>2 DEF ProductState
  <2> HIDE DEF state
  <2>4. lifecycle' \in [Projects -> Phases]
    BY DEF ProductLead, SetPhase, GoodStores, StoreTypes, Phases
  <2>5. product' \in [Projects -> ProductState]
    BY <2>1, <2>3 DEF GoodStores, StoreTypes
  <2>6. \A p \in Projects : product'[p].last = product[p].last
    BY <1>1, <2>1, <2>3 DEF GoodStores, StoreTypes
  <2> QED  BY <2>1, <2>4, <2>5, <2>6 DEF GoodStores, StoreTypes
<1>4. \A p \in Projects : lifecycle'[p] = "discovery" \/ lifecycle'[p] = lifecycle[p]
  BY <1>1 DEF ProductLead, SetPhase, GoodStores, StoreTypes
<1>5. GoodStores(a)'
  BY <1>3, <1>4 DEF GoodStores
<1>6. Status(m.p, "product", "pm") \in GoodMessage(a)
  BY <1>1, StatusIsGood DEF Agents
<1>7. Ask(m.p, "product", spec) \in GoodMessage(a)
  BY <1>1, <1>2, AskIsGood DEF Agents
<1>8. <<Status(m.p, "product", "pm"), Status(m.p, "product", "pm"),
        Ask(m.p, "product", spec)>> \in Seq(GoodMessage(a))
  BY <1>6, <1>7
<1> QED  BY <1>5, <1>8, SendsIsGood DEF ProductLead, spec

LEMMA ProductAnswerKeeps ==
  ASSUME NEW a, NEW c \in Callers, NEW rest \in Seq(GoodFrame(a)), NEW m \in GoodMessage(a),
         NEW k \in 1..MaxAttempts, GoodStacks(a), GoodStores(a), ProductAnswer(c, rest, m, k)
  PROVE  GoodStacks(a)' /\ GoodStores(a)'
<1>1. m.p \in Projects /\ m.decision \in Decisions \cup {"none"}
  BY DEF GoodMessage, Message
<1>2. m.decision = "approve" => Allows(a, m.p, "spec_final")
  BY DEF GoodMessage, ProductAnswer
<1>3. Decided(product[m.p], m.decision) \in ProductState
  BY <1>1 DEF Decided, GoodStores, StoreTypes, ProductState
<1>4. Decided(product[m.p], m.decision).last = m.decision
  BY DEF Decided
<1>5. StoreTypes'
  BY <1>1, <1>3 DEF ProductAnswer, GoodStores, StoreTypes
<1>6. GoodStores(a)'
  BY <1>1, <1>2, <1>4, <1>5 DEF ProductAnswer, GoodStores, StoreTypes
<1>7. Onward(m) \in Seq(GoodMessage(a))
  <2>1. CASE m.decision = "approve"
    <3>1. Status(m.p, "product", "pm") \in GoodMessage(a)
      BY <1>1, StatusIsGood DEF Agents
    <3>2. Note(m.p, "product", "engineering", "discovery_handoff") \in GoodMessage(a)
      BY <1>1, <1>2, <2>1, NoteIsGood DEF Agents
    <3> QED  BY <2>1, <3>1, <3>2 DEF Onward
  <2>2. CASE m.decision # "approve"
    BY <2>2 DEF Onward
  <2> QED  BY <2>1, <2>2
<1> QED  BY <1>6, <1>7, SendsIsGood DEF ProductAnswer

LEMMA ProductAckKeeps ==
  ASSUME NEW a, NEW c \in Callers, NEW rest \in Seq(GoodFrame(a)), NEW m \in GoodMessage(a),
         NEW k \in 1..MaxAttempts, GoodStacks(a), GoodStores(a), ProductAck(c, rest, m, k)
  PROVE  GoodStacks(a)' /\ GoodStores(a)'
<1>1. m.p \in Projects
  BY DEF GoodMessage, Message
<1>2. GoodStores(a)'
  <2>1. CASE UNCHANGED <<product, lifecycle>>
    BY <2>1 DEF ProductAck, GoodStores, StoreTypes
  <2>2. CASE /\ product[m.p].last = "approve"
             /\ product' = [product EXCEPT ![m.p].handoff = "handoff_completed"]
             /\ SetPhase(m.p, "implementation")
    <3>1. StoreTypes' /\ \A p \in Projects : product'[p].last = product[p].last
      <4> DEFINE state == [product[m.p] EXCEPT !.handoff = "handoff_completed"]
      <4>1. product' = [product EXCEPT ![m.p] = state]
        BY <2>2
      <4>2. product[m.p] \in ProductState
        BY <1>1 DEF GoodStores, StoreTypes
      <4>3. state \in ProductState /\ state.last = product[m.p].last
        BY <4>2 DEF ProductState
      <4> HIDE DEF state
      <4>4. lifecycle' \in [Projects -> Phases]
        BY <2>2 DEF SetPhase, GoodStores, StoreTypes, Phases
      <4>5. product' \in [Projects -> ProductState]
        BY <4>1, <4>3 DEF GoodStores, StoreTypes
      <4>6. \A p \in Projects : product'[p].last = product[p].last
        BY <1>1, <4>1, <4>3 DEF GoodStores, StoreTypes
      <4> QED  BY <4>4, <4>5, <4>6 DEF ProductAck, GoodStores, StoreTypes
    <3>2. \A p \in Projects : p # m.p => lifecycle'[p] = lifecycle[p]
      BY <2>2 DEF SetPhase, GoodStores, StoreTypes
    <3>3. lifecycle'[m.p] = "implementation" /\ Allows(a, m.p, "spec_final")
      BY <1>1, <2>2 DEF SetPhase, GoodStores, StoreTypes
    <3> QED  BY <3>1, <3>2, <3>3 DEF GoodStores
  <2> QED  BY <2>1, <2>2 DEF ProductAck
<1>3. <<>> \in Seq(GoodMessage(a))
  OBVIOUS
<1> QED  BY <1>2, <1>3, SendsIsGood DEF ProductAck

(* Handlers that leave the stores alone.                                   *)
LEMMA OthersKeep ==
  ASSUME NEW a, NEW c \in Callers, NEW rest \in Seq(GoodFrame(a)), NEW m \in GoodMessage(a),
         NEW k \in 1..MaxAttempts, GoodStacks(a), GoodStores(a),
         \/ EngineeringHandoff(c, rest, m, k)
         \/ EngineeringAnswer(c, rest, m, k)
         \/ StrayAnswer(c, rest, m, k)
         \/ Bystander(c, rest, m, k)
  PROVE  GoodStacks(a)' /\ GoodStores(a)'
<1>1. m.p \in Projects
  BY DEF GoodMessage, Message
<1>2. engineering[m.p] \in Nat
  BY <1>1 DEF GoodStores, StoreTypes
<1>3. GoodStores(a)'
  BY DEF EngineeringHandoff, EngineeringAnswer, StrayAnswer, Bystander, stores,
         GoodStores, StoreTypes
<1>4. <<>> \in Seq(GoodMessage(a))
  OBVIOUS
<1>5. CASE EngineeringHandoff(c, rest, m, k)
  <2>1. CASE Sends(c, rest, m, k, <<>>)
    BY <1>3, <1>4, <2>1, SendsIsGood
  <2>2. ASSUME NEW ver \in Nat, Push(c, rest, m, k, "plan", <<>>, ver)
        PROVE  GoodStacks(a)'
    <3>1. "plan" \in Waits \cup {"send", "failed"} /\ m.type = "discovery_handoff"
      BY <1>5 DEF EngineeringHandoff, Waits
    <3> QED  BY <1>4, <2>2, <3>1, PushIsGood
  <2>3. \/ Sends(c, rest, m, k, <<>>)
        \/ \E ver \in Nat : Push(c, rest, m, k, "plan", <<>>, ver)
    BY <1>2, <1>5 DEF EngineeringHandoff, Push
  <2> QED  BY <1>3, <2>1, <2>2, <2>3
<1>6. CASE EngineeringAnswer(c, rest, m, k)
  BY <1>2, <1>3, <1>4, <1>6, PushIsGood DEF EngineeringAnswer, Waits
<1>7. CASE StrayAnswer(c, rest, m, k)
  BY <1>3, <1>4, <1>7, PushIsGood DEF StrayAnswer, Throws
<1>8. CASE Bystander(c, rest, m, k)
  BY <1>3, <1>4, <1>8, SendsIsGood DEF Bystander
<1> QED  BY <1>5, <1>6, <1>7, <1>8

LEMMA HandleKeeps ==
  ASSUME NEW a, NEW c \in Callers, NEW rest \in Seq(GoodFrame(a)), NEW m \in GoodMessage(a),
         NEW k \in 1..MaxAttempts, GoodStacks(a), GoodStores(a), Handle(c, rest, m, k)
  PROVE  GoodStacks(a)' /\ GoodStores(a)'
BY SalesAnswerKeeps, ProductLeadKeeps, ProductAnswerKeeps, ProductAckKeeps, OthersKeep
   DEF Handle

-----------------------------------------------------------------------------
(* The steps.                                                              *)

(* The newest frame of a call, and what is below it.                       *)
LEMMA TopIsGood ==
  ASSUME NEW a, NEW c \in Callers, GoodStacks(a), ~Idle(c)
  PROVE  /\ Top(c) \in GoodFrame(a)
         /\ Below(c) \in Seq(GoodFrame(a))
         /\ Top(c).msg \in GoodMessage(a)
         /\ Top(c).msg.p \in Projects
         /\ Top(c).attempt \in 1..MaxAttempts
         /\ Top(c).ver \in Nat
         /\ Top(c).out \in Seq(GoodMessage(a))
<1>1. calls[c] \in Seq(GoodFrame(a)) /\ calls[c] # <<>>
  BY DEF GoodStacks, Idle
<1>2. Top(c) \in GoodFrame(a) /\ Below(c) \in Seq(GoodFrame(a))
  BY <1>1 DEF Top, Below
<1> QED  BY <1>2 DEF GoodFrame, GoodMessage, Message

(* A frame that goes on with good messages to send.                        *)
LEMMA MoveIsGood ==
  ASSUME NEW a, NEW c \in Callers, GoodStacks(a), ~Idle(c),
         NEW at \in Waits \cup {"send", "failed"}, NEW out \in Seq(GoodMessage(a)),
         at \in {"plan", "log", "report"} => Top(c).at \in {"plan", "log", "report"},
         at # "audit",
         Move(c, at, out)
  PROVE  GoodStacks(a)'
<1> DEFINE f == [Top(c) EXCEPT !.at = at, !.out = out]
<1>1. f \in GoodFrame(a)
  BY TopIsGood DEF GoodFrame
<1>2. <<f>> \o Below(c) \in Seq(GoodFrame(a))
  BY <1>1, TopIsGood
<1> QED  BY <1>2 DEF Move, GoodStacks

(* The registry's part of a handler that goes on after an await.           *)
LEMMA AdvanceKeeps ==
  ASSUME NEW a, NEW c \in Callers, GoodStacks(a), GoodStores(a), ~Idle(c),
         NEW event \in {"build_started", "final_validation_started", "delivery_approved"},
         NEW at \in {"send", "log", "report"}, NEW out \in Seq(GoodMessage(a)),
         at # "send" => Top(c).at \in {"plan", "log", "report"},
         event = "build_started" => Allows(a, Top(c).msg.p, "spec_final"),
         event = "delivery_approved" => Allows(a, Top(c).msg.p, "delivery_final"),
         Advance(c, event, at, out), UNCHANGED product,
         sales' \in [Projects -> Decisions \cup {"none", "pending"}],
         engineering' \in [Projects -> Nat]
  PROVE  GoodStacks(a)' /\ GoodStores(a)'
<1> DEFINE p == Top(c).msg.p
<1>1. p \in Projects
  BY TopIsGood
<1>2. CASE /\ lifecycle[p] = Edge(event)[1]
           /\ SetPhase(p, Edge(event)[2])
           /\ Move(c, at, out)
  <2>1. GoodStacks(a)'
    BY <1>2, MoveIsGood DEF Waits
  <2>2. lifecycle' = [lifecycle EXCEPT ![p] = Edge(event)[2]]
    BY <1>2 DEF SetPhase
  <2>3. /\ Edge(event)[2] \in {"implementation", "qa", "delivered"}
        /\ event = "build_started" \/ lifecycle[p] \in {"implementation", "qa"}
        /\ Edge(event)[2] = "delivered" => event = "delivery_approved"
    BY <1>2 DEF Edge
  <2>4. Allows(a, p, "spec_final")
    BY <1>1, <2>3 DEF GoodStores
  <2>5. lifecycle' \in [Projects -> Phases]
    BY <1>1, <2>2, <2>3 DEF GoodStores, StoreTypes, Phases
  <2>6. \A q \in Projects : q # p => lifecycle'[q] = lifecycle[q]
    BY <2>2 DEF GoodStores, StoreTypes
  <2>7. lifecycle'[p] = Edge(event)[2]
    BY <1>1, <2>2 DEF GoodStores, StoreTypes
  <2> QED  BY <2>1, <2>3, <2>4, <2>5, <2>6, <2>7 DEF GoodStores, StoreTypes
<1>3. CASE Move(c, "failed", <<>>) /\ UNCHANGED lifecycle
  <2>1. <<>> \in Seq(GoodMessage(a))
    OBVIOUS
  <2>2. GoodStacks(a)'
    BY <1>3, <2>1, MoveIsGood DEF Waits
  <2> QED  BY <1>3, <2>2 DEF GoodStores, StoreTypes
<1> QED  BY <1>2, <1>3 DEF Advance

(* What a step of the bus or of engineering does to calls and stores.      *)
LEMMA StepKeeps ==
  ASSUME NEW a, NEW c \in Callers, GoodStacks(a), GoodStores(a), Step(c)
  PROVE  GoodStacks(a)' /\ GoodStores(a)'
<1> DEFINE p == Top(c).msg.p
<1>1. ~Idle(c)
  BY DEF Step, Dispatch, Return, Retry, Escalate, PlanWritten, HandoffLogged, ReportWritten,
         AnswerLogged, WriteFails, At
<1>2. /\ Top(c) \in GoodFrame(a)
      /\ Below(c) \in Seq(GoodFrame(a))
      /\ Top(c).msg \in GoodMessage(a)
      /\ p \in Projects
      /\ Top(c).attempt \in 1..MaxAttempts
      /\ Top(c).ver \in Nat
      /\ Top(c).out \in Seq(GoodMessage(a))
  BY <1>1, TopIsGood
<1>3. /\ Top(c).at \in {"plan", "log", "report"} => Top(c).msg.type = "discovery_handoff"
      /\ Top(c).at = "audit" =>
           Top(c).msg.type = "approval_response" /\ Top(c).msg.to = "engineering"
  BY <1>2 DEF GoodFrame
<1>4. <<>> \in Seq(GoodMessage(a))
  OBVIOUS
<1>5. StoreTypes
  BY DEF GoodStores
<1>6. CASE Dispatch(c)
  <2> DEFINE m == Head(Top(c).out)
             f == [Top(c) EXCEPT !.out = Tail(Top(c).out)]
  <2>1. m \in GoodMessage(a) /\ Tail(Top(c).out) \in Seq(GoodMessage(a))
    BY <1>2, <1>6 DEF Dispatch
  <2>2. f \in GoodFrame(a)
    BY <1>2, <2>1 DEF GoodFrame
  <2>3. <<f>> \o Below(c) \in Seq(GoodFrame(a))
    BY <1>2, <2>2
  <2>4. Handle(c, <<f>> \o Below(c), m, 1)
    BY <1>6 DEF Dispatch
  <2>5. 1 \in 1..MaxAttempts
    BY PipelineAssumption DEF PipelineAssumption
  <2> QED  BY <2>1, <2>3, <2>4, <2>5, HandleKeeps
<1>7. CASE Return(c)
  BY <1>2, <1>7 DEF Return, GoodStacks, GoodStores, StoreTypes, stores
<1>8. CASE Retry(c)
  <2>1. NextAttempt(Top(c).attempt) \in 1..MaxAttempts
    BY <1>2, <1>8, PipelineAssumption DEF Retry, TriesAgain, NextAttempt, PipelineAssumption
  <2> QED  BY <1>2, <1>8, <2>1, HandleKeeps DEF Retry
<1>9. CASE Escalate(c)
  <2>1. RethrownTo(Below(c)) \in Seq(GoodFrame(a))
    <3>1. CASE Below(c) = <<>>
      BY <3>1 DEF RethrownTo
    <3>2. CASE Below(c) # <<>>
      <4> DEFINE f == [Head(Below(c)) EXCEPT !.at = "failed", !.out = <<>>]
      <4>1. Head(Below(c)) \in GoodFrame(a) /\ Tail(Below(c)) \in Seq(GoodFrame(a))
        BY <1>2, <3>2
      <4>2. f \in GoodFrame(a)
        BY <1>4, <4>1 DEF GoodFrame
      <4>3. <<f>> \o Tail(Below(c)) \in Seq(GoodFrame(a))
        BY <4>1, <4>2
      <4> QED  BY <3>2, <4>3 DEF RethrownTo
    <3> QED  BY <3>1, <3>2
  <2> QED  BY <1>9, <2>1 DEF Escalate, GoodStacks, GoodStores, StoreTypes, stores
<1>10. CASE PlanWritten(c)
  <2>1. Advance(c, "build_started", "log", <<>>) /\ UNCHANGED stores /\ Top(c).at = "plan"
    BY <1>10 DEF PlanWritten, At
  <2>2. Allows(a, p, "spec_final")
    BY <1>2, <1>3, <2>1 DEF GoodMessage
  <2> QED  BY <1>1, <1>4, <1>5, <2>1, <2>2, AdvanceKeeps DEF stores, StoreTypes
<1>11. CASE HandoffLogged(c)
  <2>1. /\ Advance(c, "final_validation_started", "report", <<>>)
        /\ UNCHANGED stores /\ Top(c).at = "log"
    BY <1>11 DEF HandoffLogged, At
  <2> QED  BY <1>1, <1>4, <1>5, <2>1, AdvanceKeeps DEF stores, StoreTypes
<1>12. CASE ReportWritten(c)
  <2>1. \A to \in {"product", "pm"} : Status(p, "engineering", to) \in GoodMessage(a)
    BY <1>2, StatusIsGood DEF Agents
  <2>2. Ask(p, "engineering", Top(c).ver) \in GoodMessage(a)
    BY <1>2, AskIsGood DEF Agents
  <2>3. <<Status(p, "engineering", "product"), Status(p, "engineering", "pm"),
          Status(p, "engineering", "pm"), Status(p, "engineering", "pm"),
          Ask(p, "engineering", Top(c).ver)>> \in Seq(GoodMessage(a))
    BY <2>1, <2>2
  <2>4. Move(c, "send", <<Status(p, "engineering", "product"), Status(p, "engineering", "pm"),
          Status(p, "engineering", "pm"), Status(p, "engineering", "pm"),
          Ask(p, "engineering", Top(c).ver)>>)
    BY <1>12 DEF ReportWritten
  <2>5. PICK out \in Seq(GoodMessage(a)) : Move(c, "send", out)
    BY <2>3, <2>4
  <2>6. GoodStacks(a)'
    BY <1>1, <2>5, MoveIsGood DEF Waits
  <2> QED  BY <1>2, <1>12, <2>6 DEF ReportWritten, GoodStores, StoreTypes
<1>13. CASE AnswerLogged(c)
  <2>1. Top(c).at = "audit"
    BY <1>13 DEF AnswerLogged, At
  <2>2. engineering' \in [Projects -> Nat]
    <3>1. \/ UNCHANGED engineering
          \/ \E v \in Nat : engineering' = [engineering EXCEPT ![p] = v]
      BY <1>2, <1>13 DEF AnswerLogged
    <3> QED  BY <1>5, <3>1 DEF StoreTypes
  <2>3. CASE Accepts(Top(c).msg.decision)
    <3>1. \A to \in {"pm", "support"} : Status(p, "engineering", to) \in GoodMessage(a)
      BY <1>2, StatusIsGood DEF Agents
    <3>2. <<Status(p, "engineering", "pm"), Status(p, "engineering", "support"),
            Status(p, "engineering", "pm")>> \in Seq(GoodMessage(a))
      BY <3>1
    <3>3. Allows(a, p, "delivery_final")
      BY <1>2, <1>3, <2>1, <2>3 DEF GoodMessage, Accepts
    <3>4. /\ Advance(c, "delivery_approved", "send",
               <<Status(p, "engineering", "pm"), Status(p, "engineering", "support"),
                 Status(p, "engineering", "pm")>>)
          /\ UNCHANGED <<sales, product>>
      BY <1>13, <2>3 DEF AnswerLogged
    <3> QED  BY <1>1, <1>5, <2>2, <3>2, <3>3, <3>4, AdvanceKeeps DEF StoreTypes
  <2>4. CASE ~Accepts(Top(c).msg.decision)
    <3>1. GoodStacks(a)'
      BY <1>1, <1>4, <1>13, <2>4, MoveIsGood DEF AnswerLogged
    <3> QED  BY <1>13, <2>2, <2>4, <3>1 DEF AnswerLogged, GoodStores, StoreTypes
  <2> QED  BY <2>3, <2>4
<1>14. CASE WriteFails(c)
  BY <1>1, <1>4, <1>14, MoveIsGood DEF WriteFails, GoodStores, StoreTypes, stores, Waits
<1> QED
  BY <1>6, <1>7, <1>8, <1>9, <1>10, <1>11, <1>12, <1>13, <1>14 DEF Step

LEMMA InitIsGood == Init => GateInv
<1> SUFFICES ASSUME Init PROVE GateInv
  OBVIOUS
<1>1. GoodStores(answered)
  BY DEF Init, GoodStores, StoreTypes, ProductState, Phases
<1>2. GoodStacks(answered)
  BY DEF Init, GoodStacks
<1>3. Counters
  BY PipelineAssumption DEF Init, Counters, PipelineAssumption
<1> QED  BY <1>1, <1>2, <1>3 DEF Init, GateInv

(* What a step of a call leaves of the rest.                               *)
LEMMA StepCounts ==
  ASSUME GateInv, NEW c \in Callers, Step(c)
  PROVE  Counters' /\ pending' \subseteq GoodRequest /\ answered' = answered
<1>1. ~Idle(c)
  BY DEF Step, Dispatch, Return, Retry, Escalate, PlanWritten, HandoffLogged, ReportWritten,
         AnswerLogged, WriteFails, At
<1>2. Top(c).msg \in Message /\ Top(c).out \in Seq(GoodMessage(answered))
  BY <1>1, TopIsGood DEF GateInv, GoodMessage
<1>3. CASE Dispatch(c)
  <2> DEFINE m == Head(Top(c).out)
  <2>1. m \in Message
    BY <1>2, <1>3 DEF Dispatch, GoodMessage
  <2>2. Request(m.p, m.from, m.ver) \in GoodRequest
    BY <2>1, GateOfAgent DEF Message, Request, GoodRequest
  <2> QED  BY <1>3, <2>2 DEF Dispatch, Recorded, GateInv, Counters
<1>4. CASE Escalate(c)
  <2>1. Reported(Top(c).msg, Below(c)) \subseteq Blockers
    BY <1>2 DEF Reported, Blockers, Message
  <2> QED  BY <1>4, <2>1 DEF Escalate, GateInv, Counters
<1>5. CASE WriteFails(c)
  BY <1>5, PipelineAssumption DEF WriteFails, Unshared, GateInv, Counters, PipelineAssumption
<1> QED
  BY <1>3, <1>4, <1>5 DEF Step, Return, Retry, PlanWritten, HandoffLogged, ReportWritten,
     AnswerLogged, Unshared, GateInv, Counters

LEMMA NextIsGood == GateInv /\ [Next]_vars => GateInv'
<1> SUFFICES ASSUME GateInv, [Next]_vars PROVE GateInv'
  OBVIOUS
<1>1. ASSUME NEW c \in Callers, Step(c) PROVE GateInv'
  <2>1. GoodStacks(answered) /\ GoodStores(answered)
    BY DEF GateInv
  <2>2. Counters' /\ pending' \subseteq GoodRequest /\ answered' = answered
    BY <1>1, StepCounts
  <2>3. \A a : a = answered => GoodStacks(a)' /\ GoodStores(a)'
    BY <1>1, <2>1, StepKeeps
  <2> QED  BY <2>2, <2>3 DEF GateInv, GoodStacks, GoodStores
<1>2. ASSUME NEW c \in Callers, NEW p \in Projects, CaptureLead(c, p) PROVE GateInv'
  <2>1. GoodStores(answered)'
    <3>1. StoreTypes'
      BY <1>2 DEF CaptureLead, SetPhase, GateInv, GoodStores, StoreTypes, Phases
    <3>2. \A q \in Projects : lifecycle'[q] = "lead" \/ lifecycle'[q] = lifecycle[q]
      BY <1>2 DEF CaptureLead, SetPhase, GateInv, GoodStores, StoreTypes
    <3> QED  BY <1>2, <3>1, <3>2 DEF CaptureLead, GateInv, GoodStores, Allows
  <2>2. GoodStacks(answered)'
    <3>1. Status(p, "marketing", "sales") \in GoodMessage(answered)
      BY StatusIsGood DEF Agents
    <3>2. Ask(p, "sales", 1) \in GoodMessage(answered)
      BY AskIsGood DEF Agents
    <3>3. <<Ask(p, "sales", 1)>> \in Seq(GoodMessage(answered))
      BY <3>2
    <3>4. 1 \in 1..MaxAttempts /\ <<>> \in Seq(GoodFrame(answered))
      BY PipelineAssumption DEF PipelineAssumption
    <3>5. Sends(c, <<>>, Status(p, "marketing", "sales"), 1, <<Ask(p, "sales", 1)>>)
      BY <1>2 DEF CaptureLead
    <3>6. \A a : a = answered => GoodStacks(a)'
      BY <3>1, <3>3, <3>4, <3>5, SendsIsGood DEF GateInv
    <3> QED  BY <1>2, <3>6 DEF CaptureLead, GoodStacks
  <2>3. captures' \in [Projects -> 0..MaxCaptures]
    BY <1>2, PipelineAssumption DEF CaptureLead, GateInv, Counters, PipelineAssumption
  <2> QED  BY <1>2, <2>1, <2>2, <2>3 DEF CaptureLead, GateInv, Counters
<1>3. ASSUME NEW c \in Callers, NEW r \in pending, NEW d \in Decisions, Respond(c, r, d)
      PROVE  GateInv'
  <2> DEFINE answer == [p |-> r.p, gate |-> r.gate, ver |-> r.ver, decision |-> d]
  <2>1. r \in GoodRequest
    BY DEF GateInv
  <2>2. PICK a : a = answered'
    OBVIOUS
  <2>3. answered \subseteq a /\ answer \in a
    BY <1>3, <2>2 DEF Respond
  <2>4. GoodStacks(a) /\ GoodStores(a)
    BY <2>3, MoreAnswers DEF GateInv
  <2>5. Answer(r, d) \in GoodMessage(a)
    BY <2>1, <2>3, AnswerIsGood
  <2>6. 1 \in 1..MaxAttempts /\ <<>> \in Seq(GoodFrame(a))
    BY PipelineAssumption DEF PipelineAssumption
  <2>7. GoodStacks(a)' /\ GoodStores(a)'
    BY <1>3, <2>4, <2>5, <2>6, HandleKeeps DEF Respond
  <2>8. answered' \subseteq Response
    BY <1>3, <2>1 DEF Respond, GateInv, GoodRequest, Response
  <2>9. pending' \subseteq GoodRequest
    BY <1>3 DEF Respond, Without, GateInv
  <2> QED  BY <1>3, <2>2, <2>7, <2>8, <2>9 DEF Respond, GateInv, Counters, GoodStacks, GoodStores
<1>4. ASSUME NEW p \in Projects, NEW h \in Heads, DepartmentRun(p, h) PROVE GateInv'
  <2>1. Request(p, h, 0) \in GoodRequest
    BY GateOfAgent, PipelineAssumption DEF Request, GoodRequest, PipelineAssumption
  <2>2. runs' \in 0..MaxRuns
    BY <1>4, PipelineAssumption DEF DepartmentRun, GateInv, Counters, PipelineAssumption
  <2> QED
    BY <1>4, <2>1, <2>2 DEF DepartmentRun, stores, GateInv, Counters, GoodStacks, GoodStores,
       StoreTypes, Allows
<1>5. CASE UNCHANGED vars
  BY <1>5 DEF vars, stores, GateInv, Counters, GoodStacks, GoodStores, StoreTypes, Allows
<1> QED  BY <1>1, <1>2, <1>3, <1>4, <1>5 DEF Next

LEMMA GateInvHolds == Spec => []GateInv
BY InitIsGood, NextIsGood, PTL DEF Spec

-----------------------------------------------------------------------------
(* Types of the variables and of the messages in flight: whatever is sent, *)
(* sent again or left half done by the handlers (agentExecution.ts) is of  *)
(* the shape the next handler reads.                                       *)
THEOREM TypeCorrect == Spec => []TypeOK
<1>1. GateInv => TypeOK
  <2> SUFFICES ASSUME GateInv PROVE TypeOK
    OBVIOUS
  <2>1. GoodMessage(answered) \subseteq Message
    BY DEF GoodMessage
  <2>2. Seq(GoodMessage(answered)) \subseteq Seq(Message)
    BY <2>1
  <2>3. GoodFrame(answered) \subseteq Frame
    BY <2>1, <2>2 DEF GoodFrame, Frame
  <2>4. Seq(GoodFrame(answered)) \subseteq Seq(Frame)
    BY <2>3
  <2>5. calls \in [Callers -> Seq(Frame)]
    BY <2>4 DEF GateInv, GoodStacks
  <2> QED
    BY <2>5 DEF TypeOK, GateInv, GoodStores, StoreTypes, ProductState, GoodRequest, Response,
       Counters, Blockers
<1> QED  BY <1>1, GateInvHolds, PTL

(* A project is built only after the owner approved a spec for it, and     *)
(* delivered only after the owner approved a delivery, however often the   *)
(* message bus runs a handler again and however calls overlap at the       *)
(* awaits of engineering.                                                  *)
THEOREM GatesHold == Spec => []GatesAreOpened
<1>1. GateInv => GatesAreOpened
  BY DEF GateInv, GoodStores, GatesAreOpened, Granted, Allows
<1> QED  BY <1>1, GateInvHolds, PTL
=============================================================================
