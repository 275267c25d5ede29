------------------------- MODULE DeliveryFlowProofs -------------------------
(***************************************************************************)
(* What DeliveryPipeline guarantees when every project is captured once    *)
(* and no department run asks for the approval of a gate (OneLead): the    *)
(* requests the owner can answer are current, what is built and delivered  *)
(* is what was approved, a half build is reported, an approval that        *)
(* returns has had its effect, and the lifecycle is the gated one.         *)
(*                                                                         *)
(* The argument: a call then runs one of four errands of a project, the    *)
(* capture of its lead or the answer to one of its gates, and each errand  *)
(* is run once, by one call.  FlowStack says in which shapes the stack of  *)
(* an errand is found, and what of the project's books each shape relies   *)
(* on; Books says how far a project is, given the gates answered so far.   *)
(* A step of one errand leaves alone what the others rely on.              *)
(***************************************************************************)
EXTENDS DeliveryPipelineProofs

OneLead == MaxCaptures <= 1 /\ Heads \cap {"sales", "product", "engineering"} = {}

Main == {"sales", "product", "engineering"}
MainGates == {"proposal_final", "spec_final", "delivery_final"}

(* A stack's oldest frame, that of the errand, and the frame above it.     *)
Root(s) == s[Len(s)]
Child(s) == s[Len(s) - 1]

(* A handler that has nothing (more) to send.                              *)
Resting(f) == f.at = "send" /\ f.out = <<>>

Heard(p, gate) == \E r \in answered : r.p = p /\ r.gate = gate
IsPending(p, agent) == \E r \in pending : r.p = p /\ r.from = agent
Unasked(p, agent) == ~Heard(p, GateOf(agent)) /\ ~IsPending(p, agent)
Blocked(p) == [p |-> p, to |-> "engineering", type |-> "discovery_handoff"] \in blockers

Lead(p) == Note(p, "sales", "product", "lead_handoff")
Handoff(p) == Note(p, "product", "engineering", "discovery_handoff")
News(p) == {Status(p, "sales", "pm"), Status(p, "product", "pm"), Status(p, "engineering", "pm"),
            Status(p, "engineering", "support")}

(* Notices are sent first and the first request to the owner at last.      *)
AsksAtLast(out, p, agent, notices) ==
  \A k \in 1..Len(out) : IF k = Len(out) THEN out[k] = Ask(p, agent, 1) ELSE out[k] \in notices

(* The stack s of the capture of p.                                        *)
CaptureStack(s, p) ==
  LET b == Root(s) IN
  /\ b.msg = Status(p, "marketing", "sales") /\ b.at = "send"
  /\ captures[p] # 0
  /\ \/ Len(s) = 1 /\ b.out = <<Ask(p, "sales", 1)>> /\ Unasked(p, "sales")
     \/ Len(s) = 1 /\ b.out = <<>>
     \/ Len(s) = 2 /\ b.out = <<>> /\ Resting(s[1])

(* The product agent's handling of the lead.                               *)
LeadFrame(t, p) ==
  /\ t.msg = Lead(p) /\ t.at = "send"
  /\ AsksAtLast(t.out, p, "product", News(p))
  /\ t.out # <<>> => Unasked(p, "product")

(* The stack s of the answer to the proposal of p.                         *)
SalesStack(s, p) ==
  LET b == Root(s) IN
  /\ Heard(p, "proposal_final")
  /\ b.at = "send"
  /\ \/ b.msg.decision # "approve" /\ Len(s) = 1 /\ b.out = <<>>
     \/ /\ Len(s) = 1 /\ b.out = <<Lead(p), Status(p, "sales", "pm")>>
        /\ lifecycle[p] = "won" /\ product[p].spec = 0
     \/ /\ Len(s) \in {2, 3} /\ b.out = <<Status(p, "sales", "pm")>>
        /\ LeadFrame(Child(s), p) /\ product[p].spec # 0
        /\ Len(s) = 3 => Resting(s[1])
     \/ /\ product[p].spec # 0
        /\ \/ Len(s) = 1 /\ b.out \in {<<Status(p, "sales", "pm")>>, <<>>}
           \/ Len(s) = 2 /\ b.out = <<>> /\ Resting(s[1])

(* Engineering's handling of the handoff, until its report is written ...  *)
Building(t, p) ==
  /\ t.msg = Handoff(p) /\ t.out = <<>>
  /\ t.at \in {"plan", "log", "report", "failed"}
  /\ t.at # "failed" => t.ver = 1
  /\ t.at = "report" => lifecycle[p] = "qa"

(* ... and from then on.                                                   *)
Reporting(t, p) ==
  /\ t.msg = Handoff(p) /\ t.at = "send"
  /\ AsksAtLast(t.out, p, "engineering",
                News(p) \cup {Status(p, "engineering", "product")})
  /\ t.out # <<>> => Unasked(p, "engineering")

(* The stack s of the answer to the spec of p.                             *)
ProductStack(s, p) ==
  LET b == Root(s) IN
  /\ Heard(p, "spec_final")
  /\ \/ b.msg.decision # "approve" /\ Len(s) = 1 /\ Resting(b) /\ lifecycle[p] = "discovery"
     \/ /\ b.msg.decision = "approve"
        /\ product[p].spec = 1 /\ Approved(p, "spec_final", 1)
        /\ \/ /\ engineering[p] = 0 /\ b.at = "send"
              /\ \/ Len(s) = 1 /\ b.out = <<Status(p, "product", "pm"), Handoff(p)>>
                 \/ Len(s) = 1 /\ b.out = <<Handoff(p)>>
                 \/ Len(s) = 2 /\ b.out = <<Handoff(p)>> /\ Resting(s[1])
           \/ engineering[p] = 0 /\ Len(s) = 2 /\ Resting(b) /\ Building(Child(s), p)
           \/ engineering[p] = 0 /\ Len(s) = 1 /\ b.at = "failed" /\ Blocked(p)
           \/ /\ engineering[p] # 0 /\ Resting(b)
              /\ \/ Len(s) = 1
                 \/ /\ Len(s) \in {2, 3} /\ Reporting(Child(s), p)
                    /\ Len(s) = 3 => Resting(s[1])

(* The stack s of the answer to the delivery of p.                         *)
EngineeringStack(s, p) ==
  LET b == Root(s) IN
  /\ Heard(p, "delivery_final")
  /\ engineering[p] # 0
  /\ b.msg.ver = 1
  /\ b.msg.decision = "approve" => Approved(p, "delivery_final", 1)
  /\ \/ /\ Len(s) = 1 /\ b.at \in {"audit", "failed"} /\ b.out = <<>>
        /\ b.at = "audit" => b.ver = 1
        /\ engineering[p] = 1 /\ lifecycle[p] = "qa"
     \/ /\ b.at = "send"
        /\ \/ Len(s) = 1
           \/ Len(s) = 2 /\ Resting(s[1])
        /\ \A k \in 1..Len(b.out) : b.out[k] \in News(p)
        /\ b.msg.decision = "approve" => lifecycle[p] = "delivered"

(* The answer to a department run of a head with no gate of its own.       *)
OtherStack(s) == Len(s) = 1 /\ Resting(Root(s))

FlowStack(s) ==
  LET m == Root(s).msg IN
  \/ m.type = "status_update" /\ CaptureStack(s, m.p)
  \/ m.type = "approval_response" /\ m.to = "sales" /\ SalesStack(s, m.p)
  \/ m.type = "approval_response" /\ m.to = "product" /\ ProductStack(s, m.p)
  \/ m.type = "approval_response" /\ m.to = "engineering" /\ EngineeringStack(s, m.p)
  \/ m.type = "approval_response" /\ m.to \notin Main /\ OtherStack(s)

(* Call c runs the errand of an answer to the agent about p.               *)
Answering(c, p, agent) ==
  /\ calls[c] # <<>>
  /\ Root(calls[c]).msg.type = "approval_response"
  /\ Root(calls[c]).msg.to = agent /\ Root(calls[c]).msg.p = p

(* How far p is, by the gates that were answered.                          *)
Progress(p) ==
  /\ captures[p] = 0 => lifecycle[p] = "none" /\ Unasked(p, "sales")
  /\ captures[p] # 0 => lifecycle[p] # "none"
  /\ ~Heard(p, "proposal_final") => product[p].spec = 0
  /\ ~Heard(p, "proposal_final") /\ captures[p] # 0 => lifecycle[p] = "lead" /\ sales[p] = "pending"
  /\ product[p].spec = 0 => engineering[p] = 0 /\ Unasked(p, "product")
  /\ product[p].spec # 0 /\ ~Heard(p, "spec_final") =>
       product[p].spec = 1 /\ engineering[p] = 0 /\ lifecycle[p] = "discovery"
  /\ engineering[p] = 0 => Unasked(p, "engineering") /\ lifecycle[p] # "delivered"
  /\ engineering[p] # 0 => lifecycle[p] \in {"qa", "delivered"}
  /\ engineering[p] # 0 /\ ~Heard(p, "delivery_final") => engineering[p] = 1 /\ lifecycle[p] = "qa"

(* A half build is reported, or its call goes on.                          *)
HalfBuild(p) ==
  lifecycle[p] \in {"implementation", "qa"} /\ engineering[p] = 0 =>
    Blocked(p) \/ \E c \in Callers : Answering(c, p, "product")

SameErrand(m, n) == m.p = n.p /\ m.to = n.to /\ m.type = n.type /\ m.to \in Main

Stacks == \A c \in Callers : calls[c] # <<>> => FlowStack(calls[c])

OneCallPerErrand ==
  \A c, d \in Callers :
    calls[c] # <<>> /\ calls[d] # <<>> /\ SameErrand(Root(calls[c]).msg, Root(calls[d]).msg)
      => c = d

FirstRequests == \A r \in pending : r.from \in Main => r.ver = 1 /\ ~Heard(r.p, r.gate)

FlowInv ==
  /\ Stacks
  /\ OneCallPerErrand
  /\ FirstRequests
  /\ \A p \in Projects : Progress(p) /\ HalfBuild(p)

-----------------------------------------------------------------------------
(* Stacks.                                                                 *)

(* How stack z comes out of s: frame g put on it, over f in the place of   *)
(* the newest frame; f alone in its place; the newest frame taken away.    *)
Grown(s, z, g, f) ==
  /\ Len(z) = Len(s) + 1 /\ z # <<>> /\ z[1] = g
  /\ Len(s) = 1 => Root(z) = f /\ Child(z) = g
  /\ Len(s) = 2 => Root(z) = Root(s) /\ Child(z) = f

Changed(s, z, f) ==
  /\ Len(z) = Len(s) /\ z # <<>> /\ z[1] = f
  /\ Len(s) = 1 => Root(z) = f
  /\ Len(s) > 1 => Root(z) = Root(s)
  /\ Len(s) = 2 => Child(z) = f
  /\ Len(s) > 2 => Child(z) = Child(s)

Shrunk(s, z) ==
  /\ Len(z) = Len(s) - 1
  /\ Len(s) = 1 => z = <<>>
  /\ Len(s) > 1 => z # <<>> /\ Root(z) = Root(s)
  /\ Len(s) > 2 => Child(z) = Child(s)

LEMMA EmptyStack ==
  ASSUME NEW S, NEW s \in Seq(S)
  PROVE  Len(s) = 0 <=> s = <<>>
OBVIOUS

(* A frame put on stack r.                                                 *)
LEMMA Pushed ==
  ASSUME NEW S, NEW r \in Seq(S), NEW f
  PROVE  LET z == <<f>> \o r IN
         /\ Len(z) = Len(r) + 1 /\ z # <<>> /\ z[1] = f
         /\ Len(r) = 0 => Root(z) = f
         /\ Len(r) # 0 => Root(z) = Root(r)
         /\ Len(r) = 1 => Child(z) = f
         /\ Len(r) > 1 => Child(z) = Child(r)
<1> DEFINE z == <<f>> \o r
<1>1. Len(r) \in Nat /\ Len(z) = Len(r) + 1 /\ z[1] = f
  OBVIOUS
<1>2. \A i \in 1..Len(r) : z[i + 1] = r[i]
  OBVIOUS
<1>3. z # <<>>
  BY <1>1
<1> HIDE DEF z
<1>4. Len(r) # 0 => z[Len(r) + 1] = r[Len(r)]
  BY <1>1, <1>2
<1>5. Len(r) > 1 => z[(Len(r) - 1) + 1] = r[Len(r) - 1]
  BY <1>1, <1>2
<1>6. Len(z) - 1 = Len(r) /\ (Len(r) - 1) + 1 = Len(r)
  BY <1>1
<1>7. Len(r) = 1 => Child(z) = f
  BY <1>1, <1>6 DEF Child
<1>8. Len(r) > 1 => Child(z) = Child(r)
  BY <1>5, <1>6 DEF Child
<1>9. /\ Len(r) = 0 => Root(z) = f
      /\ Len(r) # 0 => Root(z) = Root(r)
  BY <1>1, <1>4 DEF Root
<1> QED  BY <1>1, <1>3, <1>7, <1>8, <1>9 DEF z

(* A stack without its newest frame.                                       *)
LEMMA Popped ==
  ASSUME NEW S, NEW s \in Seq(S), s # <<>>
  PROVE  /\ Tail(s) \in Seq(S) /\ Len(Tail(s)) = Len(s) - 1 /\ Len(s) \in Nat \ {0}
         /\ Head(s) = s[1]
         /\ Len(s) = 1 => Tail(s) = <<>> /\ Root(s) = s[1]
         /\ Len(s) > 1 => Tail(s) # <<>> /\ Root(Tail(s)) = Root(s)
         /\ Len(s) = 2 => Child(s) = s[1]
         /\ Len(s) > 2 => Child(Tail(s)) = Child(s)
<1> DEFINE r == Tail(s)
<1>1. /\ r \in Seq(S) /\ Len(s) \in Nat \ {0} /\ Len(r) = Len(s) - 1
      /\ Head(s) = s[1]
  OBVIOUS
<1>2. \A i \in 1..Len(r) : r[i] = s[i + 1]
  OBVIOUS
<1> HIDE DEF r
<1>3. Len(s) = 1 => r = <<>>
  BY <1>1, EmptyStack
<1>4. Len(s) > 1 => r # <<>>
  BY <1>1, EmptyStack
<1>5. Len(s) > 1 => r[Len(s) - 1] = s[(Len(s) - 1) + 1]
  BY <1>1, <1>2
<1>6. Len(s) > 2 => r[Len(s) - 2] = s[(Len(s) - 2) + 1]
  BY <1>1, <1>2
<1>7. (Len(s) - 1) + 1 = Len(s) /\ (Len(s) - 2) + 1 = Len(s) - 1 /\ Len(r) - 1 = Len(s) - 2
  BY <1>1
<1>8. Len(s) > 1 => Root(r) = Root(s)
  BY <1>1, <1>5, <1>7 DEF Root
<1>9. Len(s) > 2 => Child(r) = Child(s)
  BY <1>6, <1>7 DEF Child
<1>10. (Len(s) = 1 => Root(s) = s[1]) /\ (Len(s) = 2 => Child(s) = s[1])
  <2>1. Len(s) = 2 => Len(s) - 1 = 1
    OBVIOUS
  <2> QED  BY <2>1 DEF Root, Child
<1> QED  BY <1>1, <1>3, <1>4, <1>8, <1>9, <1>10 DEF r

(* A stack with another newest frame.                                      *)
LEMMA Replaced ==
  ASSUME NEW S, NEW s \in Seq(S), s # <<>>, NEW f
  PROVE  Changed(s, <<f>> \o Tail(s), f) /\ (f \in S => <<f>> \o Tail(s) \in Seq(S))
<1> DEFINE r == Tail(s)
           z == <<f>> \o r
<1>1. /\ r \in Seq(S) /\ Len(r) = Len(s) - 1 /\ Len(s) \in Nat \ {0}
      /\ Len(s) > 1 => Root(r) = Root(s)
      /\ Len(s) > 2 => Child(r) = Child(s)
  BY Popped
<1>2. f \in S => z \in Seq(S)
  BY <1>1
<1> HIDE DEF r
<1>3. /\ Len(z) = Len(r) + 1 /\ z # <<>> /\ z[1] = f
      /\ Len(r) = 0 => Root(z) = f
      /\ Len(r) # 0 => Root(z) = Root(r)
      /\ Len(r) = 1 => Child(z) = f
      /\ Len(r) > 1 => Child(z) = Child(r)
  BY <1>1, Pushed
<1>4. PICK n \in Nat \ {0} : Len(s) = n /\ Len(r) = n - 1
  BY <1>1
<1>5. /\ Len(r) + 1 = Len(s)
      /\ Len(s) = 1 => Len(r) = 0
      /\ Len(s) = 2 => Len(r) = 1
      /\ Len(s) > 1 => Len(r) # 0
      /\ Len(s) > 2 => Len(r) > 1
  BY <1>4
<1> HIDE DEF z
<1>6. Changed(s, z, f)
  BY <1>1, <1>3, <1>5 DEF Changed
<1>7. z = <<f>> \o Tail(s)
  BY DEF z, r
<1> QED  BY <1>2, <1>6, <1>7

Goes(c, z) == calls' = [calls EXCEPT ![c] = z]

(* The stack of a call that has not ended.                                 *)
LEMMA OpenCall ==
  ASSUME GateInv, NEW c \in Callers, calls[c] # <<>>
  PROVE  /\ calls[c] \in Seq(GoodFrame(answered)) /\ Len(calls[c]) \in Nat \ {0}
         /\ Top(c) = calls[c][1] /\ Below(c) = Tail(calls[c])
         /\ Top(c) \in GoodFrame(answered)
         /\ Root(calls[c]) \in GoodFrame(answered)
         /\ Root(calls[c]).msg \in Message /\ Root(calls[c]).msg.p \in Projects
         /\ Len(calls[c]) = 1 => Top(c) = Root(calls[c])
         /\ Len(calls[c]) = 2 => Top(c) = Child(calls[c])
<1>1. calls[c] \in Seq(GoodFrame(answered))
  BY DEF GateInv, GoodStacks
<1>2. Len(calls[c]) \in Nat \ {0} /\ Head(calls[c]) = calls[c][1]
  BY <1>1
<1>3. calls[c][1] \in GoodFrame(answered) /\ calls[c][Len(calls[c])] \in GoodFrame(answered)
  BY <1>1, <1>2
<1>4. Root(calls[c]).msg \in Message /\ Root(calls[c]).msg.p \in Projects
  BY <1>3 DEF Root, GoodFrame, GoodMessage, Message
<1>5. /\ Len(calls[c]) = 1 => calls[c][1] = Root(calls[c])
      /\ Len(calls[c]) = 2 => calls[c][1] = Child(calls[c])
  BY <1>1, Popped
<1> QED  BY <1>1, <1>2, <1>3, <1>4, <1>5 DEF Top, Below, Root

(* What a dispatch, a return, a retry and a move make of it.               *)
Sent(c) == [Top(c) EXCEPT !.out = Tail(Top(c).out)]

NewFrame(m, k, at, out, ver) ==
  [msg |-> m, attempt |-> k, at |-> at, out |-> out, ver |-> ver]

LEMMA DispatchGrows ==
  ASSUME GateInv, NEW c \in Callers, calls[c] # <<>>, Top(c).out # <<>>,
         NEW m, NEW at, NEW out, NEW ver,
         Push(c, <<Sent(c)>> \o Below(c), m, 1, at, out, ver)
  PROVE  \E z : Goes(c, z) /\ Grown(calls[c], z, NewFrame(m, 1, at, out, ver), Sent(c))
<1> DEFINE s == calls[c]
           r == <<Sent(c)>> \o Tail(s)
           g == NewFrame(m, 1, at, out, ver)
           z == <<g>> \o r
           S == GoodFrame(answered)
<1>1. s \in Seq(S) /\ Below(c) = Tail(s) /\ Top(c) \in S /\ Len(s) \in Nat \ {0}
  BY OpenCall
<1>2. Sent(c) \in S
  <2>1. Top(c).out \in Seq(GoodMessage(answered))
    BY <1>1 DEF GoodFrame
  <2>2. Tail(Top(c).out) \in Seq(GoodMessage(answered))
    BY <2>1
  <2> QED  BY <1>1, <2>2 DEF Sent, GoodFrame
<1>3. Goes(c, z)
  BY <1>1 DEF Goes, Push, NewFrame
<1> HIDE DEF s, g, S
<1>4. /\ r \in Seq(S) /\ Len(r) = Len(s)
      /\ Len(s) = 1 => Root(r) = Sent(c)
      /\ Len(s) = 2 => Root(r) = Root(s) /\ Child(r) = Sent(c)
  <2>1. s # <<>>
    BY DEF s
  <2>2. Changed(s, r, Sent(c)) /\ r \in Seq(S)
    BY <1>1, <1>2, <2>1, Replaced
  <2> HIDE DEF r
  <2> QED  BY <1>1, <2>2 DEF Changed
<1> HIDE DEF r
<1>5. /\ Len(z) = Len(r) + 1 /\ z # <<>> /\ z[1] = g
      /\ Len(r) # 0 => Root(z) = Root(r)
      /\ Len(r) = 1 => Child(z) = g
      /\ Len(r) > 1 => Child(z) = Child(r)
  BY <1>4, Pushed
<1>6. Grown(s, z, g, Sent(c))
  <2> HIDE DEF z
  <2> QED  BY <1>1, <1>4, <1>5 DEF Grown
<1> QED  BY <1>3, <1>6 DEF s, g

LEMMA ReturnShrinks ==
  ASSUME GateInv, NEW c \in Callers, calls[c] # <<>>, Return(c)
  PROVE  \E z : Goes(c, z) /\ Shrunk(calls[c], z)
<1>1. calls[c] \in Seq(GoodFrame(answered)) /\ Goes(c, Tail(calls[c]))
  BY OpenCall DEF Return, Goes
<1>2. Shrunk(calls[c], Tail(calls[c]))
  BY <1>1, Popped DEF Shrunk
<1> QED  BY <1>1, <1>2

LEMMA RetryChanges ==
  ASSUME GateInv, NEW c \in Callers, calls[c] # <<>>,
         NEW m, NEW k, NEW at, NEW out, NEW ver, Push(c, Below(c), m, k, at, out, ver)
  PROVE  \E z : Goes(c, z) /\ Changed(calls[c], z, NewFrame(m, k, at, out, ver))
<1> DEFINE f == NewFrame(m, k, at, out, ver)
<1>1. calls[c] \in Seq(GoodFrame(answered)) /\ Below(c) = Tail(calls[c])
  BY OpenCall
<1>2. Goes(c, <<f>> \o Tail(calls[c]))
  BY <1>1 DEF Goes, Push, NewFrame
<1> HIDE DEF f
<1>3. Changed(calls[c], <<f>> \o Tail(calls[c]), f)
  BY <1>1, Replaced
<1> QED  BY <1>2, <1>3 DEF f

LEMMA MoveChanges ==
  ASSUME GateInv, NEW c \in Callers, calls[c] # <<>>, NEW at, NEW out, Move(c, at, out)
  PROVE  \E z, f : /\ Goes(c, z) /\ Changed(calls[c], z, f)
                   /\ f.msg = Top(c).msg /\ f.ver = Top(c).ver /\ f.at = at /\ f.out = out
<1> DEFINE f == [Top(c) EXCEPT !.at = at, !.out = out]
<1>1. calls[c] \in Seq(GoodFrame(answered)) /\ Below(c) = Tail(calls[c])
      /\ Top(c) \in GoodFrame(answered)
  BY OpenCall
<1>2. f.msg = Top(c).msg /\ f.ver = Top(c).ver /\ f.at = at /\ f.out = out
  BY <1>1 DEF GoodFrame
<1>3. Goes(c, <<f>> \o Tail(calls[c]))
  BY <1>1 DEF Goes, Move
<1> HIDE DEF f
<1>4. Changed(calls[c], <<f>> \o Tail(calls[c]), f)
  BY <1>1, Replaced
<1> QED  BY <1>2, <1>3, <1>4

(* The error of a dispatch is thrown again in the one below, if any.       *)
LEMMA EscalateRethrows ==
  ASSUME GateInv, NEW c \in Callers, calls[c] # <<>>, Escalate(c), Len(calls[c]) \in {1, 2}
  PROVE  /\ Len(calls[c]) = 1 => Goes(c, <<>>)
         /\ Len(calls[c]) = 2 =>
              \E z : Goes(c, z) /\ Len(z) = 1 /\ z # <<>> /\
                     Root(z) = [Root(calls[c]) EXCEPT !.at = "failed", !.out = <<>>]
<1> DEFINE s == calls[c]
           r == Tail(s)
           f == [Head(r) EXCEPT !.at = "failed", !.out = <<>>]
<1>1. s \in Seq(GoodFrame(answered)) /\ Below(c) = r /\ Goes(c, RethrownTo(r))
  BY OpenCall DEF Escalate, Goes
<1>2. /\ r \in Seq(GoodFrame(answered)) /\ Len(r) = Len(s) - 1
      /\ Len(s) = 1 => r = <<>>
      /\ Len(s) > 1 => r # <<>> /\ Root(r) = Root(s)
  BY <1>1, Popped
<1>3. CASE Len(s) = 1
  BY <1>1, <1>2, <1>3 DEF RethrownTo
<1>4. CASE Len(s) = 2
  <2>1. r # <<>> /\ Root(r) = Root(s) /\ Len(r) = 1
    BY <1>2, <1>4
  <2>2. Head(r) = r[1] /\ Tail(r) \in Seq(GoodFrame(answered)) /\ Root(r) = r[1] 
    BY <1>2, <2>1, Popped
  <2>3. r[1] \in GoodFrame(answered)
    BY <1>2, <2>1
  <2>4. f \in GoodFrame(answered)
    <3>1. <<>> \in Seq(GoodMessage(answered))
      OBVIOUS
    <3> QED  BY <2>2, <2>3, <3>1 DEF GoodFrame
  <2>5. RethrownTo(r) = <<f>> \o Tail(r)
    BY <2>1 DEF RethrownTo
  <2>6. f = [Root(s) EXCEPT !.at = "failed", !.out = <<>>]
    BY <2>1, <2>2
  <2> HIDE DEF f, r
  <2>7. Changed(r, <<f>> \o Tail(r), f)
    BY <1>2, <2>1, <2>4, Replaced
  <2>8. PICK z : z = <<f>> \o Tail(r)
    OBVIOUS
  <2>9. Len(z) = 1 /\ z # <<>> /\ Root(z) = f
    BY <2>1, <2>7, <2>8 DEF Changed
  <2>10. Goes(c, z)
    BY <1>1, <2>5, <2>8
  <2> QED  BY <1>4, <2>6, <2>9, <2>10
<1> QED  BY <1>3, <1>4

-----------------------------------------------------------------------------
(* Messages and handlers.                                                  *)

LEMMA NoteFields ==
  ASSUME NEW p, NEW from, NEW to, NEW type
  PROVE  LET m == Note(p, from, to, type) IN
         m.type = type /\ m.from = from /\ m.to = to /\ m.p = p /\ m.decision = "none"
BY DEF Note

LEMMA StatusFields ==
  ASSUME NEW p, NEW from, NEW to
  PROVE  LET m == Status(p, from, to) IN
         m.type = "status_update" /\ m.from = from /\ m.to = to /\ m.p = p /\ m.decision = "none"
BY NoteFields DEF Status

LEMMA AskFields ==
  ASSUME NEW p, NEW from, NEW ver
  PROVE  LET m == Ask(p, from, ver) IN
         m.type = "approval_request" /\ m.from = from /\ m.to = "ceo" /\ m.p = p /\ m.ver = ver
BY DEF Ask, Note

LEMMA NewsFields ==
  ASSUME NEW p, NEW m \in News(p)
  PROVE  m.type = "status_update" /\ m.to \in {"pm", "support"} /\ m.p = p
BY StatusFields DEF News

LEMMA MainGatesDiffer ==
  /\ GateOf("sales") = "proposal_final"
  /\ GateOf("product") = "spec_final"
  /\ GateOf("engineering") = "delivery_final"
  /\ \A agent \in Agents \ Main : GateOf(agent) = "strategic_decision"
BY DEF GateOf, Main

LEMMA ShortTails ==
  ASSUME NEW a, NEW b
  PROVE  /\ Head(<<a>>) = a /\ Tail(<<a>>) = <<>> /\ <<a>> # <<>>
         /\ Head(<<a, b>>) = a /\ Tail(<<a, b>>) = <<b>> /\ <<a, b>> # <<>>
OBVIOUS

(* The rest of what is to be sent.                                         *)
LEMMA AsksTail ==
  ASSUME NEW out \in Seq(Message), out # <<>>, NEW p, NEW agent, NEW notices,
         AsksAtLast(out, p, agent, notices)
  PROVE  /\ AsksAtLast(Tail(out), p, agent, notices)
         /\ \/ Head(out) = Ask(p, agent, 1) /\ Tail(out) = <<>>
            \/ Head(out) \in notices /\ Tail(out) # <<>>
<1> DEFINE r == Tail(out)
<1>1. /\ Len(out) \in Nat \ {0} /\ Len(r) = Len(out) - 1 /\ Head(out) = out[1]
      /\ r \in Seq(Message)
  OBVIOUS
<1>2. \A i \in 1..Len(r) : r[i] = out[i + 1]
  OBVIOUS
<1>3. Len(r) = 0 <=> r = <<>>
  BY <1>1, EmptyStack
<1> HIDE DEF r
<1>4. AsksAtLast(r, p, agent, notices)
  <2> SUFFICES ASSUME NEW k \in 1..Len(r)
               PROVE  IF k = Len(r) THEN r[k] = Ask(p, agent, 1) ELSE r[k] \in notices
    BY DEF AsksAtLast
  <2>1. k + 1 \in 1..Len(out) /\ (k + 1 = Len(out) <=> k = Len(r)) /\ r[k] = out[k + 1]
    BY <1>1, <1>2
  <2> QED  BY <2>1 DEF AsksAtLast
<1>5. 1 \in 1..Len(out) /\ (Len(out) = 1 => Len(r) = 0) /\ (Len(out) # 1 => Len(r) # 0)
  BY <1>1
<1>6. IF 1 = Len(out) THEN out[1] = Ask(p, agent, 1) ELSE out[1] \in notices
  BY <1>5 DEF AsksAtLast
<1>7. \/ Head(out) = Ask(p, agent, 1) /\ r = <<>>
      \/ Head(out) \in notices /\ r # <<>>
  <2>1. Head(out) = out[1]
    BY <1>1
  <2>2. CASE Len(out) = 1
    BY <1>3, <1>5, <1>6, <2>1, <2>2
  <2>3. CASE Len(out) # 1
    BY <1>3, <1>5, <1>6, <2>1, <2>3
  <2> QED  BY <2>2, <2>3
<1> QED  BY <1>4, <1>7 DEF r

(* Which handler runs.                                                     *)
LEMMA ToBystander ==
  ASSUME NEW c, NEW rest, NEW m, NEW k, Handle(c, rest, m, k), m.to \notin Main
  PROVE  Sends(c, rest, m, k, <<>>) /\ UNCHANGED <<lifecycle, stores>>
BY DEF Handle, SalesAnswer, ProductLead, ProductAnswer, ProductAck, EngineeringHandoff,
       EngineeringAnswer, StrayAnswer, Bystander, Main

LEMMA ToProduct ==
  ASSUME NEW c, NEW rest, NEW m, NEW k, Handle(c, rest, m, k), m.to = "product"
  PROVE  /\ m.type = "lead_handoff" => ProductLead(c, rest, m, k)
         /\ m.type = "status_update" => ProductAck(c, rest, m, k)
         /\ m.type = "approval_response" /\ product[m.p].spec # 0 => ProductAnswer(c, rest, m, k)
BY DEF Handle, SalesAnswer, ProductLead, ProductAnswer, ProductAck, EngineeringHandoff,
       EngineeringAnswer, StrayAnswer, Bystander

LEMMA ToEngineering ==
  ASSUME NEW c, NEW rest, NEW m, NEW k, Handle(c, rest, m, k), m.to = "engineering"
  PROVE  /\ m.type = "discovery_handoff" => EngineeringHandoff(c, rest, m, k)
         /\ m.type = "approval_response" /\ engineering[m.p] # 0 /\ m.ver = engineering[m.p]
              => EngineeringAnswer(c, rest, m, k)
BY DEF Handle, SalesAnswer, ProductLead, ProductAnswer, ProductAck, EngineeringHandoff,
       EngineeringAnswer, StrayAnswer, Bystander

LEMMA ToSales ==
  ASSUME NEW c, NEW rest, NEW m, NEW k, Handle(c, rest, m, k), m.to = "sales",
         m.type = "approval_response", sales[m.p] # "none"
  PROVE  SalesAnswer(c, rest, m, k)
BY DEF Handle, SalesAnswer, ProductLead, ProductAnswer, ProductAck, EngineeringHandoff,
       EngineeringAnswer, StrayAnswer, Bystander

(* Which step a call can take, by its newest frame.                        *)
LEMMA StepByTop ==
  ASSUME NEW c, Step(c)
  PROVE  /\ calls[c] # <<>>
         /\ Top(c).at = "send" /\ Top(c).out # <<>> => Dispatch(c)
         /\ Top(c).at = "send" /\ Top(c).out = <<>> => Return(c)
         /\ Top(c).at = "failed" => Retry(c) \/ Escalate(c)
         /\ Top(c).at = "plan" => PlanWritten(c) \/ WriteFails(c)
         /\ Top(c).at = "log" => HandoffLogged(c) \/ WriteFails(c)
         /\ Top(c).at = "report" => ReportWritten(c) \/ WriteFails(c)
         /\ Top(c).at = "audit" => AnswerLogged(c) \/ WriteFails(c)
BY DEF Step, Dispatch, Return, Retry, Escalate, PlanWritten, HandoffLogged, ReportWritten,
       AnswerLogged, WriteFails, At, Idle, Waits

-----------------------------------------------------------------------------
(* What the stack of an errand relies on, and a step of another keeps.     *)

KeepsCapture(p) ==
  /\ captures'[p] # 0
  /\ Unasked(p, "sales") => Unasked(p, "sales")'

KeepsSales(p) ==
  /\ lifecycle[p] = "won" /\ product[p].spec = 0 => lifecycle'[p] = "won" /\ product'[p].spec = 0
  /\ product[p].spec # 0 => product'[p].spec # 0
  /\ Unasked(p, "product") => Unasked(p, "product")'

KeepsProduct(p) ==
  /\ engineering[p] = 0 => engineering'[p] = 0 /\ lifecycle'[p] = lifecycle[p]
  /\ engineering[p] # 0 => engineering'[p] # 0
  /\ lifecycle[p] = "discovery" => lifecycle'[p] = "discovery"
  /\ product[p].spec = 1 => product'[p].spec = 1
  /\ Unasked(p, "engineering") => Unasked(p, "engineering")'

KeepsEngineering(p) == engineering'[p] = engineering[p] /\ lifecycle'[p] = lifecycle[p]

(* What only grows.                                                        *)
Grows == answered \subseteq answered' /\ blockers \subseteq blockers'

LEMMA GrowsKeeps ==
  ASSUME Grows, NEW p
  PROVE  /\ \A gate : Heard(p, gate) => Heard(p, gate)'
         /\ \A gate, ver : Approved(p, gate, ver) => Approved(p, gate, ver)'
         /\ Blocked(p) => Blocked(p)'
BY DEF Grows, Heard, Approved, Blocked

LEMMA CaptureKept ==
  ASSUME NEW p, NEW s, CaptureStack(s, p), KeepsCapture(p)
  PROVE  CaptureStack(s, p)'
BY DEF CaptureStack, KeepsCapture

LEMMA SalesKept ==
  ASSUME NEW p, NEW s, SalesStack(s, p), Grows, KeepsSales(p)
  PROVE  SalesStack(s, p)'
<1>1. Heard(p, "proposal_final")'
  BY GrowsKeeps DEF SalesStack
<1>2. LeadFrame(Child(s), p) => LeadFrame(Child(s), p)'
  BY DEF LeadFrame, KeepsSales
<1> QED  BY <1>1, <1>2 DEF SalesStack, KeepsSales

LEMMA ProductKept ==
  ASSUME NEW p, NEW s, ProductStack(s, p), Grows, KeepsProduct(p)
  PROVE  ProductStack(s, p)'
<1>1. /\ Heard(p, "spec_final")'
      /\ Approved(p, "spec_final", 1) => Approved(p, "spec_final", 1)'
      /\ Blocked(p) => Blocked(p)'
  BY GrowsKeeps DEF ProductStack
<1>2. engineering[p] = 0 /\ Building(Child(s), p) => Building(Child(s), p)'
  BY DEF Building, KeepsProduct
<1>3. Reporting(Child(s), p) => Reporting(Child(s), p)'
  BY DEF Reporting, KeepsProduct
<1> QED  BY <1>1, <1>2, <1>3 DEF ProductStack, KeepsProduct

LEMMA EngineeringKept ==
  ASSUME NEW p, NEW s, EngineeringStack(s, p), Grows, KeepsEngineering(p)
  PROVE  EngineeringStack(s, p)'
BY GrowsKeeps DEF EngineeringStack, KeepsEngineering

(* A step that leaves alone all that an errand of p relies on.             *)
SameView(p) ==
  /\ lifecycle'[p] = lifecycle[p] /\ sales'[p] = sales[p] /\ product'[p].spec = product[p].spec
  /\ engineering'[p] = engineering[p] /\ captures'[p] = captures[p]
  /\ \A gate \in MainGates : Heard(p, gate) <=> Heard(p, gate)'
  /\ \A agent \in Main : IsPending(p, agent) <=> IsPending(p, agent)'

LEMMA SameUnasked ==
  ASSUME NEW p, SameView(p)
  PROVE  \A agent \in Main : Unasked(p, agent) <=> Unasked(p, agent)'
BY MainGatesDiffer DEF SameView, Unasked, Main, MainGates

LEMMA SameKeeps ==
  ASSUME NEW p, SameView(p)
  PROVE  /\ captures[p] # 0 => KeepsCapture(p)
         /\ KeepsSales(p) /\ KeepsProduct(p) /\ KeepsEngineering(p)
BY SameUnasked DEF SameView, Main, KeepsCapture, KeepsSales, KeepsProduct, KeepsEngineering

LEMMA SameProgress ==
  ASSUME NEW p, SameView(p), Progress(p)
  PROVE  Progress(p)'
BY SameUnasked DEF SameView, Main, MainGates, Progress

-----------------------------------------------------------------------------
(* The invariant after a step, put together.                               *)

(* The errand of message m is run by no call but c.                        *)
Fresh(c, m) ==
  \A d \in Callers : d # c /\ calls[d] # <<>> => ~SameErrand(Root(calls[d]).msg, m)

(* Message m begins the errand of an answer to the agent.                  *)
IsAnswer(m, agent) == m.type = "approval_response" /\ m.to = agent

(* The errands of p but that of m find what they rely on, or cannot run.   *)
OthersKept(m, p) ==
  /\ m = Status(p, "marketing", "sales") \/ captures[p] = 0 \/ KeepsCapture(p)
  /\ IsAnswer(m, "sales") \/ ~Heard(p, "proposal_final") \/ KeepsSales(p)
  /\ IsAnswer(m, "product") \/ ~Heard(p, "spec_final") \/ KeepsProduct(p)
  /\ IsAnswer(m, "engineering") \/ ~Heard(p, "delivery_final") \/ KeepsEngineering(p)

LEMMA FreshStep ==
  ASSUME FlowInv, NEW c \in Callers, calls[c] # <<>>
  PROVE  Fresh(c, Root(calls[c]).msg)
BY DEF FlowInv, OneCallPerErrand, Fresh

(* The stack of another call on the same project.                          *)
LEMMA OtherStackKept ==
  ASSUME FlowInv, NEW c \in Callers, NEW d \in Callers, d # c, calls[d] # <<>>, NEW m,
         Fresh(c, m), Root(calls[d]).msg.p = m.p, Grows, OthersKept(m, m.p),
         NEW s, s = calls[d]
  PROVE  FlowStack(s)'
<1> DEFINE n == Root(s).msg
           p == m.p
<1>1. FlowStack(s) /\ ~SameErrand(n, m) /\ n.p = p
  BY DEF FlowInv, Stacks, Fresh
<1> HIDE DEF p
<1>2. CASE n.type = "status_update" /\ CaptureStack(s, p)
  <2>1. n = Status(p, "marketing", "sales") /\ captures[p] # 0
    BY <1>2 DEF CaptureStack
  <2>2. m # Status(p, "marketing", "sales")
    BY <1>1, <2>1, StatusFields DEF SameErrand, Main
  <2>3. KeepsCapture(p)
    BY <2>1, <2>2 DEF OthersKept, p
  <2>4. CaptureStack(s, p)'
    BY <1>2, <2>3, CaptureKept
  <2> QED  BY <1>1, <1>2, <2>4 DEF FlowStack
<1>3. CASE IsAnswer(n, "sales") /\ SalesStack(s, p)
  <2>1. ~IsAnswer(m, "sales") /\ Heard(p, "proposal_final")
    BY <1>1, <1>3 DEF SameErrand, Main, IsAnswer, SalesStack, p
  <2>2. SalesStack(s, p)'
    BY <1>3, <2>1, SalesKept DEF OthersKept, p
  <2> QED  BY <1>1, <1>3, <2>2 DEF FlowStack, IsAnswer
<1>4. CASE IsAnswer(n, "product") /\ ProductStack(s, p)
  <2>1. ~IsAnswer(m, "product") /\ Heard(p, "spec_final")
    BY <1>1, <1>4 DEF SameErrand, Main, IsAnswer, ProductStack, p
  <2>2. ProductStack(s, p)'
    BY <1>4, <2>1, ProductKept DEF OthersKept, p
  <2> QED  BY <1>1, <1>4, <2>2 DEF FlowStack, IsAnswer
<1>5. CASE IsAnswer(n, "engineering") /\ EngineeringStack(s, p)
  <2>1. ~IsAnswer(m, "engineering") /\ Heard(p, "delivery_final")
    BY <1>1, <1>5 DEF SameErrand, Main, IsAnswer, EngineeringStack, p
  <2>2. EngineeringStack(s, p)'
    BY <1>5, <2>1, EngineeringKept DEF OthersKept, p
  <2> QED  BY <1>1, <1>5, <2>2 DEF FlowStack, IsAnswer
<1>6. CASE n.type = "approval_response" /\ n.to \notin Main /\ OtherStack(s)
  BY <1>6 DEF FlowStack, OtherStack
<1> QED  BY <1>1, <1>2, <1>3, <1>4, <1>5, <1>6 DEF FlowStack, IsAnswer

(* The stack of a call on a project the step leaves alone.                 *)
LEMMA SameStack ==
  ASSUME NEW s, FlowStack(s), SameView(Root(s).msg.p), Grows
  PROVE  FlowStack(s)'
<1> DEFINE p == Root(s).msg.p
<1>1. /\ captures[p] # 0 => KeepsCapture(p)
      /\ KeepsSales(p) /\ KeepsProduct(p) /\ KeepsEngineering(p)
  BY SameKeeps
<1>2. /\ CaptureStack(s, p) => CaptureStack(s, p)'
      /\ SalesStack(s, p) => SalesStack(s, p)'
      /\ ProductStack(s, p) => ProductStack(s, p)'
      /\ EngineeringStack(s, p) => EngineeringStack(s, p)'
  <2>1. CaptureStack(s, p) => captures[p] # 0
    BY DEF CaptureStack
  <2> QED  BY <1>1, <2>1, CaptureKept, SalesKept, ProductKept, EngineeringKept
<1> QED  BY <1>2 DEF FlowStack, OtherStack

(* A call goes on with its errand, or begins one nobody runs.              *)
LEMMA Assemble ==
  ASSUME GateInv, FlowInv, NEW c \in Callers, NEW z, Goes(c, z), z # <<>>, FlowStack(z)',
         NEW m, m = Root(z).msg, Fresh(c, m),
         calls[c] # <<>> => Root(calls[c]).msg = m,
         Grows, OthersKept(m, m.p),
         \A q \in Projects : q # m.p => SameView(q),
         FirstRequests', m.p \in Projects => Progress(m.p)' /\ HalfBuild(m.p)'
  PROVE  FlowInv'
<1>1. calls'[c] = z /\ \A d \in Callers : d # c => calls'[d] = calls[d]
  BY DEF Goes, GateInv, GoodStacks
<1>2. Stacks'
  <2> SUFFICES ASSUME NEW d \in Callers, calls'[d] # <<>> PROVE FlowStack(calls[d])'
    BY DEF Stacks
  <2>1. CASE d = c
    BY <1>1, <2>1
  <2>2. CASE d # c
    <3>1. PICK s : s = calls[d]
      OBVIOUS
    <3>2. s # <<>> /\ calls'[d] = s
      BY <1>1, <2>2, <3>1
    <3>3. Root(s).msg.p \in Projects /\ FlowStack(s)
      BY <3>1, <3>2, OpenCall DEF FlowInv, Stacks
    <3>4. FlowStack(s)'
      <4>1. CASE Root(s).msg.p = m.p
        BY <2>2, <3>1, <3>2, <4>1, OtherStackKept
      <4>2. CASE Root(s).msg.p # m.p
        BY <3>3, <4>2, SameStack
      <4> QED  BY <4>1, <4>2
    <3> QED  BY <3>2, <3>4
  <2> QED  BY <2>1, <2>2
<1>3. OneCallPerErrand'
  <2> SUFFICES ASSUME NEW d \in Callers, NEW e \in Callers, calls'[d] # <<>>, calls'[e] # <<>>,
                      SameErrand(Root(calls'[d]).msg, Root(calls'[e]).msg)
               PROVE  d = e
    BY DEF OneCallPerErrand
  <2>1. CASE d # c /\ e # c
    BY <1>1, <2>1 DEF FlowInv, OneCallPerErrand
  <2>2. CASE d = c /\ e # c
    BY <1>1, <2>2 DEF Fresh, SameErrand
  <2>3. CASE d # c /\ e = c
    BY <1>1, <2>3 DEF Fresh
  <2> QED  BY <2>1, <2>2, <2>3
<1>4. ASSUME NEW q \in Projects PROVE (Progress(q) /\ HalfBuild(q))'
  <2>1. CASE q = m.p
    BY <2>1
  <2>2. CASE q # m.p
    <3>1. SameView(q)
      BY <2>2
    <3>2. Progress(q)'
      BY <3>1, SameProgress DEF FlowInv
    <3>3. Blocked(q) => Blocked(q)'
      BY GrowsKeeps
    <3>4. \A d \in Callers : Answering(d, q, "product") => Answering(d, q, "product")'
      BY <1>1, <2>2 DEF Answering
    <3>5. HalfBuild(q)
      BY DEF FlowInv
    <3> QED  BY <3>1, <3>2, <3>3, <3>4, <3>5 DEF HalfBuild, SameView
  <2> QED  BY <2>1, <2>2
<1> QED  BY <1>2, <1>3, <1>4 DEF FlowInv

(* A step that changes nothing but a stack, or ends the call.              *)
LEMMA QuietStep ==
  ASSUME GateInv, FlowInv, NEW c \in Callers, calls[c] # <<>>, NEW z, Goes(c, z),
         Grows, \A q \in Projects : SameView(q), FirstRequests',
         NEW m, m = Root(calls[c]).msg,
         z # <<>> => FlowStack(z)' /\ Root(z).msg = m,
         z = <<>> /\ IsAnswer(m, "product") =>
           Blocked(m.p)' \/ engineering[m.p] # 0 \/ lifecycle[m.p] = "discovery"
  PROVE  FlowInv'
<1>1. calls'[c] = z /\ \A d \in Callers : d # c => calls'[d] = calls[d]
  BY DEF Goes, GateInv, GoodStacks
<1>2. Stacks'
  <2> SUFFICES ASSUME NEW d \in Callers, calls'[d] # <<>> PROVE FlowStack(calls[d])'
    BY DEF Stacks
  <2>1. CASE d = c
    BY <1>1, <2>1
  <2>2. CASE d # c
    <3>1. PICK s : s = calls[d]
      OBVIOUS
    <3>2. s # <<>> /\ calls'[d] = s
      BY <1>1, <2>2, <3>1
    <3>3. Root(s).msg.p \in Projects /\ FlowStack(s)
      BY <3>1, <3>2, OpenCall DEF FlowInv, Stacks
    <3>4. FlowStack(s)'
      BY <3>3, SameStack
    <3> QED  BY <3>2, <3>4
  <2> QED  BY <2>1, <2>2
<1>3. OneCallPerErrand'
  <2> SUFFICES ASSUME NEW d \in Callers, NEW e \in Callers, calls'[d] # <<>>, calls'[e] # <<>>,
                      SameErrand(Root(calls'[d]).msg, Root(calls'[e]).msg)
               PROVE  d = e
    BY DEF OneCallPerErrand
  <2>1. \A b \in Callers : calls'[b] # <<>> =>
           calls[b] # <<>> /\ Root(calls[b]).msg = Root(calls'[b]).msg
    BY <1>1
  <2> QED  BY <2>1 DEF FlowInv, OneCallPerErrand
<1>4. ASSUME NEW q \in Projects PROVE (Progress(q) /\ HalfBuild(q))'
  <2>1. SameView(q)
    OBVIOUS
  <2>2. Progress(q)'
    BY <2>1, SameProgress DEF FlowInv
  <2>3. Blocked(q) => Blocked(q)'
    BY GrowsKeeps
  <2>4. ASSUME NEW d \in Callers, Answering(d, q, "product")
        PROVE  \/ Answering(d, q, "product")' \/ Blocked(q)'
               \/ engineering[q] # 0 \/ lifecycle[q] = "discovery"
    BY <1>1, <2>4 DEF Answering, IsAnswer
  <2>5. HalfBuild(q)
    BY DEF FlowInv
  <2> QED  BY <2>1, <2>2, <2>3, <2>4, <2>5 DEF HalfBuild, SameView
<1> QED  BY <1>2, <1>3, <1>4 DEF FlowInv

-----------------------------------------------------------------------------
(* Steps.                                                                  *)

(* What a step of a call makes of the lifecycle, and on whose word.        *)
Onwards(p, from, to) == lifecycle[p] = from /\ lifecycle' = [lifecycle EXCEPT ![p] = to]

Advances ==
  \/ UNCHANGED lifecycle
  \/ \E p \in Projects :
       \/ Onwards(p, "won", "discovery")
       \/ Onwards(p, "discovery", "implementation") /\ Approved(p, "spec_final", product[p].spec)
       \/ Onwards(p, "implementation", "qa")
       \/ Onwards(p, "qa", "delivered") /\ Approved(p, "delivery_final", engineering[p])

Untouched == UNCHANGED <<lifecycle, stores, answered, captures>>

LEMMA UntouchedView ==
  ASSUME Untouched, UNCHANGED pending
  PROVE  /\ \A q \in Projects : SameView(q)
         /\ FirstRequests => FirstRequests'
BY DEF Untouched, stores, SameView, FirstRequests, Heard, IsPending

(* A step that changes a stack, and at most adds a blocker.                *)
LEMMA SilentStep ==
  ASSUME GateInv, FlowInv, NEW c \in Callers, calls[c] # <<>>, NEW z, Goes(c, z),
         Untouched, UNCHANGED pending, blockers \subseteq blockers',
         NEW m, m = Root(calls[c]).msg,
         z # <<>> => FlowStack(z) /\ Root(z).msg = m,
         z = <<>> /\ IsAnswer(m, "product") =>
           Blocked(m.p)' \/ engineering[m.p] # 0 \/ lifecycle[m.p] = "discovery"
  PROVE  FlowInv' /\ Advances
<1>1. Grows /\ m.p \in Projects
  BY OpenCall DEF Untouched, Grows
<1>2. (\A q \in Projects : SameView(q)) /\ FirstRequests'
  BY UntouchedView DEF FlowInv
<1>3. z # <<>> => FlowStack(z)'
  BY <1>1, <1>2, SameStack
<1>4. FlowInv'
  BY <1>1, <1>2, <1>3, QuietStep
<1> QED  BY <1>4 DEF Advances, Untouched

(* A call that goes on is still on its way.                                *)
LEMMA GoesOn ==
  ASSUME GateInv, FlowInv, Grows, NEW c \in Callers, NEW z, Goes(c, z), z # <<>>, calls[c] # <<>>,
         Root(z).msg = Root(calls[c]).msg, NEW p \in Projects,
         lifecycle'[p] = lifecycle[p], engineering'[p] = engineering[p]
  PROVE  HalfBuild(p)'
<1>1. calls'[c] = z /\ \A d \in Callers : d # c => calls'[d] = calls[d]
  BY DEF Goes, GateInv, GoodStacks
<1>2. Blocked(p) => Blocked(p)'
  BY GrowsKeeps
<1>3. \A d \in Callers : Answering(d, p, "product") => Answering(d, p, "product")'
  BY <1>1 DEF Answering
<1>4. HalfBuild(p)
  BY DEF FlowInv
<1> QED  BY <1>2, <1>3, <1>4 DEF HalfBuild

LEMMA BuildGoesOn ==
  ASSUME GateInv, NEW c \in Callers, NEW z, Goes(c, z), z # <<>>,
         IsAnswer(Root(z).msg, "product"), NEW p, p = Root(z).msg.p
  PROVE  HalfBuild(p)'
<1>1. calls'[c] = z
  BY DEF Goes, GateInv, GoodStacks
<1> QED  BY <1>1 DEF HalfBuild, Answering, IsAnswer

LEMMA SentFields ==
  ASSUME GateInv, NEW c \in Callers, calls[c] # <<>>
  PROVE  /\ Sent(c).msg = Top(c).msg /\ Sent(c).at = Top(c).at /\ Sent(c).ver = Top(c).ver
         /\ Sent(c).out = Tail(Top(c).out)
         /\ Top(c).out \in Seq(Message)
<1>1. Top(c) \in GoodFrame(answered)
  BY OpenCall
<1>2. GoodMessage(answered) \subseteq Message
  BY DEF GoodMessage
<1>3. Top(c).out \in Seq(GoodMessage(answered))
  BY <1>1 DEF GoodFrame
<1>4. Top(c).out \in Seq(Message)
  BY <1>2, <1>3
<1> QED  BY <1>1, <1>4 DEF Sent, GoodFrame

(* A message to an agent that only takes note of it.                       *)
LEMMA Notice ==
  ASSUME GateInv, NEW c \in Callers, Dispatch(c), NEW m, m = Head(Top(c).out), m.to \notin Main
  PROVE  /\ Untouched /\ UNCHANGED blockers /\ pending' = Recorded(m)
         /\ \E z, g : Goes(c, z) /\ Grown(calls[c], z, g, Sent(c)) /\ Resting(g)
<1>1. calls[c] # <<>> /\ Top(c).out # <<>>
  BY DEF Dispatch, At, Idle
<1>2. Handle(c, <<Sent(c)>> \o Below(c), m, 1) /\ pending' = Recorded(m)
      /\ UNCHANGED <<answered, blockers, captures>>
  BY DEF Dispatch, Sent
<1>3. Sends(c, <<Sent(c)>> \o Below(c), m, 1, <<>>) /\ UNCHANGED <<lifecycle, stores>>
  BY <1>2, ToBystander
<1>4. \E z : Goes(c, z) /\ Grown(calls[c], z, NewFrame(m, 1, "send", <<>>, 0), Sent(c))
  BY <1>1, <1>3, DispatchGrows DEF Sends
<1>5. Resting(NewFrame(m, 1, "send", <<>>, 0))
  BY DEF Resting, NewFrame
<1> QED  BY <1>2, <1>3, <1>4, <1>5 DEF Untouched

(* A first request to the owner.                                           *)
LEMMA Asked ==
  ASSUME FlowInv, NEW p \in Projects, NEW agent \in Main, Unasked(p, agent),
         Untouched, UNCHANGED blockers, pending' = Recorded(Ask(p, agent, 1))
  PROVE  /\ Grows /\ FirstRequests'
         /\ \A q \in Projects : q # p => SameView(q)
         /\ \A gate : Heard(p, gate) <=> Heard(p, gate)'
         /\ \A a \in Main : a # agent => (Unasked(p, a) => Unasked(p, a)')
<1>1. pending' = pending \cup {Request(p, agent, 1)}
  BY AskFields DEF Recorded
<1>2. Request(p, agent, 1) = [p |-> p, from |-> agent, gate |-> GateOf(agent), ver |-> 1]
  BY DEF Request
<1>3. \A q, gate : Heard(q, gate) <=> Heard(q, gate)'
  BY DEF Untouched, Heard
<1>4. \A q, a : q # p \/ a # agent => (IsPending(q, a) <=> IsPending(q, a)')
  BY <1>1, <1>2 DEF IsPending
<1>5. FirstRequests'
  BY <1>1, <1>2, <1>3 DEF FirstRequests, FlowInv, Unasked
<1>6. \A q \in Projects : q # p => SameView(q)
  BY <1>3, <1>4 DEF SameView, Untouched, stores
<1>7. \A a \in Main : a # agent => (Unasked(p, a) => Unasked(p, a)')
  BY <1>3, <1>4 DEF Unasked
<1> QED  BY <1>3, <1>5, <1>6, <1>7 DEF Grows, Untouched

-----------------------------------------------------------------------------
(* The capture of a lead goes on.                                          *)
LEMMA CaptureGoesOn ==
  ASSUME GateInv, FlowInv, NEW c \in Callers, Step(c), NEW m, m = Root(calls[c]).msg,
         NEW p \in Projects, p = m.p, m.type = "status_update", CaptureStack(calls[c], p)
  PROVE  FlowInv' /\ Advances
<1> DEFINE s == calls[c]
           b == Root(s)
<1>1. /\ s # <<>> /\ Len(s) \in Nat \ {0}
      /\ Len(s) = 1 => Top(c) = b
      /\ Top(c) = s[1]
  <2>1. calls[c] # <<>>
    BY StepByTop
  <2> QED  BY <2>1, OpenCall
<1>2. m = Status(p, "marketing", "sales") /\ b.msg = m /\ b.at = "send" /\ captures[p] # 0
  BY DEF CaptureStack
<1>3. CASE Len(s) = 1 /\ b.out = <<Ask(p, "sales", 1)>> /\ Unasked(p, "sales")
  <2> DEFINE a == Ask(p, "sales", 1)
  <2>1. Dispatch(c) /\ a = Head(Top(c).out) /\ a.to \notin Main
    <3>1. Top(c).at = "send" /\ Top(c).out = <<a>>
      BY <1>1, <1>2, <1>3
    <3>2. Top(c).out # <<>> /\ Head(Top(c).out) = a
      BY <3>1, ShortTails
    <3>3. Dispatch(c)
      BY <3>1, <3>2, StepByTop
    <3>4. a.to \notin Main
      BY AskFields DEF Main
    <3> QED  BY <3>2, <3>3, <3>4
  <2>2. /\ Untouched /\ UNCHANGED blockers /\ pending' = Recorded(a)
        /\ \E z, g : Goes(c, z) /\ Grown(s, z, g, Sent(c)) /\ Resting(g)
    BY <2>1, Notice
  <2>3. PICK z, g : Goes(c, z) /\ Grown(s, z, g, Sent(c)) /\ Resting(g)
    BY <2>2
  <2>4. Len(z) = 2 /\ z # <<>> /\ Resting(z[1]) /\ Root(z) = Sent(c)
    BY <1>3, <2>3 DEF Grown
  <2>5. Root(z).msg = m /\ Root(z).at = "send" /\ Root(z).out = <<>>
    <3>1. /\ Sent(c).msg = b.msg /\ Sent(c).at = b.at /\ Sent(c).out = Tail(b.out)
      BY <1>1, <1>3, SentFields
    <3>2. Tail(b.out) = <<>>
      BY <1>3, ShortTails
    <3> QED  BY <1>2, <2>4, <3>1, <3>2
  <2>6. /\ Grows /\ FirstRequests'
        /\ \A q \in Projects : q # p => SameView(q)
        /\ \A gate : Heard(p, gate) <=> Heard(p, gate)'
        /\ Unasked(p, "product") => Unasked(p, "product")'
        /\ Unasked(p, "engineering") => Unasked(p, "engineering")'
    BY <1>3, <2>2, Asked DEF Main
  <2>7. CaptureStack(z, p)'
    BY <1>2, <2>2, <2>4, <2>5 DEF CaptureStack, Untouched
  <2>8. FlowStack(z)'
    BY <1>2, <2>5, <2>7 DEF FlowStack
  <2>9. OthersKept(m, p)
    BY <1>2, <2>2, <2>6 DEF OthersKept, Untouched, stores, KeepsSales, KeepsProduct,
       KeepsEngineering
  <2>10. Progress(p)'
    BY <1>2, <2>2, <2>6 DEF FlowInv, Progress, Untouched, stores
  <2>11. HalfBuild(p)'
    BY <1>1, <2>2, <2>3, <2>4, <2>5, <2>6, GoesOn DEF Untouched, stores
  <2>12. FlowInv'
    BY <1>1, <2>3, <2>4, <2>5, <2>6, <2>8, <2>9, <2>10, <2>11, FreshStep, Assemble
  <2> QED  BY <2>2, <2>12 DEF Advances, Untouched
<1>4. CASE Len(s) \in {1, 2} /\ b.out = <<>> /\ (Len(s) = 2 => Resting(s[1]))
  <2>1. Return(c)
    BY <1>1, <1>2, <1>4, StepByTop DEF Resting
  <2>2. PICK z : Goes(c, z) /\ Shrunk(s, z)
    BY <1>1, <2>1, ReturnShrinks
  <2>3. z # <<>> => Len(z) = 1 /\ Root(z) = b
    BY <1>4, <2>2 DEF Shrunk
  <2>4. z # <<>> => CaptureStack(z, p)
    BY <1>2, <1>4, <2>3 DEF CaptureStack
  <2>5. z # <<>> => FlowStack(z) /\ Root(z).msg = m
    BY <1>2, <2>3, <2>4 DEF FlowStack
  <2>6. Untouched /\ UNCHANGED <<pending, blockers>>
    BY <2>1 DEF Return, Untouched, stores
  <2> QED  BY <1>1, <2>2, <2>5, <2>6, SilentStep DEF IsAnswer
<1> QED  BY <1>3, <1>4 DEF CaptureStack

(* What the product agent makes of a lead.                                 *)
LEMMA LeadTaken ==
  ASSUME GateInv, NEW c, NEW rest, NEW m, NEW k, ProductLead(c, rest, m, k), m.p \in Projects
  PROVE  /\ product'[m.p].spec = product[m.p].spec + 1
         /\ lifecycle' = [lifecycle EXCEPT ![m.p] = "discovery"] /\ lifecycle'[m.p] = "discovery"
         /\ \A q \in Projects : q # m.p => product'[q] = product[q] /\ lifecycle'[q] = lifecycle[q]
         /\ UNCHANGED <<sales, engineering>>
         /\ Sends(c, rest, m, k, <<Status(m.p, "product", "pm"), Status(m.p, "product", "pm"),
                                   Ask(m.p, "product", product[m.p].spec + 1)>>)
<1> DEFINE spec == product[m.p].spec + 1
           state == [product[m.p] EXCEPT !.spec = spec, !.handoff = "not_sent"]
<1>1. product' = [product EXCEPT ![m.p] = state]
  BY DEF ProductLead
<1>2. product[m.p] \in ProductState /\ product \in [Projects -> ProductState]
      /\ lifecycle \in [Projects -> Phases]
  BY DEF GateInv, GoodStores, StoreTypes
<1>3. state.spec = spec
  BY <1>2 DEF ProductState
<1> HIDE DEF state
<1>4. product'[m.p].spec = spec /\ \A q \in Projects : q # m.p => product'[q] = product[q]
  BY <1>1, <1>2, <1>3
<1>5. lifecycle' = [lifecycle EXCEPT ![m.p] = "discovery"]
  BY DEF ProductLead, SetPhase
<1>6. lifecycle'[m.p] = "discovery" /\ \A q \in Projects : q # m.p => lifecycle'[q] = lifecycle[q]
  BY <1>2, <1>5
<1> QED  BY <1>4, <1>5, <1>6 DEF ProductLead

LEMMA LeadAsksAtLast ==
  ASSUME NEW p
  PROVE  LET out == <<Status(p, "product", "pm"), Status(p, "product", "pm"), Ask(p, "product", 1)>>
         IN  AsksAtLast(out, p, "product", News(p))
<1> DEFINE out == <<Status(p, "product", "pm"), Status(p, "product", "pm"), Ask(p, "product", 1)>>
<1>1. Len(out) = 3 /\ out[1] \in News(p) /\ out[2] \in News(p) /\ out[3] = Ask(p, "product", 1)
  BY DEF News
<1> HIDE DEF out
<1>2. AsksAtLast(out, p, "product", News(p))
  BY <1>1 DEF AsksAtLast
<1> QED  BY <1>2 DEF out

LEMMA NoteIsNotRecorded ==
  ASSUME NEW m, m.type # "approval_request"
  PROVE  Recorded(m) = pending
BY DEF Recorded

(* The answer to a proposal goes on: the lead is handed to the product     *)
(* agent ...                                                               *)
LEMMA LeadGoesOut ==
  ASSUME GateInv, FlowInv, NEW c \in Callers, Step(c), NEW m, m = Root(calls[c]).msg,
         NEW p \in Projects, p = m.p, IsAnswer(m, "sales"), Heard(p, "proposal_final"),
         Len(calls[c]) = 1, Root(calls[c]).at = "send",
         Root(calls[c]).out = <<Lead(p), Status(p, "sales", "pm")>>,
         lifecycle[p] = "won", product[p].spec = 0
  PROVE  FlowInv' /\ Advances
<1> DEFINE s == calls[c]
           b == Root(s)
           out == <<Status(p, "product", "pm"), Status(p, "product", "pm"), Ask(p, "product", 1)>>
           f == NewFrame(Lead(p), 1, "send", out, 0)
<1>1. s # <<>> /\ Top(c) = b /\ Top(c).out # <<>> /\ Head(b.out) = Lead(p)
      /\ Tail(b.out) = <<Status(p, "sales", "pm")>>
  BY StepByTop, OpenCall, ShortTails
<1>2. Lead(p).to = "product" /\ Lead(p).type = "lead_handoff" /\ Lead(p).p = p
  BY NoteFields DEF Lead
<1>3. Dispatch(c)
  BY <1>1, StepByTop
<1>4. /\ Handle(c, <<Sent(c)>> \o Below(c), Lead(p), 1) /\ pending' = Recorded(Lead(p))
      /\ UNCHANGED <<answered, blockers, captures>>
  BY <1>1, <1>3 DEF Dispatch, Sent
<1>5. UNCHANGED <<pending, answered, blockers, captures>>
  BY <1>2, <1>4, NoteIsNotRecorded
<1>6. ProductLead(c, <<Sent(c)>> \o Below(c), Lead(p), 1)
  BY <1>2, <1>4, ToProduct
<1>7. /\ product'[p].spec = 1
      /\ lifecycle' = [lifecycle EXCEPT ![p] = "discovery"] /\ lifecycle'[p] = "discovery"
      /\ \A q \in Projects : q # p => product'[q] = product[q] /\ lifecycle'[q] = lifecycle[q]
      /\ UNCHANGED <<sales, engineering>>
      /\ Sends(c, <<Sent(c)>> \o Below(c), Lead(p), 1, out)
  <2>1. product[p].spec + 1 = 1
    OBVIOUS
  <2> QED  BY <1>2, <1>6, <2>1, LeadTaken
<1>8. PICK z : Goes(c, z) /\ Grown(s, z, f, Sent(c))
  BY <1>1, <1>7, DispatchGrows DEF Sends
<1>9. Len(z) = 2 /\ z # <<>> /\ Root(z) = Sent(c) /\ Child(z) = f
  BY <1>8 DEF Grown
<1>10. Root(z).msg = m /\ Root(z).at = "send" /\ Root(z).out = <<Status(p, "sales", "pm")>>
  <2>1. Sent(c).msg = b.msg /\ Sent(c).at = b.at /\ Sent(c).out = Tail(b.out)
    BY <1>1, SentFields
  <2> QED  BY <1>1, <1>9, <2>1
<1>11. \A q, gate : Heard(q, gate) <=> Heard(q, gate)'
  BY <1>5 DEF Heard
<1>12. \A q, a : /\ IsPending(q, a) <=> IsPending(q, a)'
                 /\ Unasked(q, a) <=> Unasked(q, a)'
  BY <1>5, <1>11 DEF IsPending, Unasked
<1>13. Progress(p)
  BY DEF FlowInv
<1>14. /\ engineering[p] = 0 /\ captures[p] # 0
       /\ Unasked(p, "product") /\ Unasked(p, "engineering")
  BY <1>13, MainGatesDiffer DEF Progress, Unasked
<1>15. LeadFrame(Child(z), p)'
  BY <1>9, <1>12, <1>14, LeadAsksAtLast DEF LeadFrame, NewFrame
<1>16. FlowStack(z)'
  <2>1. SalesStack(z, p)'
    BY <1>7, <1>9, <1>10, <1>11, <1>15 DEF SalesStack
  <2> QED  BY <1>10, <2>1 DEF FlowStack, IsAnswer
<1>17. OthersKept(m, p)
  BY <1>5, <1>12, <1>14, MainGatesDiffer DEF OthersKept, KeepsCapture, Unasked
<1>18. Progress(p)' /\ HalfBuild(p)'
  BY <1>5, <1>7, <1>11, <1>12, <1>14, MainGatesDiffer DEF Progress, HalfBuild, Unasked
<1>19. \A q \in Projects : q # p => SameView(q)
  BY <1>5, <1>7, <1>11, <1>12 DEF SameView
<1>20. Grows /\ FirstRequests'
  BY <1>5, <1>11 DEF Grows, FlowInv, FirstRequests
<1>21. FlowInv'
  BY <1>1, <1>8, <1>9, <1>10, <1>16, <1>17, <1>18, <1>19, <1>20, FreshStep, Assemble
<1> QED  BY <1>7, <1>21 DEF Advances, Onwards

(* ... who reports on it and asks for the spec's approval ...              *)
LEMMA LeadFrameGoesOn ==
  ASSUME GateInv, FlowInv, NEW c \in Callers, Step(c), NEW m, m = Root(calls[c]).msg,
         NEW p \in Projects, p = m.p, IsAnswer(m, "sales"), SalesStack(calls[c], p),
         Len(calls[c]) = 2, Root(calls[c]).out = <<Status(p, "sales", "pm")>>,
         LeadFrame(Child(calls[c]), p), Child(calls[c]).out # <<>>, product[p].spec # 0
  PROVE  FlowInv' /\ Advances
<1> DEFINE s == calls[c]
           t == Child(s)
           n == Head(t.out)
<1>1. s # <<>> /\ Top(c) = t
  BY StepByTop, OpenCall
<1>2. t.msg = Lead(p) /\ t.at = "send" /\ AsksAtLast(t.out, p, "product", News(p))
      /\ Unasked(p, "product")
  BY DEF LeadFrame
<1>3. Dispatch(c) /\ t.out \in Seq(Message)
  BY <1>1, <1>2, StepByTop, SentFields
<1>4. /\ AsksAtLast(Tail(t.out), p, "product", News(p))
      /\ \/ n = Ask(p, "product", 1) /\ Tail(t.out) = <<>>
         \/ n \in News(p) /\ Tail(t.out) # <<>>
  BY <1>2, <1>3, AsksTail
<1>5. n.to \notin Main
  BY <1>4, AskFields, NewsFields DEF Main
<1>6. /\ Untouched /\ UNCHANGED blockers /\ pending' = Recorded(n)
      /\ \E z, g : Goes(c, z) /\ Grown(s, z, g, Sent(c)) /\ Resting(g)
  BY <1>1, <1>3, <1>5, Notice
<1>7. PICK z, g : Goes(c, z) /\ Grown(s, z, g, Sent(c)) /\ Resting(g)
  BY <1>6
<1>8. Len(z) = 3 /\ z # <<>> /\ Resting(z[1]) /\ Root(z) = Root(s) /\ Child(z) = Sent(c)
  BY <1>7 DEF Grown
<1>9. Sent(c).msg = t.msg /\ Sent(c).at = t.at /\ Sent(c).out = Tail(t.out)
  BY <1>1, SentFields
<1>10. CASE n \in News(p)
  <2>1. UNCHANGED pending
    BY <1>6, <1>10, NewsFields, NoteIsNotRecorded
  <2>2. LeadFrame(Child(z), p)
    BY <1>2, <1>4, <1>8, <1>9 DEF LeadFrame
  <2>3. SalesStack(z, p)
    BY <1>8, <2>2 DEF SalesStack
  <2>4. FlowStack(z)
    BY <1>8, <2>3 DEF FlowStack, IsAnswer
  <2> QED  BY <1>1, <1>6, <1>7, <1>8, <2>1, <2>4, SilentStep
<1>11. CASE n = Ask(p, "product", 1) /\ Tail(t.out) = <<>>
  <2>1. /\ Grows /\ FirstRequests'
        /\ \A q \in Projects : q # p => SameView(q)
        /\ \A gate : Heard(p, gate) <=> Heard(p, gate)'
        /\ Unasked(p, "sales") => Unasked(p, "sales")'
        /\ Unasked(p, "engineering") => Unasked(p, "engineering")'
    BY <1>2, <1>6, <1>11, Asked DEF Main
  <2>2. LeadFrame(Child(z), p)'
    BY <1>2, <1>4, <1>8, <1>9, <1>11 DEF LeadFrame
  <2>3. SalesStack(z, p)'
    BY <1>6, <1>8, <2>1, <2>2 DEF SalesStack, Untouched, stores
  <2>4. FlowStack(z)'
    BY <1>8, <2>3 DEF FlowStack, IsAnswer
  <2>5. Progress(p)
    BY DEF FlowInv
  <2>6. captures[p] # 0
    BY <2>5, MainGatesDiffer DEF Progress, SalesStack, Unasked
  <2>7. OthersKept(m, p)
    BY <1>6, <2>1, <2>6 DEF OthersKept, Untouched, stores, KeepsCapture, KeepsProduct,
       KeepsEngineering
  <2>8. Progress(p)'
    BY <1>6, <2>1, <2>5, <2>6 DEF Progress, Untouched, stores
  <2>9. HalfBuild(p)'
    BY <1>1, <1>6, <1>7, <1>8, <2>1, GoesOn DEF Untouched, stores
  <2>10. FlowInv'
    BY <1>1, <1>7, <1>8, <2>1, <2>4, <2>7, <2>8, <2>9, FreshStep, Assemble
  <2> QED  BY <1>6, <2>10 DEF Advances, Untouched
<1> QED  BY <1>4, <1>10, <1>11

(* ... and the dispatches end one after the other.                         *)
LEMMA SalesGoesOn ==
  ASSUME GateInv, FlowInv, NEW c \in Callers, Step(c), NEW m, m = Root(calls[c]).msg,
         NEW p \in Projects, p = m.p, IsAnswer(m, "sales"), SalesStack(calls[c], p)
  PROVE  FlowInv' /\ Advances
<1> DEFINE s == calls[c]
           b == Root(s)
<1>1. /\ s # <<>> /\ Len(s) \in Nat \ {0} /\ Top(c) = s[1]
      /\ Len(s) = 1 => Top(c) = b
      /\ Len(s) = 2 => Top(c) = Child(s)
  BY StepByTop, OpenCall
<1>2. Heard(p, "proposal_final") /\ b.at = "send" /\ b.msg = m
  BY DEF SalesStack
<1>3. ~IsAnswer(m, "product")
  BY DEF IsAnswer
<1>4. ASSUME Return(c),
             \A z : Shrunk(s, z) /\ z # <<>> => SalesStack(z, p) /\ Root(z) = b
      PROVE  FlowInv' /\ Advances
  <2>1. PICK z : Goes(c, z) /\ Shrunk(s, z)
    BY <1>1, <1>4, ReturnShrinks
  <2>2. z # <<>> => FlowStack(z) /\ Root(z).msg = m
    BY <1>2, <1>4, <2>1 DEF FlowStack, IsAnswer
  <2>3. Untouched /\ UNCHANGED <<pending, blockers>>
    BY <1>4 DEF Return, Untouched, stores
  <2> QED  BY <1>1, <1>3, <2>1, <2>2, <2>3, SilentStep
<1>5. CASE Len(s) = 1 /\ b.out = <<>>
  <2>1. Return(c)
    BY <1>1, <1>2, <1>5, StepByTop
  <2>2. \A z : Shrunk(s, z) => z = <<>>
    BY <1>5 DEF Shrunk
  <2> QED  BY <1>4, <2>1, <2>2
<1>6. CASE Len(s) = 1 /\ b.out = <<Lead(p), Status(p, "sales", "pm")>>
           /\ lifecycle[p] = "won" /\ product[p].spec = 0
  BY <1>2, <1>6, LeadGoesOut
<1>7. CASE Len(s) = 2 /\ b.out = <<Status(p, "sales", "pm")>>
           /\ LeadFrame(Child(s), p) /\ product[p].spec # 0
  <2>1. CASE Child(s).out # <<>>
    BY <1>7, <2>1, LeadFrameGoesOn
  <2>2. CASE Child(s).out = <<>>
    <3>1. Return(c)
      BY <1>1, <1>7, <2>2, StepByTop DEF LeadFrame
    <3>2. \A z : Shrunk(s, z) => Len(z) = 1 /\ Root(z) = b
      BY <1>7 DEF Shrunk
    <3>3. \A z : Shrunk(s, z) => SalesStack(z, p)
      BY <1>2, <1>7, <3>2 DEF SalesStack
    <3> QED  BY <1>4, <3>1, <3>2, <3>3
  <2> QED  BY <2>1, <2>2
<1>8. CASE Len(s) = 3 /\ b.out = <<Status(p, "sales", "pm")>> /\ Resting(s[1])
           /\ LeadFrame(Child(s), p) /\ product[p].spec # 0
  <2>1. Return(c)
    BY <1>1, <1>8, StepByTop DEF Resting
  <2>2. \A z : Shrunk(s, z) => Len(z) = 2 /\ Root(z) = b /\ Child(z) = Child(s)
    BY <1>8 DEF Shrunk
  <2>3. \A z : Shrunk(s, z) => SalesStack(z, p)
    BY <1>2, <1>8, <2>2 DEF SalesStack
  <2> QED  BY <1>4, <2>1, <2>2, <2>3
<1>9. CASE Len(s) = 1 /\ b.out = <<Status(p, "sales", "pm")>> /\ product[p].spec # 0
  <2> DEFINE n == Status(p, "sales", "pm")
  <2>1. /\ Top(c).out # <<>> /\ Head(Top(c).out) = n /\ Tail(b.out) = <<>>
        /\ n.to \notin Main /\ n.type # "approval_request"
    BY <1>1, <1>9, ShortTails, StatusFields DEF Main
  <2>2. Dispatch(c)
    BY <1>1, <1>2, <1>9, <2>1, StepByTop
  <2>3. /\ Untouched /\ UNCHANGED blockers /\ pending' = Recorded(n)
        /\ \E z, g : Goes(c, z) /\ Grown(s, z, g, Sent(c)) /\ Resting(g)
    BY <2>1, <2>2, Notice
  <2>4. UNCHANGED pending
    BY <2>1, <2>3, NoteIsNotRecorded
  <2>5. PICK z, g : Goes(c, z) /\ Grown(s, z, g, Sent(c)) /\ Resting(g)
    BY <2>3
  <2>6. Len(z) = 2 /\ z # <<>> /\ Resting(z[1]) /\ Root(z) = Sent(c)
    BY <1>9, <2>5 DEF Grown
  <2>7. Root(z).msg = m /\ Root(z).at = "send" /\ Root(z).out = <<>>
    <3>1. Sent(c).msg = b.msg /\ Sent(c).at = b.at /\ Sent(c).out = Tail(b.out)
      BY <1>1, <1>9, SentFields
    <3> QED  BY <1>2, <2>1, <2>6, <3>1
  <2>8. SalesStack(z, p)
    BY <1>2, <1>9, <2>6, <2>7 DEF SalesStack
  <2>9. FlowStack(z)
    BY <2>7, <2>8 DEF FlowStack, IsAnswer
  <2> QED  BY <1>1, <1>3, <2>3, <2>4, <2>5, <2>6, <2>7, <2>9, SilentStep
<1>10. CASE Len(s) = 2 /\ b.out = <<>> /\ Resting(s[1]) /\ product[p].spec # 0
  <2>1. Return(c)
    BY <1>1, <1>10, StepByTop DEF Resting
  <2>2. \A z : Shrunk(s, z) => Len(z) = 1 /\ Root(z) = b
    BY <1>10 DEF Shrunk
  <2>3. \A z : Shrunk(s, z) => SalesStack(z, p)
    BY <1>2, <1>10, <2>2 DEF SalesStack
  <2> QED  BY <1>4, <2>1, <2>2, <2>3
<1> QED  BY <1>5, <1>6, <1>7, <1>8, <1>9, <1>10 DEF SalesStack

-----------------------------------------------------------------------------
(* The answer to a spec goes on.  How far its project is.                  *)
LEMMA SpecHeard ==
  ASSUME FlowInv, NEW p \in Projects, Heard(p, "spec_final")
  PROVE  /\ captures[p] # 0 /\ product[p].spec # 0 /\ Heard(p, "proposal_final")
         /\ engineering[p] = 0 =>
              ~Heard(p, "delivery_final") /\ Unasked(p, "engineering") /\ lifecycle[p] # "delivered"
         /\ Progress(p)
<1>1. Progress(p)
  BY DEF FlowInv
<1>2. product[p].spec # 0
  BY <1>1, MainGatesDiffer DEF Progress, Unasked
<1>3. Heard(p, "proposal_final")
  BY <1>1, <1>2 DEF Progress
<1>4. captures[p] # 0
  BY <1>1, <1>3, MainGatesDiffer DEF Progress, Unasked
<1> QED  BY <1>1, <1>2, <1>3, <1>4, MainGatesDiffer DEF Progress, Unasked

(* It is refused or sent back.                                             *)
LEMMA RefusalEnds ==
  ASSUME GateInv, FlowInv, NEW c \in Callers, Step(c), NEW m, m = Root(calls[c]).msg,
         Len(calls[c]) = 1, Resting(Root(calls[c])),
         IsAnswer(m, "product") => engineering[m.p] # 0 \/ lifecycle[m.p] = "discovery"
  PROVE  FlowInv' /\ Advances
<1>1. calls[c] # <<>> /\ Top(c) = Root(calls[c])
  BY StepByTop, OpenCall
<1>2. Return(c)
  BY <1>1, StepByTop DEF Resting
<1>3. PICK z : Goes(c, z) /\ Shrunk(calls[c], z)
  BY <1>1, <1>2, ReturnShrinks
<1>4. z = <<>>
  BY <1>3 DEF Shrunk
<1>5. Untouched /\ UNCHANGED <<pending, blockers>>
  BY <1>2 DEF Return, Untouched, stores
<1> QED  BY <1>1, <1>3, <1>4, <1>5, SilentStep

(* A dispatch of the errand ends, or one of its messages is taken note of. *)
LEMMA ProductReturns ==
  ASSUME GateInv, FlowInv, NEW c \in Callers, Step(c), NEW m, m = Root(calls[c]).msg,
         NEW p \in Projects, p = m.p, IsAnswer(m, "product"),
         Len(calls[c]) \in {2, 3}, Resting(calls[c][1]),
         \A z : Shrunk(calls[c], z) /\ z # <<>> /\ Root(z) = Root(calls[c]) => ProductStack(z, p)
  PROVE  FlowInv' /\ Advances
<1>1. calls[c] # <<>> /\ Top(c) = calls[c][1]
  BY StepByTop, OpenCall
<1>2. Return(c)
  BY <1>1, StepByTop DEF Resting
<1>3. PICK z : Goes(c, z) /\ Shrunk(calls[c], z)
  BY <1>1, <1>2, ReturnShrinks
<1>4. z # <<>> /\ Root(z) = Root(calls[c])
  <2>1. CASE Len(calls[c]) = 2
    BY <1>3, <2>1 DEF Shrunk
  <2>2. CASE Len(calls[c]) = 3
    BY <1>3, <2>2 DEF Shrunk
  <2> QED  BY <2>1, <2>2
<1>5. FlowStack(z)
  BY <1>3, <1>4 DEF FlowStack, IsAnswer
<1>6. Untouched /\ UNCHANGED <<pending, blockers>>
  BY <1>2 DEF Return, Untouched, stores
<1> QED  BY <1>1, <1>3, <1>4, <1>5, <1>6, SilentStep

LEMMA ProductTells ==
  ASSUME GateInv, FlowInv, NEW c \in Callers, Step(c), NEW m, m = Root(calls[c]).msg,
         NEW p \in Projects, p = m.p, IsAnswer(m, "product"),
         Top(c).at = "send", Top(c).out # <<>>,
         Head(Top(c).out).to \notin Main, Head(Top(c).out).type # "approval_request",
         \A z, g : Grown(calls[c], z, g, Sent(c)) /\ Resting(g) =>
                     ProductStack(z, p) /\ Root(z).msg = m
  PROVE  FlowInv' /\ Advances
<1> DEFINE n == Head(Top(c).out)
<1>1. Dispatch(c) /\ calls[c] # <<>>
  BY StepByTop
<1>2. /\ Untouched /\ UNCHANGED blockers /\ pending' = Recorded(n)
      /\ \E z, g : Goes(c, z) /\ Grown(calls[c], z, g, Sent(c)) /\ Resting(g)
  BY <1>1, Notice
<1>3. UNCHANGED pending
  BY <1>2, NoteIsNotRecorded
<1>4. PICK z, g : Goes(c, z) /\ Grown(calls[c], z, g, Sent(c)) /\ Resting(g)
  BY <1>2
<1>5. z # <<>> /\ ProductStack(z, p) /\ Root(z).msg = m
  BY <1>4 DEF Grown
<1>6. FlowStack(z)
  BY <1>5 DEF FlowStack, IsAnswer
<1> QED  BY <1>1, <1>2, <1>3, <1>4, <1>5, <1>6, SilentStep

(* Engineering is handed an unknown project: it plans version 1.           *)
LEMMA HandoffPlans ==
  ASSUME NEW c, NEW rest, NEW p, NEW k, Handle(c, rest, Handoff(p), k), engineering[p] = 0
  PROVE  Push(c, rest, Handoff(p), k, "plan", <<>>, 1) /\ UNCHANGED <<lifecycle, stores>>
<1>1. Handoff(p).to = "engineering" /\ Handoff(p).type = "discovery_handoff" /\ Handoff(p).p = p
  BY NoteFields DEF Handoff
<1>2. EngineeringHandoff(c, rest, Handoff(p), k)
  BY <1>1, ToEngineering
<1> QED  BY <1>1, <1>2 DEF EngineeringHandoff

LEMMA HandoffGoesOut ==
  ASSUME GateInv, FlowInv, NEW c \in Callers, Step(c), NEW m, m = Root(calls[c]).msg,
         NEW p \in Projects, p = m.p, IsAnswer(m, "product"), ProductStack(calls[c], p),
         m.decision = "approve", Len(calls[c]) = 1, Root(calls[c]).at = "send",
         Root(calls[c]).out = <<Handoff(p)>>, engineering[p] = 0
  PROVE  FlowInv' /\ Advances
<1> DEFINE s == calls[c]
           b == Root(s)
           h == Handoff(p)
           f == NewFrame(h, 1, "plan", <<>>, 1)
<1>1. s # <<>> /\ Top(c) = b /\ Top(c).out # <<>> /\ Head(b.out) = h /\ Tail(b.out) = <<>>
  BY StepByTop, OpenCall, ShortTails
<1>2. Dispatch(c) /\ h.type # "approval_request"
  BY <1>1, StepByTop, NoteFields DEF Handoff
<1>3. /\ Handle(c, <<Sent(c)>> \o Below(c), h, 1) /\ pending' = Recorded(h)
      /\ UNCHANGED <<answered, blockers, captures>>
  BY <1>1, <1>2 DEF Dispatch, Sent
<1>4. Push(c, <<Sent(c)>> \o Below(c), h, 1, "plan", <<>>, 1) /\ UNCHANGED <<lifecycle, stores>>
  BY <1>3, HandoffPlans
<1>5. PICK z : Goes(c, z) /\ Grown(s, z, f, Sent(c))
  BY <1>1, <1>4, DispatchGrows
<1>6. Len(z) = 2 /\ z # <<>> /\ Root(z) = Sent(c) /\ Child(z) = f
  BY <1>5 DEF Grown
<1>7. Root(z).msg = m /\ Resting(Root(z))
  <2>1. Sent(c).msg = b.msg /\ Sent(c).at = b.at /\ Sent(c).out = Tail(b.out)
    BY <1>1, SentFields
  <2> QED  BY <1>1, <1>6, <2>1 DEF Resting
<1>8. Building(Child(z), p)
  BY <1>6 DEF Building, NewFrame
<1>9. ProductStack(z, p)
  BY <1>6, <1>7, <1>8 DEF ProductStack
<1>10. FlowStack(z)
  BY <1>7, <1>9 DEF FlowStack, IsAnswer
<1>11. Untouched /\ UNCHANGED <<pending, blockers>>
  BY <1>2, <1>3, <1>4, NoteIsNotRecorded DEF Untouched
<1> QED  BY <1>1, <1>5, <1>6, <1>7, <1>10, <1>11, SilentStep

(* The build moves the project on.                                         *)
LEMMA BuildMoves ==
  ASSUME GateInv, FlowInv, NEW c \in Callers, calls[c] # <<>>, NEW m, m = Root(calls[c]).msg,
         NEW p \in Projects, p = m.p, IsAnswer(m, "product"), ProductStack(calls[c], p),
         engineering[p] = 0, NEW from \in {"discovery", "implementation"},
         NEW to \in {"implementation", "qa"},
         lifecycle[p] = from, lifecycle' = [lifecycle EXCEPT ![p] = to],
         UNCHANGED <<sales, product, engineering, pending, answered, blockers, captures>>,
         NEW z, Goes(c, z), z # <<>>, Root(z).msg = m, ProductStack(z, p)'
  PROVE  FlowInv'
<1>1. lifecycle'[p] = to /\ \A q \in Projects : q # p => lifecycle'[q] = lifecycle[q]
  BY DEF GateInv, GoodStores, StoreTypes
<1>2. Heard(p, "spec_final")
  BY DEF ProductStack
<1>3. /\ captures[p] # 0 /\ product[p].spec # 0 /\ Heard(p, "proposal_final")
      /\ ~Heard(p, "delivery_final") /\ Unasked(p, "engineering")
      /\ Progress(p)
  BY <1>2, SpecHeard
<1>4. \A q, gate : Heard(q, gate) <=> Heard(q, gate)'
  BY DEF Heard
<1>5. \A q, a : /\ IsPending(q, a) <=> IsPending(q, a)'
                /\ Unasked(q, a) <=> Unasked(q, a)'
  BY <1>4 DEF IsPending, Unasked
<1>6. OthersKept(m, p)
  BY <1>3, <1>5 DEF OthersKept, KeepsCapture, KeepsSales
<1>7. Progress(p)'
  BY <1>1, <1>2, <1>3, <1>4, <1>5 DEF Progress
<1>8. HalfBuild(p)'
  BY BuildGoesOn
<1>9. \A q \in Projects : q # p => SameView(q)
  BY <1>1, <1>4, <1>5 DEF SameView
<1>10. Grows /\ FirstRequests'
  BY <1>4 DEF Grows, FlowInv, FirstRequests
<1>11. FlowStack(z)'
  BY DEF FlowStack, IsAnswer
<1> QED  BY <1>6, <1>7, <1>8, <1>9, <1>10, <1>11, FreshStep, Assemble

(* Of the approved spec of p nothing is built yet, or not to the end.      *)
OnApproval(m, p) ==
  /\ IsAnswer(m, "product") /\ m.p = p /\ m.decision = "approve"
  /\ Heard(p, "spec_final") /\ product[p].spec = 1 /\ Approved(p, "spec_final", 1)
  /\ engineering[p] = 0

LEMMA BuildFails ==
  ASSUME GateInv, FlowInv, NEW c \in Callers, calls[c] # <<>>, NEW m, m = Root(calls[c]).msg,
         NEW p \in Projects, OnApproval(m, p), Len(calls[c]) = 2, Resting(Root(calls[c])),
         Building(Child(calls[c]), p), Move(c, "failed", <<>>),
         Untouched, UNCHANGED <<pending, blockers>>
  PROVE  FlowInv' /\ Advances
<1>1. Top(c) = Child(calls[c])
  BY OpenCall
<1>2. PICK z, f : /\ Goes(c, z) /\ Changed(calls[c], z, f)
                  /\ f.msg = Top(c).msg /\ f.ver = Top(c).ver /\ f.at = "failed" /\ f.out = <<>>
  BY MoveChanges
<1>3. Len(z) = 2 /\ z # <<>> /\ Root(z) = Root(calls[c]) /\ Child(z) = f
  BY <1>2 DEF Changed
<1>4. Building(f, p)
  BY <1>1, <1>2 DEF Building
<1>5. ProductStack(z, p)
  BY <1>3, <1>4 DEF ProductStack, OnApproval
<1>6. FlowStack(z)
  BY <1>3, <1>5 DEF FlowStack, OnApproval, IsAnswer
<1> QED  BY <1>2, <1>3, <1>6, SilentStep

LEMMA BuildAdvances ==
  ASSUME GateInv, FlowInv, NEW c \in Callers, calls[c] # <<>>, NEW m, m = Root(calls[c]).msg,
         NEW p \in Projects, OnApproval(m, p), Len(calls[c]) = 2, Resting(Root(calls[c])),
         Building(Child(calls[c]), p), Top(c).at # "failed",
         NEW event, NEW at, Advance(c, event, at, <<>>),
         \/ event = "build_started" /\ at = "log"
         \/ event = "final_validation_started" /\ at = "report",
         UNCHANGED <<stores, pending, answered, blockers, captures>>
  PROVE  FlowInv' /\ Advances
<1>1. Top(c) = Child(calls[c])
  BY OpenCall
<1>2. Top(c).msg = Handoff(p) /\ Handoff(p).p = p /\ Top(c).ver = 1
  BY <1>1, NoteFields DEF Building, Handoff
<1>3. ProductStack(calls[c], p) /\ p = m.p /\ IsAnswer(m, "product")
  BY DEF ProductStack, OnApproval
<1>4. CASE lifecycle[p] = Edge(event)[1] /\ SetPhase(p, Edge(event)[2]) /\ Move(c, at, <<>>)
  <2> DEFINE from == Edge(event)[1]
             to == Edge(event)[2]
  <2>1. \/ from = "discovery" /\ to = "implementation"
        \/ from = "implementation" /\ to = "qa" /\ at = "report"
    BY DEF Edge
  <2>2. from \in {"discovery", "implementation"} /\ to \in {"implementation", "qa"}
        /\ (at = "report" => to = "qa")
    BY DEF Edge
  <2>3. at \in {"log", "report"}
    OBVIOUS
  <2>4. lifecycle[p] = from /\ lifecycle' = [lifecycle EXCEPT ![p] = to]
    BY <1>4 DEF SetPhase
  <2> HIDE DEF from, to
  <2>5. lifecycle'[p] = to
    BY <2>4 DEF GateInv, GoodStores, StoreTypes
  <2>6. PICK z, f : /\ Goes(c, z) /\ Changed(calls[c], z, f)
                    /\ f.msg = Top(c).msg /\ f.ver = Top(c).ver /\ f.at = at /\ f.out = <<>>
    BY <1>4, MoveChanges
  <2>7. Len(z) = 2 /\ z # <<>> /\ Root(z) = Root(calls[c]) /\ Child(z) = f
    BY <2>6 DEF Changed
  <2>8. Building(f, p)'
    BY <1>2, <2>2, <2>3, <2>5, <2>6 DEF Building
  <2>9. ProductStack(z, p)'
    <3>1. Heard(p, "spec_final")' /\ Approved(p, "spec_final", 1)'
      BY DEF OnApproval, Heard, Approved
    <3> QED  BY <2>7, <2>8, <3>1 DEF ProductStack, OnApproval, stores
  <2>10. FlowInv'
    BY <1>3, <2>2, <2>4, <2>6, <2>7, <2>9, BuildMoves DEF OnApproval, stores
  <2>11. Advances
    BY <2>1, <2>4 DEF Advances, Onwards, OnApproval
  <2> QED  BY <2>10, <2>11
<1>5. CASE Move(c, "failed", <<>>) /\ UNCHANGED lifecycle
  <2>1. Untouched
    BY <1>5 DEF Untouched
  <2> QED  BY <1>5, <2>1, BuildFails
<1> QED  BY <1>2, <1>4, <1>5 DEF Advance

LEMMA ReportAsksAtLast ==
  ASSUME NEW p
  PROVE  LET out == <<Status(p, "engineering", "product"), Status(p, "engineering", "pm"),
                      Status(p, "engineering", "pm"), Status(p, "engineering", "pm"),
                      Ask(p, "engineering", 1)>>
         IN  AsksAtLast(out, p, "engineering",
                        News(p) \cup {Status(p, "engineering", "product")})
<1> DEFINE out == <<Status(p, "engineering", "product"), Status(p, "engineering", "pm"),
                    Status(p, "engineering", "pm"), Status(p, "engineering", "pm"),
                    Ask(p, "engineering", 1)>>
           notices == News(p) \cup {Status(p, "engineering", "product")}
<1>1. /\ Len(out) = 5 /\ out[5] = Ask(p, "engineering", 1)
      /\ \A k \in 1..4 : out[k] \in notices
  BY DEF News
<1> HIDE DEF out, notices
<1>2. AsksAtLast(out, p, "engineering", notices)
  BY <1>1 DEF AsksAtLast
<1> QED  BY <1>2 DEF out, notices

LEMMA BuildReports ==
  ASSUME GateInv, FlowInv, NEW c \in Callers, calls[c] # <<>>, NEW m, m = Root(calls[c]).msg,
         NEW p \in Projects, OnApproval(m, p), Len(calls[c]) = 2, Resting(Root(calls[c])),
         Building(Child(calls[c]), p), ReportWritten(c)
  PROVE  FlowInv' /\ Advances
<1> DEFINE out == <<Status(p, "engineering", "product"), Status(p, "engineering", "pm"),
                    Status(p, "engineering", "pm"), Status(p, "engineering", "pm"),
                    Ask(p, "engineering", 1)>>
<1>1. Top(c) = Child(calls[c]) /\ Top(c).at = "report"
  BY OpenCall DEF ReportWritten, At
<1>2. Top(c).msg = Handoff(p) /\ Handoff(p).p = p /\ Top(c).ver = 1 /\ lifecycle[p] = "qa"
  BY <1>1, NoteFields DEF Building, Handoff
<1>3. /\ engineering' = [engineering EXCEPT ![p] = 1] /\ Move(c, "send", out)
      /\ UNCHANGED <<lifecycle, sales, product, pending, answered, blockers, captures>>
  BY <1>2 DEF ReportWritten, Unshared
<1>4. engineering'[p] = 1 /\ \A q \in Projects : q # p => engineering'[q] = engineering[q]
  BY <1>3 DEF GateInv, GoodStores, StoreTypes
<1>5. PICK z, f : /\ Goes(c, z) /\ Changed(calls[c], z, f)
                  /\ f.msg = Top(c).msg /\ f.ver = Top(c).ver /\ f.at = "send" /\ f.out = out
  BY <1>3, MoveChanges
<1>6. Len(z) = 2 /\ z # <<>> /\ Root(z) = Root(calls[c]) /\ Child(z) = f
  BY <1>5 DEF Changed
<1>7. /\ captures[p] # 0 /\ product[p].spec # 0 /\ Heard(p, "proposal_final")
      /\ ~Heard(p, "delivery_final") /\ Unasked(p, "engineering")
      /\ Progress(p) /\ Heard(p, "spec_final")
  BY SpecHeard DEF OnApproval
<1>8. \A q, gate : Heard(q, gate) <=> Heard(q, gate)'
  BY <1>3 DEF Heard
<1>9. \A q, a : /\ IsPending(q, a) <=> IsPending(q, a)'
                /\ Unasked(q, a) <=> Unasked(q, a)'
  BY <1>3, <1>8 DEF IsPending, Unasked
<1>10. Reporting(f, p)'
  BY <1>2, <1>5, <1>7, <1>9, ReportAsksAtLast DEF Reporting
<1>11. ProductStack(z, p)'
  <2>1. Approved(p, "spec_final", 1)'
    BY <1>3 DEF OnApproval, Approved
  <2> QED  BY <1>3, <1>4, <1>6, <1>7, <1>8, <1>10, <2>1 DEF ProductStack, OnApproval
<1>12. FlowStack(z)'
  BY <1>6, <1>11 DEF FlowStack, OnApproval, IsAnswer
<1>13. OthersKept(m, p)
  BY <1>3, <1>7, <1>9 DEF OthersKept, OnApproval, KeepsCapture, KeepsSales
<1>14. Progress(p)' /\ HalfBuild(p)'
  BY <1>2, <1>3, <1>4, <1>7, <1>8, <1>9 DEF Progress, HalfBuild
<1>15. \A q \in Projects : q # p => SameView(q)
  BY <1>3, <1>4, <1>8, <1>9 DEF SameView
<1>16. Grows /\ FirstRequests'
  BY <1>3, <1>8 DEF Grows, FlowInv, FirstRequests
<1>17. FlowInv'
  BY <1>5, <1>6, <1>12, <1>13, <1>14, <1>15, <1>16, FreshStep, Assemble DEF OnApproval
<1> QED  BY <1>3, <1>17 DEF Advances

(* The handoff is dispatched again, or given up and reported.              *)
LEMMA BuildRetried ==
  ASSUME GateInv, FlowInv, NEW c \in Callers, calls[c] # <<>>, NEW m, m = Root(calls[c]).msg,
         NEW p \in Projects, OnApproval(m, p), Len(calls[c]) = 2, Resting(Root(calls[c])),
         Building(Child(calls[c]), p), Retry(c)
  PROVE  FlowInv' /\ Advances
<1> DEFINE k == NextAttempt(Top(c).attempt)
           f == NewFrame(Handoff(p), k, "plan", <<>>, 1)
<1>1. Top(c) = Child(calls[c]) /\ Top(c).msg = Handoff(p)
  BY OpenCall DEF Building
<1>2. Handle(c, Below(c), Handoff(p), k)
      /\ UNCHANGED <<pending, answered, blockers, captures>>
  BY <1>1 DEF Retry
<1>3. Push(c, Below(c), Handoff(p), k, "plan", <<>>, 1) /\ UNCHANGED <<lifecycle, stores>>
  BY <1>2, HandoffPlans DEF OnApproval
<1>4. PICK z : Goes(c, z) /\ Changed(calls[c], z, f)
  BY <1>3, RetryChanges
<1>5. Len(z) = 2 /\ z # <<>> /\ Root(z) = Root(calls[c]) /\ Child(z) = f
  BY <1>4 DEF Changed
<1>6. Building(f, p)
  BY DEF Building, NewFrame
<1>7. ProductStack(z, p)
  BY <1>5, <1>6 DEF ProductStack, OnApproval
<1>8. FlowStack(z)
  BY <1>5, <1>7 DEF FlowStack, OnApproval, IsAnswer
<1> QED  BY <1>2, <1>3, <1>4, <1>5, <1>8, SilentStep DEF Untouched

LEMMA BuildGivenUp ==
  ASSUME GateInv, FlowInv, NEW c \in Callers, calls[c] # <<>>, NEW m, m = Root(calls[c]).msg,
         NEW p \in Projects, OnApproval(m, p), Len(calls[c]) = 2, Resting(Root(calls[c])),
         Building(Child(calls[c]), p), Escalate(c)
  PROVE  FlowInv' /\ Advances
<1>1. Top(c) = Child(calls[c]) /\ Top(c).msg = Handoff(p)
  BY OpenCall DEF Building
<1>2. PICK z : Goes(c, z) /\ Len(z) = 1 /\ z # <<>> /\
               Root(z) = [Root(calls[c]) EXCEPT !.at = "failed", !.out = <<>>]
  BY EscalateRethrows
<1>3. Root(z).msg = m /\ Root(z).at = "failed"
  BY <1>2, OpenCall DEF GoodFrame
<1>4. UNCHANGED <<lifecycle, stores, pending, answered, captures>>
      /\ blockers' = blockers \cup Reported(Handoff(p), Below(c))
  BY <1>1 DEF Escalate
<1>5. Blocked(p)'
  BY <1>4, NoteFields DEF Blocked, Reported, Handoff
<1>6. ProductStack(z, p)'
  <2>1. Heard(p, "spec_final")' /\ Approved(p, "spec_final", 1)'
    BY <1>4 DEF OnApproval, Heard, Approved
  <2> QED  BY <1>2, <1>3, <1>4, <1>5, <2>1 DEF ProductStack, OnApproval, stores
<1>7. FlowStack(z)'
  BY <1>3, <1>6 DEF FlowStack, OnApproval, IsAnswer
<1>8. Grows /\ Untouched
  BY <1>4 DEF Grows, Untouched
<1>9. (\A q \in Projects : SameView(q)) /\ FirstRequests'
  BY <1>4, <1>8, UntouchedView DEF FlowInv
<1>10. FlowInv'
  BY <1>2, <1>3, <1>7, <1>8, <1>9, QuietStep
<1> QED  BY <1>4, <1>10 DEF Advances

(* The approval of the spec is dispatched again, or given up.              *)
LEMMA ApprovalRetried ==
  ASSUME GateInv, FlowInv, NEW c \in Callers, calls[c] # <<>>, NEW m, m = Root(calls[c]).msg,
         NEW p \in Projects, OnApproval(m, p), Len(calls[c]) = 1, Retry(c)
  PROVE  FlowInv' /\ Advances
<1> DEFINE k == NextAttempt(Top(c).attempt)
           f == NewFrame(m, k, "send", Onward(m), 0)
<1>1. Top(c) = Root(calls[c]) /\ Top(c).msg = m
  BY OpenCall
<1>2. Handle(c, Below(c), m, k) /\ UNCHANGED <<pending, answered, blockers, captures>>
  BY <1>1 DEF Retry
<1>3. ProductAnswer(c, Below(c), m, k)
  BY <1>2, ToProduct DEF OnApproval, IsAnswer
<1>4. PICK z : Goes(c, z) /\ Changed(calls[c], z, f)
  BY <1>3, RetryChanges DEF ProductAnswer, Sends
<1>5. Len(z) = 1 /\ z # <<>> /\ Root(z) = f
  BY <1>4 DEF Changed
<1>6. f.msg = m /\ f.at = "send" /\ f.out = <<Status(p, "product", "pm"), Handoff(p)>>
  BY DEF NewFrame, Onward, Handoff, OnApproval
<1>7. /\ product' = [product EXCEPT ![p] = Decided(product[p], m.decision)]
      /\ UNCHANGED <<lifecycle, sales, engineering>>
  BY <1>3 DEF ProductAnswer, OnApproval
<1>8. Decided(product[p], m.decision).spec = product[p].spec
  BY DEF Decided, OnApproval
<1>9. \A q \in Projects : product'[q].spec = product[q].spec
  BY <1>7, <1>8 DEF GateInv, GoodStores, StoreTypes
<1>10. \A q, gate : Heard(q, gate) <=> Heard(q, gate)'
  BY <1>2 DEF Heard
<1>11. \A q \in Projects : SameView(q)
  BY <1>2, <1>7, <1>9, <1>10 DEF SameView, IsPending
<1>12. Grows /\ FirstRequests'
  BY <1>2, <1>10 DEF Grows, FlowInv, FirstRequests
<1>13. ProductStack(z, p)'
  <2>1. Heard(p, "spec_final")' /\ Approved(p, "spec_final", 1)'
    BY <1>2 DEF OnApproval, Heard, Approved
  <2> QED  BY <1>5, <1>6, <1>7, <1>9, <2>1 DEF ProductStack, OnApproval
<1>14. FlowStack(z)'
  BY <1>5, <1>6, <1>13 DEF FlowStack, OnApproval, IsAnswer
<1>15. FlowInv'
  BY <1>4, <1>5, <1>6, <1>11, <1>12, <1>14, QuietStep
<1> QED  BY <1>7, <1>15 DEF Advances

LEMMA CallGivenUp ==
  ASSUME GateInv, FlowInv, NEW c \in Callers, calls[c] # <<>>, NEW m, m = Root(calls[c]).msg,
         IsAnswer(m, "product") => Blocked(m.p), Len(calls[c]) = 1, Escalate(c)
  PROVE  FlowInv' /\ Advances
<1>1. Goes(c, <<>>)
  BY EscalateRethrows
<1>2. UNCHANGED <<lifecycle, stores, pending, answered, captures>> /\ blockers \subseteq blockers'
  BY DEF Escalate
<1>3. Blocked(m.p) => Blocked(m.p)'
  BY <1>2 DEF Blocked
<1> QED  BY <1>1, <1>2, <1>3, SilentStep DEF Untouched

(* The built project is reported on.                                       *)
OnReport(m, p) ==
  /\ IsAnswer(m, "product") /\ m.p = p /\ m.decision = "approve"
  /\ Heard(p, "spec_final") /\ product[p].spec = 1 /\ Approved(p, "spec_final", 1)
  /\ engineering[p] # 0

LEMMA ReportGoesOut ==
  ASSUME GateInv, FlowInv, NEW c \in Callers, Step(c), NEW m, m = Root(calls[c]).msg,
         NEW p \in Projects, OnReport(m, p), Len(calls[c]) = 2, Resting(Root(calls[c])),
         Reporting(Child(calls[c]), p), Child(calls[c]).out # <<>>
  PROVE  FlowInv' /\ Advances
<1> DEFINE s == calls[c]
           t == Child(s)
           n == Head(t.out)
           notices == News(p) \cup {Status(p, "engineering", "product")}
<1>1. s # <<>> /\ Top(c) = t
  BY StepByTop, OpenCall
<1>2. t.msg = Handoff(p) /\ t.at = "send" /\ AsksAtLast(t.out, p, "engineering", notices)
      /\ Unasked(p, "engineering")
  BY DEF Reporting
<1>3. Dispatch(c) /\ t.out \in Seq(Message)
  BY <1>1, <1>2, StepByTop, SentFields
<1>4. /\ AsksAtLast(Tail(t.out), p, "engineering", notices)
      /\ \/ n = Ask(p, "engineering", 1) /\ Tail(t.out) = <<>>
         \/ n \in notices /\ Tail(t.out) # <<>>
  BY <1>2, <1>3, AsksTail
<1>5. Sent(c).msg = t.msg /\ Sent(c).at = t.at /\ Sent(c).out = Tail(t.out)
  BY <1>1, SentFields
<1>6. \A z, g : Grown(s, z, g, Sent(c)) =>
         Len(z) = 3 /\ z # <<>> /\ z[1] = g /\ Root(z) = Root(s) /\ Child(z) = Sent(c)
  BY DEF Grown
<1>7. ASSUME n \in notices
      PROVE  \A z, g : Grown(s, z, g, Sent(c)) /\ Resting(g) => ProductStack(z, p) /\ Root(z).msg = m
  <2>1. Reporting(Sent(c), p)
    BY <1>2, <1>4, <1>5 DEF Reporting
  <2> QED  BY <1>6, <2>1 DEF ProductStack, OnReport
<1>8. CASE n \in News(p)
  BY <1>1, <1>2, <1>7, <1>8, NewsFields, ProductTells DEF Main, OnReport
<1>9. CASE n = Status(p, "engineering", "product")
  <2>1. n.type = "status_update" /\ n.to = "product" /\ n.p = p
    BY <1>9, StatusFields
  <2>2. /\ Handle(c, <<Sent(c)>> \o Below(c), n, 1) /\ pending' = Recorded(n)
        /\ UNCHANGED <<answered, blockers, captures>>
    BY <1>1, <1>3 DEF Dispatch, Sent
  <2>3. ProductAck(c, <<Sent(c)>> \o Below(c), n, 1)
    BY <2>1, <2>2, ToProduct
  <2>4. lifecycle[p] \in {"qa", "delivered"}
    BY DEF OnReport, FlowInv, Progress
  <2>5. Sends(c, <<Sent(c)>> \o Below(c), n, 1, <<>>) /\ UNCHANGED <<lifecycle, stores>>
    BY <2>1, <2>3, <2>4 DEF ProductAck, stores
  <2>6. Untouched /\ UNCHANGED <<pending, blockers>>
    BY <2>1, <2>2, <2>5, NoteIsNotRecorded DEF Untouched
  <2>7. PICK z : Goes(c, z) /\ Grown(s, z, NewFrame(n, 1, "send", <<>>, 0), Sent(c))
    BY <1>1, <1>3, <2>5, DispatchGrows DEF Sends, Dispatch
  <2>8. Resting(NewFrame(n, 1, "send", <<>>, 0))
    BY DEF Resting, NewFrame
  <2>9. z # <<>> /\ ProductStack(z, p) /\ Root(z).msg = m
    BY <1>6, <1>7, <1>9, <2>7, <2>8
  <2>10. FlowStack(z)
    BY <2>9 DEF FlowStack, OnReport, IsAnswer
  <2> QED  BY <1>1, <2>6, <2>7, <2>9, <2>10, SilentStep
<1>10. CASE n = Ask(p, "engineering", 1) /\ Tail(t.out) = <<>>
  <2>1. n.to \notin Main
    BY <1>10, AskFields DEF Main
  <2>2. /\ Untouched /\ UNCHANGED blockers /\ pending' = Recorded(n)
        /\ \E z, g : Goes(c, z) /\ Grown(s, z, g, Sent(c)) /\ Resting(g)
    BY <1>1, <1>3, <2>1, Notice
  <2>3. PICK z, g : Goes(c, z) /\ Grown(s, z, g, Sent(c)) /\ Resting(g)
    BY <2>2
  <2>4. /\ Grows /\ FirstRequests'
        /\ \A q \in Projects : q # p => SameView(q)
        /\ \A gate : Heard(p, gate) <=> Heard(p, gate)'
        /\ Unasked(p, "sales") => Unasked(p, "sales")'
        /\ Unasked(p, "product") => Unasked(p, "product")'
    BY <1>2, <1>10, <2>2, Asked DEF Main
  <2>5. Reporting(Child(z), p)'
    <3>1. Child(z) = Sent(c)
      BY <1>6, <2>3
    <3> QED  BY <1>2, <1>4, <1>5, <1>10, <3>1 DEF Reporting
  <2>6. Approved(p, "spec_final", 1)'
    BY <2>4, GrowsKeeps DEF OnReport
  <2>7. ProductStack(z, p)'
    BY <1>6, <2>2, <2>3, <2>4, <2>5, <2>6 DEF ProductStack, OnReport, Untouched, stores
  <2>8. z # <<>> /\ Root(z).msg = m
    BY <1>6, <2>3
  <2>9. FlowStack(z)'
    BY <2>7, <2>8 DEF FlowStack, OnReport, IsAnswer
  <2>10. captures[p] # 0 /\ Progress(p)
    BY SpecHeard DEF OnReport
  <2>11. OthersKept(m, p)
    <3>1. KeepsEngineering(p)
      BY <2>2 DEF KeepsEngineering, Untouched, stores
    <3>2. KeepsCapture(p) /\ KeepsSales(p)
      BY <2>2, <2>4, <2>10 DEF KeepsCapture, KeepsSales, Untouched, stores
    <3> QED  BY <3>1, <3>2 DEF OthersKept, OnReport
  <2>12. Progress(p)'
    BY <2>2, <2>4, <2>10 DEF Progress, Untouched, stores, OnReport
  <2>13. HalfBuild(p)'
    BY <1>1, <2>2, <2>3, <2>4, <2>8, GoesOn DEF Untouched, stores
  <2>14. FlowInv'
    BY <1>1, <2>3, <2>4, <2>8, <2>9, <2>11, <2>12, <2>13, FreshStep, Assemble DEF OnReport
  <2> QED  BY <2>2, <2>14 DEF Advances, Untouched
<1> QED  BY <1>4, <1>8, <1>9, <1>10

LEMMA ProductGoesOn ==
  ASSUME GateInv, FlowInv, NEW c \in Callers, Step(c), NEW m, m = Root(calls[c]).msg,
         NEW p \in Projects, p = m.p, IsAnswer(m, "product"), ProductStack(calls[c], p)
  PROVE  FlowInv' /\ Advances
<1> DEFINE s == calls[c]
           b == Root(s)
<1>1. /\ s # <<>> /\ Len(s) \in Nat \ {0} /\ Top(c) = s[1]
      /\ Len(s) = 1 => Top(c) = b
      /\ Len(s) = 2 => Top(c) = Child(s)
  BY StepByTop, OpenCall
<1>2. CASE m.decision # "approve" /\ Len(s) = 1 /\ Resting(b) /\ lifecycle[p] = "discovery"
  BY <1>2, RefusalEnds
<1>3. CASE m.decision = "approve" /\ engineering[p] = 0
  <2>1. OnApproval(m, p)
    BY <1>3 DEF ProductStack, OnApproval
  <2>2. CASE Len(s) = 1 /\ b.at = "send" /\ b.out = <<Status(p, "product", "pm"), Handoff(p)>>
    <3>1. /\ Top(c).out # <<>> /\ Head(Top(c).out) = Status(p, "product", "pm")
          /\ Tail(b.out) = <<Handoff(p)>> /\ Top(c).at = "send"
      BY <1>1, <2>2, ShortTails
    <3>2. Head(Top(c).out).to \notin Main /\ Head(Top(c).out).type # "approval_request"
      BY <3>1, StatusFields DEF Main
    <3>3. Sent(c).msg = m /\ Sent(c).at = "send" /\ Sent(c).out = <<Handoff(p)>>
      BY <1>1, <2>2, <3>1, SentFields
    <3>4. \A z, g : Grown(s, z, g, Sent(c)) /\ Resting(g) => ProductStack(z, p) /\ Root(z).msg = m
      <4> SUFFICES ASSUME NEW z, NEW g, Grown(s, z, g, Sent(c)), Resting(g)
                   PROVE  ProductStack(z, p) /\ Root(z).msg = m
        OBVIOUS
      <4>1. Len(z) = 2 /\ Root(z) = Sent(c) /\ z[1] = g
        BY <2>2 DEF Grown
      <4> QED  BY <2>1, <3>3, <4>1 DEF ProductStack, OnApproval
    <3> QED  BY <3>1, <3>2, <3>4, ProductTells
  <2>3. CASE Len(s) = 1 /\ b.at = "send" /\ b.out = <<Handoff(p)>>
    BY <1>3, <2>3, HandoffGoesOut
  <2>4. CASE Len(s) = 2 /\ b.at = "send" /\ b.out = <<Handoff(p)>> /\ Resting(s[1])
    <3>1. \A z : Shrunk(s, z) /\ Root(z) = b => ProductStack(z, p)
      BY <2>1, <2>4 DEF Shrunk, ProductStack, OnApproval
    <3> QED  BY <2>4, <3>1, ProductReturns
  <2>5. CASE Len(s) = 2 /\ Resting(b) /\ Building(Child(s), p)
    <3>1. WriteFails(c) => Move(c, "failed", <<>>) /\ Untouched /\ UNCHANGED <<pending, blockers>>
      BY DEF WriteFails, Unshared, Untouched
    <3>2. CASE Top(c).at = "failed"
      BY <1>1, <2>1, <2>5, <3>2, StepByTop, BuildRetried, BuildGivenUp
    <3>3. CASE Top(c).at = "plan"
      <4>1. PlanWritten(c) => Advance(c, "build_started", "log", <<>>)
                              /\ UNCHANGED <<stores, pending, answered, blockers, captures>>
        BY DEF PlanWritten, Unshared
      <4> QED  BY <1>1, <2>1, <2>5, <3>1, <3>3, <4>1, StepByTop, BuildAdvances, BuildFails
    <3>4. CASE Top(c).at = "log"
      <4>1. HandoffLogged(c) => Advance(c, "final_validation_started", "report", <<>>)
                                /\ UNCHANGED <<stores, pending, answered, blockers, captures>>
        BY DEF HandoffLogged, Unshared
      <4> QED  BY <1>1, <2>1, <2>5, <3>1, <3>4, <4>1, StepByTop, BuildAdvances, BuildFails
    <3>5. CASE Top(c).at = "report"
      BY <1>1, <2>1, <2>5, <3>1, <3>5, StepByTop, BuildReports, BuildFails
    <3>6. Top(c).at \in {"plan", "log", "report", "failed"}
      BY <1>1, <2>5 DEF Building
    <3> QED  BY <3>2, <3>3, <3>4, <3>5, <3>6
  <2>6. CASE Len(s) = 1 /\ b.at = "failed" /\ Blocked(p)
    BY <1>1, <2>1, <2>6, StepByTop, ApprovalRetried, CallGivenUp
  <2> QED  BY <1>3, <2>2, <2>3, <2>4, <2>5, <2>6 DEF ProductStack
<1>4. CASE m.decision = "approve" /\ engineering[p] # 0
  <2>1. OnReport(m, p) /\ Resting(b)
    BY <1>4 DEF ProductStack, OnReport
  <2>2. CASE Len(s) = 1
    BY <1>4, <2>1, <2>2, RefusalEnds
  <2>3. CASE Len(s) = 2 /\ Reporting(Child(s), p)
    <3>1. CASE Child(s).out # <<>>
      BY <2>1, <2>3, <3>1, ReportGoesOut
    <3>2. CASE Child(s).out = <<>>
      <4>1. Resting(s[1])
        BY <1>1, <2>3, <3>2 DEF Resting, Reporting
      <4>2. \A z : Shrunk(s, z) /\ Root(z) = b => ProductStack(z, p)
        BY <2>1, <2>3 DEF Shrunk, ProductStack, OnReport
      <4> QED  BY <2>3, <4>1, <4>2, ProductReturns
    <3> QED  BY <3>1, <3>2
  <2>4. CASE Len(s) = 3 /\ Reporting(Child(s), p) /\ Resting(s[1])
    <3>1. \A z : Shrunk(s, z) /\ Root(z) = b => ProductStack(z, p)
      BY <2>1, <2>4 DEF Shrunk, ProductStack, OnReport
    <3> QED  BY <2>4, <3>1, ProductReturns
  <2> QED  BY <1>4, <2>2, <2>3, <2>4 DEF ProductStack
<1> QED  BY <1>2, <1>3, <1>4 DEF ProductStack

-----------------------------------------------------------------------------
(* The answer to a delivery goes on.                                       *)
LEMMA DeliveryHeard ==
  ASSUME FlowInv, NEW p \in Projects, Heard(p, "delivery_final")
  PROVE  captures[p] # 0 /\ engineering[p] # 0 /\ product[p].spec # 0 /\ Progress(p)
         /\ Heard(p, "proposal_final")
<1>1. Progress(p)
  BY DEF FlowInv
<1>2. engineering[p] # 0
  BY <1>1, MainGatesDiffer DEF Progress, Unasked
<1>3. product[p].spec # 0
  BY <1>1, <1>2 DEF Progress
<1>4. Heard(p, "proposal_final")
  BY <1>1, <1>3 DEF Progress
<1>5. captures[p] # 0
  BY <1>1, <1>4, MainGatesDiffer DEF Progress, Unasked
<1> QED  BY <1>1, <1>2, <1>3, <1>4, <1>5

OnDelivery(m, p) ==
  /\ IsAnswer(m, "engineering") /\ m.p = p /\ m.ver = 1
  /\ Heard(p, "delivery_final") /\ engineering[p] # 0
  /\ m.decision = "approve" => Approved(p, "delivery_final", 1)

(* Any step that leaves the stores alone.                                  *)
LEMMA DeliveryWaits ==
  ASSUME GateInv, FlowInv, NEW c \in Callers, calls[c] # <<>>, NEW m, m = Root(calls[c]).msg,
         NEW p \in Projects, OnDelivery(m, p),
         Untouched, UNCHANGED <<pending, blockers>>,
         NEW z, Goes(c, z), z # <<>> => EngineeringStack(z, p) /\ Root(z).msg = m
  PROVE  FlowInv' /\ Advances
<1>1. z # <<>> => FlowStack(z)
  BY DEF FlowStack, OnDelivery, IsAnswer
<1> QED  BY <1>1, SilentStep DEF OnDelivery, IsAnswer

(* The answer is logged.                                                   *)
LEMMA AnswerIsLogged ==
  ASSUME GateInv, FlowInv, NEW c \in Callers, calls[c] # <<>>, NEW m, m = Root(calls[c]).msg,
         NEW p \in Projects, OnDelivery(m, p), Len(calls[c]) = 1, Root(calls[c]).ver = 1,
         engineering[p] = 1, lifecycle[p] = "qa", AnswerLogged(c)
  PROVE  FlowInv' /\ Advances
<1>1. Top(c) = Root(calls[c]) /\ Top(c).msg = m
  BY OpenCall
<1>2. UNCHANGED <<sales, product, pending, answered, blockers, captures>>
  BY DEF AnswerLogged, Unshared
<1>3. PICK out, v :
        /\ Move(c, "send", out) /\ engineering' = [engineering EXCEPT ![p] = v] /\ v \in {1, 2}
        /\ \A k \in 1..Len(out) : out[k] \in News(p)
        /\ \/ m.decision # "approve" /\ UNCHANGED lifecycle
           \/ m.decision = "approve" /\ lifecycle' = [lifecycle EXCEPT ![p] = "delivered"]
  <2>1. CASE Accepts(m.decision)
    <3> DEFINE out == <<Status(p, "engineering", "pm"), Status(p, "engineering", "support"),
                        Status(p, "engineering", "pm")>>
    <3>1. Advance(c, "delivery_approved", "send", out)
          /\ engineering' = [engineering EXCEPT ![p] = 1]
      BY <1>1, <2>1 DEF AnswerLogged, OnDelivery
    <3>2. Edge("delivery_approved")[1] = "qa" /\ Edge("delivery_approved")[2] = "delivered"
      BY DEF Edge
    <3>3. Move(c, "send", out) /\ lifecycle' = [lifecycle EXCEPT ![p] = "delivered"]
      BY <1>1, <3>1, <3>2 DEF Advance, SetPhase, OnDelivery
    <3>4. Len(out) = 3 /\ \A k \in 1..3 : out[k] \in News(p)
      BY DEF News
    <3> QED  BY <2>1, <3>1, <3>3, <3>4 DEF Accepts
  <2>2. CASE ~Accepts(m.decision)
    <3>1. Move(c, "send", <<>>) /\ UNCHANGED lifecycle
      BY <1>1, <2>2 DEF AnswerLogged
    <3>2. engineering' = [engineering EXCEPT ![p] = IF m.decision = "revise" THEN 2 ELSE 1]
      BY <1>1, <2>2 DEF AnswerLogged, OnDelivery
    <3>3. PICK v : v \in {1, 2} /\ engineering' = [engineering EXCEPT ![p] = v]
      BY <3>2
    <3>4. PICK out : out = <<>>
      OBVIOUS
    <3>5. 1..Len(out) = {}
      BY <3>4
    <3> QED  BY <2>2, <3>1, <3>3, <3>4, <3>5 DEF Accepts
  <2> QED  BY <2>1, <2>2
<1>4. PICK z, f : /\ Goes(c, z) /\ Changed(calls[c], z, f)
                  /\ f.msg = Top(c).msg /\ f.ver = Top(c).ver /\ f.at = "send" /\ f.out = out
  BY <1>3, MoveChanges
<1>5. Len(z) = 1 /\ z # <<>> /\ Root(z) = f
  BY <1>4 DEF Changed
<1>6. /\ engineering'[p] = v /\ v # 0
      /\ \A q \in Projects : q # p => engineering'[q] = engineering[q]
  BY <1>3 DEF GateInv, GoodStores, StoreTypes
<1>7. /\ \A q \in Projects : q # p => lifecycle'[q] = lifecycle[q]
      /\ lifecycle'[p] \in {"qa", "delivered"}
      /\ m.decision = "approve" => lifecycle'[p] = "delivered"
  BY <1>3 DEF GateInv, GoodStores, StoreTypes
<1>8. captures[p] # 0 /\ product[p].spec # 0 /\ Progress(p) /\ Heard(p, "proposal_final")
  BY DeliveryHeard DEF OnDelivery
<1>9. \A q, gate : Heard(q, gate) <=> Heard(q, gate)'
  BY <1>2 DEF Heard
<1>10. \A q, a : /\ IsPending(q, a) <=> IsPending(q, a)'
                 /\ Unasked(q, a) <=> Unasked(q, a)'
  BY <1>2, <1>9 DEF IsPending, Unasked
<1>11. EngineeringStack(z, p)'
  <2>1. Approved(p, "delivery_final", 1) => Approved(p, "delivery_final", 1)'
    BY <1>2 DEF Approved
  <2> QED
    BY <1>1, <1>3, <1>4, <1>5, <1>6, <1>7, <1>9, <2>1 DEF EngineeringStack, OnDelivery
<1>12. FlowStack(z)'
  BY <1>1, <1>4, <1>5, <1>11 DEF FlowStack, OnDelivery, IsAnswer
<1>13. KeepsCapture(p) /\ KeepsSales(p)
  BY <1>2, <1>8, <1>10 DEF KeepsCapture, KeepsSales
<1>14. KeepsProduct(p)
  BY <1>2, <1>6, <1>10 DEF KeepsProduct
<1>15. OthersKept(m, p)
  BY <1>13, <1>14 DEF OthersKept, OnDelivery
<1>16. Progress(p)' /\ HalfBuild(p)'
  BY <1>2, <1>6, <1>7, <1>8, <1>9, <1>10 DEF Progress, HalfBuild, OnDelivery
<1>17. \A q \in Projects : q # p => SameView(q)
  BY <1>2, <1>6, <1>7, <1>9, <1>10 DEF SameView
<1>18. Grows /\ FirstRequests'
  BY <1>2, <1>9 DEF Grows, FlowInv, FirstRequests
<1>19. FlowInv'
  BY <1>1, <1>4, <1>5, <1>12, <1>15, <1>16, <1>17, <1>18, FreshStep, Assemble DEF OnDelivery
<1>20. Advances
  BY <1>3 DEF Advances, Onwards, OnDelivery
<1> QED  BY <1>19, <1>20

LEMMA EngineeringGoesOn ==
  ASSUME GateInv, FlowInv, NEW c \in Callers, Step(c), NEW m, m = Root(calls[c]).msg,
         NEW p \in Projects, p = m.p, IsAnswer(m, "engineering"), EngineeringStack(calls[c], p)
  PROVE  FlowInv' /\ Advances
<1> DEFINE s == calls[c]
           b == Root(s)
<1>1. /\ s # <<>> /\ Len(s) \in Nat \ {0} /\ Top(c) = s[1]
      /\ Len(s) = 1 => Top(c) = b
  BY StepByTop, OpenCall
<1>2. OnDelivery(m, p)
  BY DEF EngineeringStack, OnDelivery
<1>3. CASE /\ Len(s) = 1 /\ b.at \in {"audit", "failed"} /\ b.out = <<>>
           /\ b.at = "audit" => b.ver = 1
           /\ engineering[p] = 1 /\ lifecycle[p] = "qa"
  <2>1. \A z, f : Changed(s, z, f) /\ f.msg = m /\ f.out = <<>> /\ f.at \in {"audit", "failed"}
                    /\ (f.at = "audit" => f.ver = 1)
                    => EngineeringStack(z, p) /\ Root(z).msg = m
    BY <1>2, <1>3 DEF Changed, EngineeringStack, OnDelivery
  <2>2. CASE b.at = "audit" /\ AnswerLogged(c)
    BY <1>1, <1>2, <1>3, <2>2, AnswerIsLogged
  <2>3. CASE WriteFails(c)
    <3>1. Move(c, "failed", <<>>) /\ Untouched /\ UNCHANGED <<pending, blockers>>
      BY <2>3 DEF WriteFails, Unshared, Untouched
    <3>2. PICK z, f : /\ Goes(c, z) /\ Changed(s, z, f)
                      /\ f.msg = Top(c).msg /\ f.ver = Top(c).ver /\ f.at = "failed" /\ f.out = <<>>
      BY <1>1, <3>1, MoveChanges
    <3>3. EngineeringStack(z, p) /\ Root(z).msg = m
      BY <1>1, <1>3, <2>1, <3>2
    <3> QED  BY <1>1, <1>2, <3>1, <3>2, <3>3, DeliveryWaits
  <2>4. CASE Retry(c)
    <3> DEFINE k == NextAttempt(Top(c).attempt)
               f == NewFrame(m, k, "audit", <<>>, 1)
    <3>1. Handle(c, Below(c), m, k) /\ UNCHANGED <<pending, answered, blockers, captures>>
      BY <1>1, <1>3, <2>4 DEF Retry
    <3>2. EngineeringAnswer(c, Below(c), m, k)
      BY <1>2, <1>3, <3>1, ToEngineering DEF OnDelivery, IsAnswer
    <3>3. Push(c, Below(c), m, k, "audit", <<>>, 1) /\ UNCHANGED <<lifecycle, stores>>
      BY <1>2, <1>3, <3>2 DEF EngineeringAnswer, OnDelivery
    <3>4. PICK z : Goes(c, z) /\ Changed(s, z, f)
      BY <1>1, <3>3, RetryChanges
    <3>5. EngineeringStack(z, p) /\ Root(z).msg = m
      BY <2>1, <3>4 DEF NewFrame
    <3> QED  BY <1>1, <1>2, <3>1, <3>3, <3>4, <3>5, DeliveryWaits DEF Untouched
  <2>5. CASE Escalate(c)
    BY <1>1, <1>2, <1>3, <2>5, CallGivenUp DEF OnDelivery, IsAnswer
  <2> QED  BY <1>1, <1>3, <2>2, <2>3, <2>4, <2>5, StepByTop
<1>4. CASE /\ b.at = "send" /\ Len(s) = 1
           /\ \A k \in 1..Len(b.out) : b.out[k] \in News(p)
           /\ m.decision = "approve" => lifecycle[p] = "delivered"
  <2>1. CASE b.out = <<>>
    <3>1. Resting(b)
      BY <1>4, <2>1 DEF Resting
    <3> QED  BY <1>2, <1>4, <3>1, RefusalEnds DEF OnDelivery, IsAnswer
  <2>2. CASE b.out # <<>>
    <3> DEFINE n == Head(b.out)
    <3>1. b.out \in Seq(Message) /\ Dispatch(c)
      BY <1>1, <1>4, <2>2, StepByTop, SentFields
    <3>2. n \in News(p) /\ \A k \in 1..Len(Tail(b.out)) : Tail(b.out)[k] \in News(p)
      <4>1. Len(b.out) \in Nat \ {0} /\ n = b.out[1] /\ Len(Tail(b.out)) = Len(b.out) - 1
        BY <2>2, <3>1
      <4>2. \A k \in 1..Len(Tail(b.out)) : k + 1 \in 1..Len(b.out) /\ Tail(b.out)[k] = b.out[k + 1]
        BY <2>2, <3>1, <4>1
      <4> QED  BY <1>4, <4>1, <4>2
    <3>3. n.to \notin Main /\ n.type # "approval_request"
      BY <3>2, NewsFields DEF Main
    <3>4. /\ Untouched /\ UNCHANGED blockers /\ pending' = Recorded(n)
          /\ \E z, g : Goes(c, z) /\ Grown(s, z, g, Sent(c)) /\ Resting(g)
      BY <1>1, <1>4, <3>1, <3>3, Notice
    <3>5. UNCHANGED pending
      BY <3>3, <3>4, NoteIsNotRecorded
    <3>6. PICK z, g : Goes(c, z) /\ Grown(s, z, g, Sent(c)) /\ Resting(g)
      BY <3>4
    <3>7. Len(z) = 2 /\ z[1] = g /\ Root(z) = Sent(c)
      BY <1>4, <3>6 DEF Grown
    <3>8. Sent(c).msg = m /\ Sent(c).at = "send" /\ Sent(c).out = Tail(b.out)
      BY <1>1, <1>4, SentFields
    <3>9. EngineeringStack(z, p) /\ Root(z).msg = m
      BY <1>2, <1>4, <3>2, <3>6, <3>7, <3>8 DEF EngineeringStack, OnDelivery
    <3> QED  BY <1>1, <1>2, <3>4, <3>5, <3>6, <3>9, DeliveryWaits
  <2> QED  BY <2>1, <2>2
<1>5. CASE /\ b.at = "send" /\ Len(s) = 2 /\ Resting(s[1])
           /\ \A k \in 1..Len(b.out) : b.out[k] \in News(p)
           /\ m.decision = "approve" => lifecycle[p] = "delivered"
  <2>1. Return(c)
    BY <1>1, <1>5, StepByTop DEF Resting
  <2>2. PICK z : Goes(c, z) /\ Shrunk(s, z)
    BY <1>1, <2>1, ReturnShrinks
  <2>3. Len(z) = 1 /\ Root(z) = b
    BY <1>5, <2>2 DEF Shrunk
  <2>4. EngineeringStack(z, p) /\ Root(z).msg = m
    BY <1>2, <1>5, <2>3 DEF EngineeringStack, OnDelivery
  <2>5. Untouched /\ UNCHANGED <<pending, blockers>>
    BY <2>1 DEF Return, Untouched, stores
  <2> QED  BY <1>1, <1>2, <2>2, <2>4, <2>5, DeliveryWaits
<1> QED  BY <1>3, <1>4, <1>5 DEF EngineeringStack

-----------------------------------------------------------------------------
(* A step of any call.                                                     *)
LEMMA FlowGoesOn ==
  ASSUME GateInv, FlowInv, NEW c \in Callers, Step(c)
  PROVE  FlowInv' /\ Advances
<1> DEFINE s == calls[c]
           m == Root(s).msg
<1>1. s # <<>> /\ m.p \in Projects
  BY StepByTop, OpenCall
<1>2. FlowStack(s)
  BY <1>1 DEF FlowInv, Stacks
<1>3. CASE m.type = "status_update" /\ CaptureStack(s, m.p)
  BY <1>1, <1>3, CaptureGoesOn
<1>4. CASE IsAnswer(m, "sales") /\ SalesStack(s, m.p)
  BY <1>1, <1>4, SalesGoesOn
<1>5. CASE IsAnswer(m, "product") /\ ProductStack(s, m.p)
  BY <1>1, <1>5, ProductGoesOn
<1>6. CASE IsAnswer(m, "engineering") /\ EngineeringStack(s, m.p)
  BY <1>1, <1>6, EngineeringGoesOn
<1>7. CASE m.to \notin Main /\ OtherStack(s)
  BY <1>1, <1>7, RefusalEnds DEF OtherStack, IsAnswer, Main
<1> QED  BY <1>2, <1>3, <1>4, <1>5, <1>6, <1>7 DEF FlowStack, IsAnswer

-----------------------------------------------------------------------------
(* A lead is captured, once.                                               *)
LEMMA FlowCaptures ==
  ASSUME OneLead, GateInv, FlowInv, NEW c \in Callers, NEW p \in Projects, CaptureLead(c, p)
  PROVE  FlowInv' /\ Onwards(p, "none", "lead")
<1> DEFINE m == Status(p, "marketing", "sales")
           f == NewFrame(m, 1, "send", <<Ask(p, "sales", 1)>>, 0)
           z == <<f>>
<1>1. captures[p] = 0 /\ captures'[p] = 1 /\ \A q \in Projects : q # p => captures'[q] = captures[q]
  BY PipelineAssumption DEF CaptureLead, OneLead, GateInv, Counters, PipelineAssumption
<1>2. Progress(p)
  BY DEF FlowInv
<1>3. lifecycle[p] = "none" /\ Unasked(p, "sales")
  BY <1>1, <1>2 DEF Progress
<1>4. product[p].spec = 0 /\ engineering[p] = 0 /\ Unasked(p, "product")
      /\ Unasked(p, "engineering") /\ ~Heard(p, "proposal_final")
  BY <1>2, <1>3, MainGatesDiffer DEF Progress, Unasked
<1>5. lifecycle' = [lifecycle EXCEPT ![p] = "lead"] /\ sales' = [sales EXCEPT ![p] = "pending"]
      /\ UNCHANGED <<product, engineering, pending, answered, blockers>>
  BY <1>3 DEF CaptureLead, SetPhase
<1>6. /\ lifecycle'[p] = "lead" /\ sales'[p] = "pending"
      /\ \A q \in Projects : q # p => lifecycle'[q] = lifecycle[q] /\ sales'[q] = sales[q]
  BY <1>5 DEF GateInv, GoodStores, StoreTypes
<1>7. Goes(c, z) /\ calls[c] = <<>>
  BY DEF CaptureLead, Sends, Push, NewFrame, Goes, Idle
<1>8. Len(z) = 1 /\ z # <<>> /\ Root(z) = f
  BY DEF Root
<1>9. f.msg = m /\ f.at = "send" /\ f.out = <<Ask(p, "sales", 1)>>
  BY DEF NewFrame
<1>10. m.p = p /\ m.type = "status_update" /\ m.to = "sales"
  BY StatusFields
<1> HIDE DEF m, z
<1>11. \A q, gate : Heard(q, gate) <=> Heard(q, gate)'
  BY <1>5 DEF Heard
<1>12. \A q, a : /\ IsPending(q, a) <=> IsPending(q, a)'
                 /\ Unasked(q, a) <=> Unasked(q, a)'
  BY <1>5, <1>11 DEF IsPending, Unasked
<1>13. CaptureStack(z, p)'
  BY <1>1, <1>3, <1>8, <1>9, <1>12 DEF CaptureStack, m
<1>14. FlowStack(z)'
  BY <1>8, <1>9, <1>10, <1>13 DEF FlowStack
<1>15. Fresh(c, m)
  <2> SUFFICES ASSUME NEW d \in Callers, calls[d] # <<>>, SameErrand(Root(calls[d]).msg, m)
               PROVE  FALSE
    BY DEF Fresh
  <2>1. FlowStack(calls[d])
    BY DEF FlowInv, Stacks
  <2>2. CaptureStack(calls[d], p)
    BY <1>10, <2>1 DEF FlowStack, SameErrand
  <2> QED  BY <1>1, <2>2 DEF CaptureStack
<1>16. OthersKept(m, p)
  BY <1>4, MainGatesDiffer DEF OthersKept, Unasked, m
<1>17. Progress(p)' /\ HalfBuild(p)'
  BY <1>1, <1>4, <1>5, <1>6, <1>11, <1>12 DEF Progress, HalfBuild
<1>18. \A q \in Projects : q # p => SameView(q)
  BY <1>1, <1>5, <1>6, <1>11, <1>12 DEF SameView
<1>19. Grows /\ FirstRequests'
  BY <1>5, <1>11 DEF Grows, FlowInv, FirstRequests
<1>20. FlowInv'
  BY <1>7, <1>8, <1>9, <1>10, <1>14, <1>15, <1>16, <1>17, <1>18, <1>19, Assemble
<1> QED  BY <1>3, <1>5, <1>20 DEF Onwards

(* The run of a department asks for no gate's approval.                    *)
LEMMA FlowRuns ==
  ASSUME OneLead, GateInv, FlowInv, NEW p \in Projects, NEW h \in Heads, DepartmentRun(p, h)
  PROVE  FlowInv'
<1>1. pending' = pending \cup {Request(p, h, 0)}
      /\ UNCHANGED <<lifecycle, stores, answered, blockers, calls, captures>>
  BY DEF DepartmentRun
<1>2. h \notin Main /\ Request(p, h, 0).from = h
  BY DEF OneLead, Main, Request
<1>3. \A q, gate : Heard(q, gate) <=> Heard(q, gate)'
  BY <1>1 DEF Heard
<1>4. \A q, a : a \in Main => (IsPending(q, a) <=> IsPending(q, a)')
  BY <1>1, <1>2 DEF IsPending
<1>5. \A q \in Projects : SameView(q)
  BY <1>1, <1>3, <1>4 DEF SameView, stores
<1>6. Grows
  BY <1>1 DEF Grows
<1>7. Stacks'
  <2> SUFFICES ASSUME NEW d \in Callers, calls'[d] # <<>> PROVE FlowStack(calls[d])'
    BY DEF Stacks
  <2>1. PICK s : s = calls[d]
    OBVIOUS
  <2>2. s # <<>> /\ calls'[d] = s
    BY <1>1, <2>1
  <2>3. Root(s).msg.p \in Projects /\ FlowStack(s)
    BY <2>1, <2>2, OpenCall DEF FlowInv, Stacks
  <2>4. FlowStack(s)'
    BY <1>5, <1>6, <2>3, SameStack
  <2> QED  BY <2>2, <2>4
<1>8. OneCallPerErrand'
  BY <1>1 DEF FlowInv, OneCallPerErrand
<1>9. FirstRequests'
  BY <1>1, <1>2, <1>3 DEF FlowInv, FirstRequests
<1>10. ASSUME NEW q \in Projects PROVE (Progress(q) /\ HalfBuild(q))'
  <2>1. Progress(q)'
    BY <1>5, SameProgress DEF FlowInv
  <2>2. HalfBuild(q)'
    BY <1>1 DEF FlowInv, HalfBuild, Blocked, Answering, stores
  <2> QED  BY <2>1, <2>2
<1> QED  BY <1>7, <1>8, <1>9, <1>10 DEF FlowInv

-----------------------------------------------------------------------------
(* The owner answers a request.                                            *)
LEMMA PushFirst ==
  ASSUME NEW c, NEW m, NEW k, NEW at, NEW out, NEW ver, Push(c, <<>>, m, k, at, out, ver)
  PROVE  \E z : Goes(c, z) /\ Len(z) = 1 /\ z # <<>> /\ Root(z) = NewFrame(m, k, at, out, ver)
<1> DEFINE f == NewFrame(m, k, at, out, ver)
           z == <<f>> \o <<>>
<1>1. Goes(c, z)
  BY DEF Push, NewFrame, Goes
<1> HIDE DEF f
<1>2. z = <<f>>
  OBVIOUS
<1>3. Len(<<f>>) = 1 /\ <<f>> # <<>> /\ Root(<<f>>) = f
  BY DEF Root
<1> QED  BY <1>1, <1>2, <1>3 DEF f

(* What an answer makes of the requests and of what is heard.              *)
LEMMA Responded ==
  ASSUME GateInv, FlowInv, NEW c \in Callers, NEW r \in pending, NEW d \in Decisions,
         Respond(c, r, d)
  PROVE  /\ r.p \in Projects /\ r.from \in Agents /\ r.gate = GateOf(r.from)
         /\ calls[c] = <<>> /\ Handle(c, <<>>, Answer(r, d), 1)
         /\ UNCHANGED <<blockers, captures>> /\ Grows
         /\ Heard(r.p, r.gate)' /\ IsPending(r.p, r.from)
         /\ \A q, gate : q # r.p \/ gate # r.gate => (Heard(q, gate) <=> Heard(q, gate)')
         /\ \A q \in Projects : \A a \in Main :
               /\ q # r.p \/ a # r.from => (IsPending(q, a) <=> IsPending(q, a)')
               /\ q # r.p \/ a # r.from => (Unasked(q, a) <=> Unasked(q, a)')
         /\ FirstRequests'
         /\ r.from \in Main =>
              /\ r.ver = 1 /\ ~Heard(r.p, r.gate)
              /\ d = "approve" => Approved(r.p, r.gate, 1)'
<1>1. r \in GoodRequest
  BY DEF GateInv
<1>2. r.p \in Projects /\ r.from \in Agents /\ r.gate = GateOf(r.from)
  BY <1>1 DEF GoodRequest
<1> DEFINE a == [p |-> r.p, gate |-> r.gate, ver |-> r.ver, decision |-> d]
<1>3. /\ calls[c] = <<>> /\ Handle(c, <<>>, Answer(r, d), 1)
      /\ UNCHANGED <<blockers, captures>>
      /\ pending' = pending \ {r} /\ answered' = answered \cup {a}
  BY DEF Respond, Without, Idle
<1>4. a.p = r.p /\ a.gate = r.gate
  OBVIOUS
<1>5. Heard(r.p, r.gate)' /\ IsPending(r.p, r.from)
  BY <1>3, <1>4 DEF Heard, IsPending
<1>6. ASSUME NEW q, NEW gate, q # r.p \/ gate # r.gate
      PROVE  Heard(q, gate) <=> Heard(q, gate)'
  BY <1>3, <1>4, <1>6 DEF Heard
<1>7. ASSUME NEW q, NEW ag, q # r.p \/ ag # r.from
      PROVE  IsPending(q, ag) <=> IsPending(q, ag)'
  BY <1>3, <1>7 DEF IsPending
<1>8. ASSUME NEW q \in Projects, NEW ag \in Main, q # r.p \/ ag # r.from
      PROVE  Unasked(q, ag) <=> Unasked(q, ag)'
  <2>1. q # r.p \/ GateOf(ag) # r.gate
    BY <1>2, <1>8, MainGatesDiffer DEF Main
  <2> QED  BY <1>6, <1>7, <1>8, <2>1 DEF Unasked
<1>9. FirstRequests
  BY DEF FlowInv
<1>10. r.from \in Main => r.ver = 1 /\ ~Heard(r.p, r.gate)
  BY <1>9 DEF FirstRequests
<1>11. r.from \in Main /\ d = "approve" => Approved(r.p, r.gate, 1)'
  BY <1>3, <1>10 DEF Approved
<1>12. FirstRequests'
  <2> SUFFICES ASSUME NEW n \in pending, n # r, n.from \in Main
               PROVE  n.ver = 1 /\ ~Heard(n.p, n.gate)'
    BY <1>3 DEF FirstRequests
  <2>1. n \in GoodRequest /\ n.gate = GateOf(n.from)
    BY DEF GateInv, GoodRequest
  <2>2. n.ver = 1 /\ ~Heard(n.p, n.gate)
    BY <1>9 DEF FirstRequests
  <2>3. n.p # r.p \/ n.gate # r.gate
    <3> SUFFICES ASSUME n.p = r.p, n.gate = r.gate PROVE FALSE
      OBVIOUS
    <3>1. r.from = n.from
      BY <1>2, <2>1, MainGatesDiffer DEF Main
    <3>2. r.ver = n.ver
      BY <1>10, <2>2, <3>1
    <3>3. r = n
      BY <1>1, <2>1, <3>1, <3>2 DEF GoodRequest
    <3> QED  BY <3>3
  <2> QED  BY <1>6, <2>2, <2>3
<1>13. Grows
  BY <1>3 DEF Grows
<1> QED  BY <1>2, <1>3, <1>5, <1>6, <1>7, <1>8, <1>10, <1>11, <1>12, <1>13

(* Nobody runs the errand of an answer not heard yet.                      *)
LEMMA UnheardIsFresh ==
  ASSUME FlowInv, NEW c, NEW m, m.type = "approval_response",
         m.to \in Main => ~Heard(m.p, GateOf(m.to))
  PROVE  Fresh(c, m)
<1> SUFFICES ASSUME NEW d \in Callers, calls[d] # <<>>, SameErrand(Root(calls[d]).msg, m)
             PROVE  FALSE
  BY DEF Fresh
<1>1. FlowStack(calls[d])
  BY DEF FlowInv, Stacks
<1>2. m.to \in Main /\ ~Heard(m.p, GateOf(m.to))
  BY DEF SameErrand
<1>3. \/ m.to = "sales" /\ SalesStack(calls[d], m.p)
      \/ m.to = "product" /\ ProductStack(calls[d], m.p)
      \/ m.to = "engineering" /\ EngineeringStack(calls[d], m.p)
  BY <1>1, <1>2 DEF FlowStack, SameErrand
<1> QED  BY <1>2, <1>3, MainGatesDiffer DEF SalesStack, ProductStack, EngineeringStack

(* The four agents that may be answered.                                   *)
LEMMA FlowRespondsSales ==
  ASSUME GateInv, FlowInv, NEW c \in Callers, NEW r \in pending, NEW d \in Decisions,
         Respond(c, r, d), r.from = "sales"
  PROVE  FlowInv' /\ (UNCHANGED lifecycle \/ (d = "approve" /\ Onwards(r.p, "lead", "won")))
<1> DEFINE p == r.p
           m == Answer(r, d)
<1>1. /\ m.type = "approval_response" /\ m.to = "sales" /\ m.p = p /\ m.decision = d
      /\ "sales" \in Main
  BY DEF Answer, Main
<1>2. /\ p \in Projects /\ r.gate = "proposal_final"
      /\ calls[c] = <<>> /\ Handle(c, <<>>, m, 1)
      /\ UNCHANGED <<blockers, captures>> /\ Grows
      /\ Heard(p, "proposal_final")' /\ IsPending(p, "sales") /\ ~Heard(p, "proposal_final")
      /\ \A q, gate : q # p \/ gate # "proposal_final" => (Heard(q, gate) <=> Heard(q, gate)')
      /\ \A q \in Projects : \A a \in Main :
           /\ q # p \/ a # "sales" => (IsPending(q, a) <=> IsPending(q, a)')
           /\ q # p \/ a # "sales" => (Unasked(q, a) <=> Unasked(q, a)')
      /\ FirstRequests'
  BY <1>1, Responded, MainGatesDiffer
<1>3. Progress(p)
  BY <1>2 DEF FlowInv
<1>4. /\ captures[p] # 0 /\ ~Unasked(p, "sales") /\ lifecycle[p] = "lead" /\ sales[p] = "pending"
      /\ product[p].spec = 0 /\ engineering[p] = 0
      /\ Unasked(p, "product") /\ Unasked(p, "engineering")
  BY <1>2, <1>3 DEF Progress, Unasked
<1> HIDE DEF m, p
<1>5. SalesAnswer(c, <<>>, m, 1)
  BY <1>1, <1>2, <1>4, ToSales
<1>6. /\ sales' = [sales EXCEPT ![p] = d] /\ UNCHANGED <<product, engineering>>
      /\ \/ d # "approve" /\ UNCHANGED lifecycle /\ Sends(c, <<>>, m, 1, <<>>)
         \/ /\ d = "approve" /\ lifecycle' = [lifecycle EXCEPT ![p] = "won"]
            /\ Sends(c, <<>>, m, 1, <<Lead(p), Status(p, "sales", "pm")>>)
  <2>1. Try(Try(Try("lead", "lead_qualified"), "proposal_sent"), "deal_won") = "won"
    BY DEF Try, Edge
  <2> QED  BY <1>1, <1>4, <1>5, <2>1 DEF SalesAnswer, SetPhase, Lead
<1>7. PICK out : /\ Sends(c, <<>>, m, 1, out)
                 /\ \/ d # "approve" /\ UNCHANGED lifecycle /\ out = <<>>
                    \/ /\ d = "approve" /\ lifecycle' = [lifecycle EXCEPT ![p] = "won"]
                       /\ out = <<Lead(p), Status(p, "sales", "pm")>>
  BY <1>6
<1>8. PICK z : Goes(c, z) /\ Len(z) = 1 /\ z # <<>> /\ Root(z) = NewFrame(m, 1, "send", out, 0)
  BY <1>7, PushFirst DEF Sends
<1>9. Root(z).msg = m /\ Root(z).at = "send" /\ Root(z).out = out
  BY <1>8 DEF NewFrame
<1>10. /\ \A q \in Projects : q # p => lifecycle'[q] = lifecycle[q] /\ sales'[q] = sales[q]
       /\ lifecycle'[p] \in {"lead", "won"} /\ (d = "approve" => lifecycle'[p] = "won")
  BY <1>2, <1>4, <1>6 DEF GateInv, GoodStores, StoreTypes
<1>11. SalesStack(z, p)'
  BY <1>1, <1>2, <1>4, <1>6, <1>7, <1>8, <1>9, <1>10 DEF SalesStack
<1>12. FlowStack(z)'
  BY <1>1, <1>9, <1>11 DEF FlowStack
<1>13. Fresh(c, m)
  BY <1>1, <1>2, UnheardIsFresh, MainGatesDiffer
<1>14. OthersKept(m, p)
  BY <1>1, <1>2, <1>4, MainGatesDiffer DEF OthersKept, IsAnswer, KeepsCapture, Unasked
<1>15. Progress(p)' /\ HalfBuild(p)'
  <2>1. Unasked(p, "product")' /\ Unasked(p, "engineering")'
    BY <1>2, <1>4 DEF Main
  <2> QED  BY <1>2, <1>4, <1>6, <1>10, <2>1 DEF Progress, HalfBuild
<1>16. \A q \in Projects : q # p => SameView(q)
  BY <1>2, <1>6, <1>10 DEF SameView
<1>17. FlowInv'
  BY <1>1, <1>2, <1>8, <1>9, <1>12, <1>13, <1>14, <1>15, <1>16, Assemble
<1>18. UNCHANGED lifecycle \/ (d = "approve" /\ Onwards(p, "lead", "won"))
  BY <1>4, <1>6 DEF Onwards
<1> QED  BY <1>17, <1>18 DEF p

LEMMA FlowRespondsProduct ==
  ASSUME GateInv, FlowInv, NEW c \in Callers, NEW r \in pending, NEW d \in Decisions,
         Respond(c, r, d), r.from = "product"
  PROVE  FlowInv' /\ UNCHANGED lifecycle
<1> DEFINE p == r.p
           m == Answer(r, d)
<1>1. /\ m.type = "approval_response" /\ m.to = "product" /\ m.p = p /\ m.decision = d
      /\ "product" \in Main
  BY DEF Answer, Main
<1>2. /\ p \in Projects /\ r.gate = "spec_final"
      /\ calls[c] = <<>> /\ Handle(c, <<>>, m, 1)
      /\ UNCHANGED <<blockers, captures>> /\ Grows
      /\ Heard(p, "spec_final")' /\ IsPending(p, "product") /\ ~Heard(p, "spec_final")
      /\ \A q, gate : q # p \/ gate # "spec_final" => (Heard(q, gate) <=> Heard(q, gate)')
      /\ \A q \in Projects : \A a \in Main :
           /\ q # p \/ a # "product" => (IsPending(q, a) <=> IsPending(q, a)')
           /\ q # p \/ a # "product" => (Unasked(q, a) <=> Unasked(q, a)')
      /\ FirstRequests'
      /\ d = "approve" => Approved(p, "spec_final", 1)'
  BY <1>1, Responded, MainGatesDiffer
<1>3. Progress(p)
  BY <1>2 DEF FlowInv
<1>4. /\ product[p].spec = 1 /\ engineering[p] = 0 /\ lifecycle[p] = "discovery"
      /\ Heard(p, "proposal_final") /\ captures[p] # 0 /\ ~Unasked(p, "product")
      /\ Unasked(p, "engineering")
  <2>1. product[p].spec # 0 /\ ~Unasked(p, "product")
    BY <1>2, <1>3 DEF Progress, Unasked
  <2>2. Heard(p, "proposal_final") /\ product[p].spec = 1 /\ engineering[p] = 0
        /\ lifecycle[p] = "discovery"
    BY <1>2, <1>3, <2>1 DEF Progress
  <2> QED  BY <1>3, <2>1, <2>2, MainGatesDiffer DEF Progress, Unasked
<1> HIDE DEF m, p
<1>5. ProductAnswer(c, <<>>, m, 1)
  BY <1>1, <1>2, <1>4, ToProduct
<1>6. /\ product' = [product EXCEPT ![p] = Decided(product[p], d)]
      /\ UNCHANGED <<lifecycle, sales, engineering>> /\ Sends(c, <<>>, m, 1, Onward(m))
  BY <1>1, <1>5 DEF ProductAnswer
<1>7. /\ product'[p] = Decided(product[p], d)
      /\ \A q \in Projects : q # p => product'[q] = product[q]
  BY <1>2, <1>6 DEF GateInv, GoodStores, StoreTypes
<1>8. Decided(product[p], d).spec \in {1, 2} /\ (d = "approve" => Decided(product[p], d).spec = 1)
  BY <1>4 DEF Decided
<1>9. PICK z : Goes(c, z) /\ Len(z) = 1 /\ z # <<>>
               /\ Root(z) = NewFrame(m, 1, "send", Onward(m), 0)
  BY <1>6, PushFirst DEF Sends
<1>10. /\ Root(z).msg = m /\ Root(z).at = "send" /\ Root(z).out = Onward(m)
       /\ d = "approve" => Onward(m) = <<Status(p, "product", "pm"), Handoff(p)>>
       /\ d # "approve" => Onward(m) = <<>>
  BY <1>1, <1>9 DEF NewFrame, Onward, Handoff
<1>11. ProductStack(z, p)'
  <2>1. CASE d = "approve"
    BY <1>1, <1>2, <1>4, <1>6, <1>7, <1>8, <1>9, <1>10, <2>1 DEF ProductStack
  <2>2. CASE d # "approve"
    BY <1>1, <1>2, <1>4, <1>6, <1>9, <1>10, <2>2 DEF ProductStack, Resting
  <2> QED  BY <2>1, <2>2
<1>12. FlowStack(z)'
  BY <1>1, <1>10, <1>11 DEF FlowStack
<1>13. Fresh(c, m)
  BY <1>1, <1>2, UnheardIsFresh, MainGatesDiffer
<1>14. OthersKept(m, p)
  <2>1. KeepsCapture(p)
    BY <1>2, <1>4 DEF KeepsCapture, Main
  <2>2. KeepsSales(p)
    BY <1>4, <1>7, <1>8 DEF KeepsSales
  <2>3. ~Heard(p, "delivery_final")
    BY <1>4, MainGatesDiffer DEF Unasked
  <2> QED  BY <1>1, <2>1, <2>2, <2>3 DEF OthersKept, IsAnswer
<1>15. Progress(p)' /\ HalfBuild(p)'
  <2>1. Unasked(p, "engineering")' /\ Heard(p, "proposal_final")'
    BY <1>2, <1>4 DEF Main
  <2> QED  BY <1>2, <1>4, <1>6, <1>7, <1>8, <2>1 DEF Progress, HalfBuild
<1>16. \A q \in Projects : q # p => SameView(q)
  BY <1>2, <1>6, <1>7 DEF SameView
<1>17. FlowInv'
  BY <1>1, <1>2, <1>9, <1>10, <1>12, <1>13, <1>14, <1>15, <1>16, Assemble
<1> QED  BY <1>6, <1>17

LEMMA FlowRespondsEngineering ==
  ASSUME GateInv, FlowInv, NEW c \in Callers, NEW r \in pending, NEW d \in Decisions,
         Respond(c, r, d), r.from = "engineering"
  PROVE  FlowInv' /\ UNCHANGED lifecycle
<1> DEFINE p == r.p
           m == Answer(r, d)
<1>1. /\ m.type = "approval_response" /\ m.to = "engineering" /\ m.p = p /\ m.decision = d
      /\ m.ver = r.ver /\ "engineering" \in Main
  BY DEF Answer, Main
<1>2. /\ p \in Projects /\ r.gate = "delivery_final" /\ r.ver = 1
      /\ calls[c] = <<>> /\ Handle(c, <<>>, m, 1)
      /\ UNCHANGED <<blockers, captures>> /\ Grows
      /\ Heard(p, "delivery_final")' /\ IsPending(p, "engineering") /\ ~Heard(p, "delivery_final")
      /\ \A q, gate : q # p \/ gate # "delivery_final" => (Heard(q, gate) <=> Heard(q, gate)')
      /\ \A q \in Projects : \A a \in Main :
           /\ q # p \/ a # "engineering" => (IsPending(q, a) <=> IsPending(q, a)')
           /\ q # p \/ a # "engineering" => (Unasked(q, a) <=> Unasked(q, a)')
      /\ FirstRequests'
      /\ d = "approve" => Approved(p, "delivery_final", 1)'
  BY <1>1, Responded, MainGatesDiffer
<1>3. Progress(p)
  BY <1>2 DEF FlowInv
<1>4. /\ engineering[p] = 1 /\ lifecycle[p] = "qa" /\ ~Unasked(p, "engineering")
      /\ product[p].spec # 0 /\ Heard(p, "proposal_final") /\ captures[p] # 0
      /\ Heard(p, "spec_final")
  <2>1. engineering[p] # 0 /\ ~Unasked(p, "engineering")
    BY <1>2, <1>3 DEF Progress, Unasked
  <2>2. /\ engineering[p] = 1 /\ lifecycle[p] = "qa" /\ product[p].spec # 0
        /\ Heard(p, "proposal_final") /\ Heard(p, "spec_final")
    BY <1>2, <1>3, <2>1 DEF Progress
  <2> QED  BY <1>3, <2>1, <2>2, MainGatesDiffer DEF Progress, Unasked
<1> HIDE DEF m, p
<1>5. EngineeringAnswer(c, <<>>, m, 1)
  BY <1>1, <1>2, <1>4, ToEngineering
<1>6. UNCHANGED <<lifecycle, stores>> /\ Push(c, <<>>, m, 1, "audit", <<>>, 1)
  BY <1>1, <1>4, <1>5 DEF EngineeringAnswer
<1>7. PICK z : Goes(c, z) /\ Len(z) = 1 /\ z # <<>> /\ Root(z) = NewFrame(m, 1, "audit", <<>>, 1)
  BY <1>6, PushFirst
<1>8. Root(z).msg = m /\ Root(z).at = "audit" /\ Root(z).out = <<>> /\ Root(z).ver = 1
  BY <1>7 DEF NewFrame
<1>9. EngineeringStack(z, p)'
  BY <1>1, <1>2, <1>4, <1>6, <1>7, <1>8 DEF EngineeringStack, stores
<1>10. FlowStack(z)'
  BY <1>1, <1>8, <1>9 DEF FlowStack
<1>11. Fresh(c, m)
  BY <1>1, <1>2, UnheardIsFresh, MainGatesDiffer
<1>12. OthersKept(m, p)
  <2>1. KeepsCapture(p)
    BY <1>2, <1>4 DEF KeepsCapture, Main
  <2>2. KeepsSales(p)
    BY <1>2, <1>6 DEF KeepsSales, Main, stores
  <2>3. KeepsProduct(p)
    BY <1>4, <1>6 DEF KeepsProduct, stores
  <2> QED  BY <1>1, <2>1, <2>2, <2>3 DEF OthersKept, IsAnswer
<1>13. Progress(p)' /\ HalfBuild(p)'
  <2>1. Heard(p, "proposal_final")' /\ Heard(p, "spec_final")'
    BY <1>2, <1>4
  <2> QED  BY <1>2, <1>4, <1>6, <2>1 DEF Progress, HalfBuild, stores
<1>14. \A q \in Projects : q # p => SameView(q)
  BY <1>2, <1>6 DEF SameView, stores
<1>15. FlowInv'
  BY <1>1, <1>2, <1>7, <1>8, <1>10, <1>11, <1>12, <1>13, <1>14, Assemble
<1> QED  BY <1>6, <1>15

LEMMA FlowRespondsOther ==
  ASSUME GateInv, FlowInv, NEW c \in Callers, NEW r \in pending, NEW d \in Decisions,
         Respond(c, r, d), r.from \notin Main
  PROVE  FlowInv' /\ UNCHANGED lifecycle
<1> DEFINE p == r.p
           m == Answer(r, d)
<1>1. m.type = "approval_response" /\ m.to = r.from /\ m.to \notin Main /\ m.p = p
  BY DEF Answer
<1>2. /\ p \in Projects /\ r.gate = "strategic_decision"
      /\ calls[c] = <<>> /\ Handle(c, <<>>, m, 1)
      /\ UNCHANGED <<blockers, captures>> /\ Grows
      /\ \A q, gate : gate # "strategic_decision" => (Heard(q, gate) <=> Heard(q, gate)')
      /\ \A q \in Projects : \A a \in Main : IsPending(q, a) <=> IsPending(q, a)'
      /\ FirstRequests'
  <2>1. r.from \in Agents /\ r.gate = GateOf(r.from)
    BY Responded
  <2>2. r.gate = "strategic_decision"
    BY <2>1, MainGatesDiffer
  <2> QED  BY <1>1, <2>2, Responded
<1> HIDE DEF m, p
<1>3. Sends(c, <<>>, m, 1, <<>>) /\ UNCHANGED <<lifecycle, stores>>
  BY <1>1, <1>2, ToBystander
<1>4. PICK z : Goes(c, z) /\ Len(z) = 1 /\ z # <<>> /\ Root(z) = NewFrame(m, 1, "send", <<>>, 0)
  BY <1>3, PushFirst DEF Sends
<1>5. Root(z).msg = m /\ Resting(Root(z))
  BY <1>4 DEF NewFrame, Resting
<1>6. FlowStack(z)'
  BY <1>1, <1>4, <1>5 DEF FlowStack, OtherStack
<1>7. Fresh(c, m)
  BY <1>1, UnheardIsFresh
<1>8. \A q \in Projects : SameView(q)
  BY <1>2, <1>3 DEF SameView, MainGates, stores
<1>9. Progress(p) /\ HalfBuild(p)
  BY <1>2 DEF FlowInv
<1>10. OthersKept(m, p)
  BY <1>2, <1>8, SameKeeps DEF OthersKept
<1>11. Progress(p)'
  BY <1>2, <1>8, <1>9, SameProgress
<1>12. HalfBuild(p)'
  <2>1. \A b \in Callers : Answering(b, p, "product") => Answering(b, p, "product")'
    BY <1>2, <1>4 DEF Answering, Goes, GateInv, GoodStacks
  <2> QED  BY <1>2, <1>3, <1>9, <2>1 DEF HalfBuild, Blocked, stores
<1>13. FlowInv'
  BY <1>1, <1>2, <1>4, <1>5, <1>6, <1>7, <1>8, <1>10, <1>11, <1>12, Assemble
<1> QED  BY <1>3, <1>13

LEMMA FlowResponds ==
  ASSUME GateInv, FlowInv, NEW c \in Callers, NEW r \in pending, NEW d \in Decisions,
         Respond(c, r, d)
  PROVE  /\ FlowInv'
         /\ \/ UNCHANGED lifecycle
            \/ d = "approve" /\ r.gate = "proposal_final" /\ Onwards(r.p, "lead", "won")
<1>1. r.from \in Agents /\ r.gate = GateOf(r.from)
  BY Responded
<1> QED
  BY <1>1, FlowRespondsSales, FlowRespondsProduct, FlowRespondsEngineering, FlowRespondsOther,
     MainGatesDiffer DEF Main

-----------------------------------------------------------------------------
(* The invariant of the flow.                                              *)
LEMMA FlowBegins == Init => FlowInv
<1> SUFFICES ASSUME Init PROVE FlowInv
  OBVIOUS
<1>1. /\ answered = {} /\ pending = {} /\ \A c \in Callers : calls[c] = <<>>
      /\ \A p \in Projects : /\ lifecycle[p] = "none" /\ product[p].spec = 0
                             /\ engineering[p] = 0 /\ captures[p] = 0
  BY DEF Init
<1>2. \A p, a : Unasked(p, a)
  BY <1>1 DEF Unasked, Heard, IsPending
<1>3. \A p \in Projects : Progress(p) /\ HalfBuild(p)
  BY <1>1, <1>2 DEF Progress, HalfBuild
<1> QED  BY <1>1, <1>3 DEF FlowInv, Stacks, OneCallPerErrand, FirstRequests

LEMMA FlowStutters ==
  ASSUME GateInv, FlowInv, UNCHANGED vars
  PROVE  FlowInv'
<1>1. UNCHANGED <<lifecycle, stores, pending, answered, blockers, calls, captures>>
  BY DEF vars
<1>2. \A q, gate : Heard(q, gate) <=> Heard(q, gate)'
  BY <1>1 DEF Heard
<1>3. \A q, a : IsPending(q, a) <=> IsPending(q, a)'
  BY <1>1 DEF IsPending
<1>4. \A q \in Projects : SameView(q)
  BY <1>1, <1>2, <1>3 DEF SameView, stores
<1>5. Grows
  BY <1>1 DEF Grows
<1>6. Stacks'
  <2> SUFFICES ASSUME NEW d \in Callers, calls'[d] # <<>> PROVE FlowStack(calls[d])'
    BY DEF Stacks
  <2>1. PICK s : s = calls[d]
    OBVIOUS
  <2>2. s # <<>> /\ calls'[d] = s
    BY <1>1, <2>1
  <2>3. Root(s).msg.p \in Projects /\ FlowStack(s)
    BY <2>1, <2>2, OpenCall DEF FlowInv, Stacks
  <2>4. FlowStack(s)'
    BY <1>4, <1>5, <2>3, SameStack
  <2> QED  BY <2>2, <2>4
<1>7. OneCallPerErrand'
  BY <1>1 DEF FlowInv, OneCallPerErrand
<1>8. FirstRequests'
  BY <1>1, <1>2 DEF FlowInv, FirstRequests
<1>9. ASSUME NEW q \in Projects PROVE (Progress(q) /\ HalfBuild(q))'
  <2>1. Progress(q)'
    BY <1>4, SameProgress DEF FlowInv
  <2>2. HalfBuild(q)'
    BY <1>1 DEF FlowInv, HalfBuild, Blocked, Answering, stores
  <2> QED  BY <2>1, <2>2
<1> QED  BY <1>6, <1>7, <1>8, <1>9 DEF FlowInv

LEMMA FlowNext ==
  ASSUME OneLead, GateInv, FlowInv, [Next]_vars
  PROVE  FlowInv'
BY FlowGoesOn, FlowCaptures, FlowRuns, FlowResponds, FlowStutters DEF Next

LEMMA FlowInvHolds ==
  ASSUME OneLead
  PROVE  Spec => [](GateInv /\ FlowInv)
<1>1. Init => FlowInv
  BY FlowBegins
<1>2. GateInv /\ FlowInv /\ [Next]_vars => FlowInv'
  BY FlowNext
<1> QED  BY <1>1, <1>2, GateInvHolds, PTL DEF Spec

-----------------------------------------------------------------------------
(* A request the owner can still answer is about the version its agent     *)
(* holds (requestApproval, recordApprovalResponse, handleApprovalResponse):*)
(* when a lead is captured once, no answer is thrown away for its version. *)
THEOREM RequestsStayCurrent ==
  ASSUME OneLead
  PROVE  Spec => []RequestsAreCurrent
<1>1. GateInv /\ FlowInv => RequestsAreCurrent
  <2> SUFFICES ASSUME GateInv, FlowInv, NEW r \in pending
               PROVE  /\ r.from = "sales" => sales[r.p] = "pending"
                      /\ r.from = "product" => r.ver = product[r.p].spec
                      /\ r.from = "engineering" => r.ver = engineering[r.p]
    BY DEF RequestsAreCurrent
  <2>1. r.p \in Projects /\ r.gate = GateOf(r.from)
    BY DEF GateInv, GoodRequest
  <2>2. r.from \in Main => r.ver = 1 /\ ~Heard(r.p, r.gate)
    BY DEF FlowInv, FirstRequests
  <2>3. ~Unasked(r.p, r.from)
    BY DEF Unasked, IsPending
  <2>4. Progress(r.p)
    BY <2>1 DEF FlowInv
  <2>5. CASE r.from = "sales"
    BY <2>1, <2>2, <2>3, <2>4, <2>5, MainGatesDiffer DEF Progress, Main
  <2>6. CASE r.from = "product"
    BY <2>1, <2>2, <2>3, <2>4, <2>6, MainGatesDiffer DEF Progress, Main
  <2>7. CASE r.from = "engineering"
    BY <2>1, <2>2, <2>3, <2>4, <2>7, MainGatesDiffer DEF Progress, Main
  <2> QED  BY <2>5, <2>6, <2>7
<1> QED  BY <1>1, FlowInvHolds, PTL

(* A build that stopped half-way, after which no retry can start it again  *)
(* (applyLifecycleUpdate refuses a second build_started), is on the list   *)
(* of blockers (raiseRepeatedFailureEscalation) once its calls have ended. *)
THEOREM HalfBuildsAreReported ==
  ASSUME OneLead
  PROVE  Spec => []HalfBuildIsReported
<1>1. GateInv /\ FlowInv => HalfBuildIsReported
  <2> SUFFICES ASSUME GateInv, FlowInv, NEW p \in Projects,
                      lifecycle[p] \in {"implementation", "qa"}, engineering[p] = 0, ~Busy(p)
               PROVE  Blocked(p)
    BY DEF HalfBuildIsReported, Blocked
  <2>1. ASSUME NEW c \in Callers, Answering(c, p, "product") PROVE FALSE
    <3>1. Len(calls[c]) \in Nat \ {0} /\ calls[c][Len(calls[c])].msg.p = p
      BY <2>1, OpenCall DEF Answering, Root
    <3>2. Len(calls[c]) \in 1..Len(calls[c])
      BY <3>1
    <3> QED  BY <3>1, <3>2 DEF Busy
  <2> QED  BY <2>1 DEF FlowInv, HalfBuild
<1> QED  BY <1>1, FlowInvHolds, PTL

(* What is built and what is delivered is the version the owner approved   *)
(* (acknowledgeEngineeringHandoff, handleApprovalResponse): with one lead  *)
(* per project no call moves the version between approval and build.       *)
THEOREM BuiltAsApproved ==
  ASSUME OneLead
  PROVE  Spec => ApprovedAsBuilt
<1> DEFINE A == \A p \in Projects :
             /\ lifecycle'[p] = "implementation" /\ lifecycle[p] # "implementation"
                  => Approved(p, "spec_final", product[p].spec)
             /\ lifecycle'[p] = "delivered" /\ lifecycle[p] # "delivered"
                  => Approved(p, "delivery_final", engineering[p])
<1>1. GateInv /\ FlowInv /\ [Next]_vars => [A]_vars
  <2> SUFFICES ASSUME GateInv, FlowInv, Next PROVE A
    OBVIOUS
  <2>1. lifecycle \in [Projects -> Phases]
    BY DEF GateInv, GoodStores, StoreTypes
  <2>2. CASE UNCHANGED lifecycle
    BY <2>2
  <2>3. ASSUME NEW c \in Callers, Step(c) PROVE A
    BY <2>1, <2>3, FlowGoesOn DEF Advances, Onwards
  <2>4. ASSUME NEW c \in Callers, NEW p \in Projects, CaptureLead(c, p) PROVE A
    BY <2>1, <2>4, FlowCaptures DEF Onwards
  <2>5. ASSUME NEW c \in Callers, NEW r \in pending, NEW d \in Decisions, Respond(c, r, d)
        PROVE  A
    BY <2>1, <2>5, FlowResponds DEF Onwards
  <2>6. ASSUME NEW p \in Projects, NEW h \in Heads, DepartmentRun(p, h) PROVE A
    BY <2>2, <2>6 DEF DepartmentRun
  <2> QED  BY <2>3, <2>4, <2>5, <2>6 DEF Next
<1>2. Spec => [][Next]_vars
  BY PTL DEF Spec
<1>3. Spec => [][A]_vars
  BY <1>1, <1>2, FlowInvHolds, PTL
<1> QED  BY <1>3 DEF ApprovedAsBuilt

-----------------------------------------------------------------------------
(* A call's stack is changed by its own steps only.                        *)
LEMMA HandlePushes ==
  ASSUME NEW c, NEW rest, NEW m, NEW k, Handle(c, rest, m, k)
  PROVE  \E at, out, ver : Push(c, rest, m, k, at, out, ver)
BY DEF Handle, SalesAnswer, ProductLead, ProductAnswer, ProductAck, EngineeringHandoff,
       EngineeringAnswer, StrayAnswer, Bystander, Sends, Throws

LEMMA HandleGoes ==
  ASSUME NEW c, NEW rest, NEW m, NEW k, Handle(c, rest, m, k)
  PROVE  \E z : Goes(c, z)
BY HandlePushes DEF Push, Goes

LEMMA StepGoes ==
  ASSUME NEW c, Step(c)
  PROVE  \E z : Goes(c, z)
<1>1. CASE Dispatch(c) \/ Retry(c)
  BY <1>1, HandleGoes DEF Dispatch, Retry
<1>2. CASE Return(c) \/ Escalate(c) \/ ReportWritten(c) \/ WriteFails(c)
  BY <1>2 DEF Return, Escalate, ReportWritten, WriteFails, Move, Goes
<1>3. CASE PlanWritten(c) \/ HandoffLogged(c) \/ AnswerLogged(c)
  BY <1>3 DEF PlanWritten, HandoffLogged, AnswerLogged, Advance, Move, Goes
<1> QED  BY <1>1, <1>2, <1>3 DEF Step

LEMMA OwnStepsOnly ==
  ASSUME GateInv, Next, NEW c \in Callers, calls[c] # <<>>, calls'[c] # calls[c]
  PROVE  Step(c)
<1>1. \A d \in Callers : \A z : d # c /\ Goes(d, z) => calls'[c] = calls[c]
  BY DEF Goes, GateInv, GoodStacks
<1>2. ASSUME NEW d \in Callers, Step(d) PROVE d = c
  BY <1>1, <1>2, StepGoes
<1>3. ASSUME NEW d \in Callers, NEW p \in Projects, CaptureLead(d, p) PROVE FALSE
  BY <1>1, <1>3 DEF CaptureLead, Sends, Push, Goes, Idle
<1>4. ASSUME NEW d \in Callers, NEW r \in pending, NEW e \in Decisions, Respond(d, r, e)
      PROVE  FALSE
  BY <1>1, <1>4, HandleGoes DEF Respond, Idle
<1>5. ASSUME NEW p \in Projects, NEW h \in Heads, DepartmentRun(p, h) PROVE FALSE
  BY <1>5 DEF DepartmentRun
<1> QED  BY <1>2, <1>3, <1>4, <1>5 DEF Next

(* A call that brings an approval to an agent and returns without an error *)
(* has had its effect on the next agent down the line, however often the   *)
(* bus (dispatchAgentMessage) ran the handlers again on the way: none of   *)
(* the retries swallows an error, and with it the owner's decision.        *)
THEOREM AnswersTakeEffect ==
  ASSUME OneLead
  PROVE  Spec => ReturnedAnswersTookEffect
<1> DEFINE A == \A c \in Callers :
                  /\ Len(calls[c]) = 1 /\ calls'[c] = <<>> /\ At(c, "send")
                  /\ Top(c).msg.decision = "approve"
                  => Effect(Top(c).msg.p, Top(c).msg.to)
<1>1. GateInv /\ FlowInv /\ [Next]_vars => [A]_vars
  <2> SUFFICES ASSUME GateInv, FlowInv, Next, NEW c \in Callers,
                      Len(calls[c]) = 1, calls'[c] = <<>>, At(c, "send"),
                      Top(c).msg.decision = "approve"
               PROVE  Effect(Top(c).msg.p, Top(c).msg.to)
    OBVIOUS
  <2> DEFINE s == calls[c]
             m == Top(c).msg
  <2>1. s # <<>> /\ Top(c).at = "send"
    BY DEF At, Idle
  <2>2. Root(s) = Top(c) /\ m.to \in Agents /\ m.p \in Projects
    BY <2>1, OpenCall DEF Message
  <2>3. Step(c)
    BY <2>1, OwnStepsOnly
  <2>4. Top(c).out = <<>>
    <3> SUFFICES ASSUME Top(c).out # <<>> PROVE FALSE
      OBVIOUS
    <3>1. Dispatch(c)
      BY <2>1, <2>3, StepByTop
    <3>2. Handle(c, <<Sent(c)>> \o Below(c), Head(Top(c).out), 1)
      BY <3>1 DEF Dispatch, Sent
    <3>3. PICK at, out, ver : Push(c, <<Sent(c)>> \o Below(c), Head(Top(c).out), 1, at, out, ver)
      BY <3>2, HandlePushes
    <3>4. PICK z : Goes(c, z) /\ z # <<>>
      BY <2>1, <3>3, DispatchGrows DEF Grown
    <3> QED  BY <3>4 DEF Goes, GateInv, GoodStacks
  <2>5. FlowStack(s)
    BY <2>1 DEF FlowInv, Stacks
  <2>6. CASE m.type = "status_update" /\ CaptureStack(s, m.p)
    BY <2>2, <2>6 DEF CaptureStack, Status, Note
  <2>7. CASE m.to = "sales" /\ SalesStack(s, m.p)
    BY <2>2, <2>4, <2>7 DEF SalesStack, Effect
  <2>8. CASE m.to = "product" /\ ProductStack(s, m.p)
    BY <2>1, <2>2, <2>4, <2>8 DEF ProductStack, Effect
  <2>9. CASE m.to = "engineering" /\ EngineeringStack(s, m.p)
    BY <2>1, <2>2, <2>9 DEF EngineeringStack, Effect
  <2>10. CASE m.to \notin Main
    BY <2>2, <2>10 DEF Effect, Agents, Main
  <2> QED  BY <2>2, <2>5, <2>6, <2>7, <2>8, <2>9, <2>10 DEF FlowStack
<1>2. Spec => [][Next]_vars
  BY PTL DEF Spec
<1>3. Spec => [][A]_vars
  BY <1>1, <1>2, FlowInvHolds, PTL
<1> QED  BY <1>3 DEF ReturnedAnswersTookEffect

-----------------------------------------------------------------------------
(* The gates granted, after an answer and otherwise.                       *)
GrantsKept == \A p \in Projects : Granted(p)' = Granted(p)

LEMMA GrantsOfSameAnswers ==
  ASSUME UNCHANGED answered
  PROVE  GrantsKept
BY DEF Granted, GrantsKept

LEMMA GrantsOfAnAnswer ==
  ASSUME NEW c, NEW r, NEW d, Respond(c, r, d)
  PROVE  /\ d # "approve" \/ r.gate \notin MainGates => GrantsKept
         /\ d = "approve" /\ r.gate \in MainGates =>
              /\ Granted(r.p)' = Granted(r.p) \cup {r.gate}
              /\ \A q : q # r.p => Granted(q)' = Granted(q)
<1> DEFINE a == [p |-> r.p, gate |-> r.gate, ver |-> r.ver, decision |-> d]
<1>1. answered' = answered \cup {a} /\ a.p = r.p /\ a.gate = r.gate /\ a.decision = d
  BY DEF Respond
<1> HIDE DEF a
<1>2. ASSUME NEW q, NEW gate \in MainGates
      PROVE  gate \in Granted(q)'
             <=> gate \in Granted(q) \/ (r.p = q /\ r.gate = gate /\ d = "approve")
  BY <1>1 DEF Granted, MainGates
<1>3. \A q : Granted(q) \subseteq MainGates /\ Granted(q)' \subseteq MainGates
  BY DEF Granted, MainGates
<1>4. ASSUME NEW q, d # "approve" \/ r.gate \notin MainGates \/ q # r.p
      PROVE  Granted(q)' = Granted(q)
  BY <1>2, <1>3, <1>4
<1>5. ASSUME d = "approve", r.gate \in MainGates
      PROVE  Granted(r.p)' = Granted(r.p) \cup {r.gate}
  BY <1>2, <1>3, <1>5
<1> QED  BY <1>4, <1>5 DEF GrantsKept

GrantsOf == [p \in Projects |-> Granted(p)]

LEMMA GrantsUnchanged ==
  ASSUME GrantsKept
  PROVE  GrantsOf' = GrantsOf
BY DEF GrantsKept, GrantsOf

(* A grant of the owner is a step of the gated lifecycle.                  *)
LEMMA AnswerGrants ==
  ASSUME NEW c, NEW r, r.p \in Projects, Respond(c, r, "approve"), r.gate \in MainGates
  PROVE  Gated!GrantOnly(r.p, r.gate)
<1>1. /\ Granted(r.p)' = Granted(r.p) \cup {r.gate}
      /\ \A q : q # r.p => Granted(q)' = Granted(q)
  BY GrantsOfAnAnswer
<1>2. GrantsOf' = [GrantsOf EXCEPT ![r.p] = @ \cup {r.gate}]
  BY <1>1 DEF GrantsOf
<1> QED  BY <1>2 DEF GrantsOf, Gated!GrantOnly

LEMMA StepIsGated ==
  ASSUME OneLead, GateInv, FlowInv, Next
  PROVE  Gated!Next \/ UNCHANGED <<lifecycle, GrantsOf>>
<1>1. ASSUME NEW c \in Callers, Step(c)
      PROVE  Gated!Next \/ UNCHANGED <<lifecycle, GrantsOf>>
  <2>1. GrantsOf' = GrantsOf
    BY <1>1, StepCounts, GrantsOfSameAnswers, GrantsUnchanged
  <2>2. CASE UNCHANGED lifecycle
    BY <2>1, <2>2
  <2>3. ASSUME NEW p \in Projects, Onwards(p, "won", "discovery") PROVE Gated!Next
    BY <2>1, <2>3 DEF Onwards, GrantsOf, Gated!Next, Gated!Discover, Gated!Move
  <2>4. ASSUME NEW p \in Projects, Onwards(p, "discovery", "implementation"),
               Approved(p, "spec_final", product[p].spec)
        PROVE  Gated!Next
    <3>1. "spec_final" \in GrantsOf[p]
      BY <2>4 DEF Approved, Granted, GrantsOf
    <3> QED  BY <2>1, <2>4, <3>1 DEF Onwards, GrantsOf, Gated!Next, Gated!Build, Gated!Move
  <2>5. ASSUME NEW p \in Projects, Onwards(p, "implementation", "qa") PROVE Gated!Next
    BY <2>1, <2>5 DEF Onwards, GrantsOf, Gated!Next, Gated!Validate, Gated!Move
  <2>6. ASSUME NEW p \in Projects, Onwards(p, "qa", "delivered"),
               Approved(p, "delivery_final", engineering[p])
        PROVE  Gated!Next
    <3>1. "delivery_final" \in GrantsOf[p]
      BY <2>6 DEF Approved, Granted, GrantsOf
    <3> QED  BY <2>1, <2>6, <3>1 DEF Onwards, GrantsOf, Gated!Next, Gated!Deliver, Gated!Move
  <2> QED  BY <1>1, <2>2, <2>3, <2>4, <2>5, <2>6, FlowGoesOn DEF Advances
<1>2. ASSUME NEW c \in Callers, NEW p \in Projects, CaptureLead(c, p) PROVE Gated!Next
  <2>1. GrantsOf' = GrantsOf
    BY <1>2, GrantsOfSameAnswers, GrantsUnchanged DEF CaptureLead
  <2>2. Onwards(p, "none", "lead")
    BY <1>2, FlowCaptures
  <2> QED  BY <2>1, <2>2 DEF Onwards, GrantsOf, Gated!Next, Gated!Capture, Gated!Move
<1>3. ASSUME NEW c \in Callers, NEW r \in pending, NEW d \in Decisions, Respond(c, r, d)
      PROVE  Gated!Next \/ UNCHANGED <<lifecycle, GrantsOf>>
  <2>1. r.p \in Projects
    BY DEF GateInv, GoodRequest
  <2>2. \/ UNCHANGED lifecycle
        \/ d = "approve" /\ r.gate = "proposal_final" /\ Onwards(r.p, "lead", "won")
    BY <1>3, FlowResponds
  <2>3. CASE d # "approve" \/ r.gate \notin MainGates
    BY <1>3, <2>2, <2>3, GrantsOfAnAnswer, GrantsUnchanged DEF MainGates
  <2>4. CASE d = "approve" /\ r.gate \in MainGates
    <3>1. Gated!GrantOnly(r.p, r.gate)
      BY <1>3, <2>1, <2>4, AnswerGrants
    <3>2. CASE UNCHANGED lifecycle
      <4>1. Gated!Grant(r.p, r.gate) /\ r.gate \in Gated!Gate
        BY <2>4, <3>1, <3>2 DEF Gated!Grant, Gated!Gate, MainGates
      <4> QED  BY <2>1, <4>1 DEF Gated!Next
    <3>3. CASE r.gate = "proposal_final" /\ Onwards(r.p, "lead", "won")
      <4>1. Gated!Win(r.p)
        BY <3>1, <3>3 DEF Onwards, Gated!Win, Gated!Move
      <4> QED  BY <2>1, <4>1 DEF Gated!Next
    <3> QED  BY <2>2, <3>2, <3>3
  <2> QED  BY <2>3, <2>4
<1>4. ASSUME NEW p \in Projects, NEW h \in Heads, DepartmentRun(p, h)
      PROVE  UNCHANGED <<lifecycle, GrantsOf>>
  BY <1>4, GrantsOfSameAnswers, GrantsUnchanged DEF DepartmentRun
<1> QED  BY <1>1, <1>2, <1>3, <1>4 DEF Next

(* The pipeline implements the gated lifecycle: the lifecycle of a project *)
(* captured once moves one phase at a time (LIFECYCLE_TRANSITIONS), is won *)
(* in the step of the approval itself, and is built and delivered under a  *)
(* grant of the owner (respondToPendingApproval).                          *)
THEOREM PipelineIsGated ==
  ASSUME OneLead
  PROVE  Spec => ImplementsGates
<1>1. Init => Gated!Init
  BY DEF Init, Gated!Init, Granted
<1>2. GateInv /\ FlowInv /\ [Next]_vars => [Gated!Next]_<<lifecycle, GrantsOf>>
  <2>1. UNCHANGED vars => UNCHANGED <<lifecycle, GrantsOf>>
    BY GrantsOfSameAnswers, GrantsUnchanged DEF vars
  <2> QED  BY <2>1, StepIsGated
<1>3. Spec => Init /\ [][Next]_vars
  BY PTL DEF Spec
<1>4. GateInv /\ FlowInv /\ [Next]_vars
        => [Gated!Next]_<<lifecycle, [p \in Projects |-> Granted(p)]>>
  BY <1>2 DEF GrantsOf
<1> QED  BY <1>1, <1>3, <1>4, FlowInvHolds, PTL DEF ImplementsGates, Gated!Spec
=============================================================================
