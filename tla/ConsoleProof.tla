---------------------------- MODULE ConsoleProof ----------------------------
(***************************************************************************)
(* What is proved of the console and its gateway for every set of settings *)
(* and scenarios, every length of the trend, any number of requests on the *)
(* wire, and all bounds.                                                   *)
(***************************************************************************)
EXTENDS Console, FiniteSetTheorems, SequenceTheorems, TLAPS

USE ConsoleAssumption

-----------------------------------------------------------------------------
(* What is on the wire.                                                    *)

Op == {"none", "metrics", "start", "stop", "shutdown", "config", "orphan"} \cup Mode
Stage == {"sent", "answered", "failed"}
Colour == {"green", "red"}
Body == {0} \cup Scenario \cup Settings \cup Engine \cup BOOLEAN \cup Colour
Request == [op : Op, stage : Stage, body : Body]

\* A request carries what its handler reads, and an answer what its reader does.
Fits(w) ==
    /\ w.stage = "sent" /\ w.op = "start" => w.body \in Scenario
    /\ w.stage = "sent" /\ w.op \in {"config", "orphan"} => w.body \in Settings
    /\ w.stage = "answered" /\ w.op = "metrics" => w.body \in Engine
    /\ w.stage = "answered" /\ w.op = "shutdown" => w.body \in BOOLEAN
    /\ w.stage = "answered" /\ w.op \in Mode => w.body \in Colour

WireOK == wire \in [Slot -> Request] /\ \A s \in Slot : Fits(wire[s])

\* One slot changes.
LEMMA OneSlot ==
    ASSUME WireOK, NEW s \in Slot, NEW w \in Request, Fits(w),
           wire' = [wire EXCEPT ![s] = w]
    PROVE  WireOK' /\ wire'[s] = w /\ \A r \in Slot : r # s => wire'[r] = wire[r]
<1>1. wire' \in [Slot -> Request] /\ wire'[s] = w /\ \A r \in Slot : r # s => wire'[r] = wire[r]
  BY DEF WireOK
<1>2. \A r \in Slot : Fits(wire'[r])
  BY <1>1 DEF WireOK
<1>3. UNCHANGED Slot
  BY DEF Slot
<1>4. (\A r \in Slot : Fits(wire[r]))'
  BY <1>2, <1>3 DEF Fits
<1>. QED
  BY <1>1, <1>4 DEF WireOK

LEMMA AskFits ==
    ASSUME NEW op \in Op \ {"none"}, NEW body \in Body,
           op = "start" => body \in Scenario, op = "config" => body \in Settings,
           op # "orphan"
    PROVE  Ask(op, body) \in Request /\ Fits(Ask(op, body)) /\ Ask(op, body).op = op
BY DEF Ask, Request, Fits, Stage

LEMMA FreeFits == Free \in Request /\ Fits(Free) /\ Free.op = "none"
BY DEF Free, Request, Fits, Stage, Op, Body, Mode

\* A request leaves by a free slot.
LEMMA FetchStep ==
    ASSUME WireOK, NEW op, NEW body, Ask(op, body) \in Request, Fits(Ask(op, body)),
           Fetch(op, body)
    PROVE  /\ WireOK'
           /\ \E s \in Slot : /\ wire[s].op = "none" /\ wire'[s] = Ask(op, body)
                              /\ \A r \in Slot : r # s => wire'[r] = wire[r]
<1>1. PICK s \in Slot : wire[s].op = "none" /\ wire' = [wire EXCEPT ![s] = Ask(op, body)]
  BY DEF Fetch
<1>. QED
  BY <1>1, OneSlot

\* The gateway answers in the slot of the request.
LEMMA AnswerStep ==
    ASSUME WireOK, NEW s \in Slot, NEW body \in Body, Answer(s, body),
           wire[s].op = "metrics" => body \in Engine,
           wire[s].op = "shutdown" => body \in BOOLEAN,
           wire[s].op \in Mode => body \in Colour
    PROVE  /\ WireOK' /\ \A r \in Slot : r # s => wire'[r] = wire[r]
           /\ wire'[s].op = wire[s].op /\ wire'[s].stage = "answered" /\ wire'[s].body = body
<1> DEFINE w == Answered(wire[s], body)
<1>1. wire[s] \in Request /\ wire \in [Slot -> Request]
  BY DEF WireOK
<1>2. w \in Request /\ w.op = wire[s].op /\ w.stage = "answered" /\ w.body = body
  BY <1>1 DEF Answered, Request, Stage
<1>3. Fits(w)
  BY <1>2 DEF Fits
<1>4. wire' = [wire EXCEPT ![s] = w]
  BY <1>1 DEF Answer, Request
<1> HIDE DEF w
<1>. QED
  BY <1>2, <1>3, <1>4, OneSlot

\* A request or its answer breaks off.
LEMMA BrokenFits ==
    ASSUME WireOK, NEW s \in Slot
    PROVE  /\ Broken(s) \in Request /\ Fits(Broken(s)) /\ Broken(s).op = wire[s].op
           /\ (Broken(s).stage = "answered" => Broken(s) = wire[s])
<1>1. wire[s] \in Request /\ Fits(wire[s])
  BY DEF WireOK
<1>2. CASE wire[s].op = "none"
  BY <1>1, <1>2 DEF Broken
<1>3. CASE wire[s].op # "none"
  <2>1. Broken(s) = [op |-> wire[s].op, stage |-> "failed", body |-> wire[s].body]
    BY <1>1, <1>3 DEF Broken, Request
  <2>. QED  BY <1>1, <2>1 DEF Request, Fits, Stage
<1>. QED
  BY <1>2, <1>3

\* A handler goes on: its slot asks for the metrics, or is free again.
LEMMA FetchAfterStep ==
    ASSUME WireOK, NEW s \in Slot, FetchAfter(s)
    PROVE  /\ WireOK' /\ wire'[s].op \in {"metrics", "none"} /\ wire'[s].stage = "sent"
           /\ \A r \in Slot : r # s => wire'[r] = wire[r]
<1>1. Ask("metrics", 0) \in Request /\ Fits(Ask("metrics", 0))
  BY AskFits DEF Op, Body
<1>2. CASE wire' = [wire EXCEPT ![s] = Ask("metrics", 0)]
  <2>1. /\ WireOK' /\ wire'[s] = Ask("metrics", 0)
        /\ \A r \in Slot : r # s => wire'[r] = wire[r]
    BY <1>1, <1>2, OneSlot
  <2>. QED  BY <2>1 DEF Ask
<1>3. CASE wire' = [wire EXCEPT ![s] = Free]
  <2>1. WireOK' /\ wire'[s] = Free /\ \A r \in Slot : r # s => wire'[r] = wire[r]
    BY FreeFits, <1>3, OneSlot
  <2>. QED  BY <2>1 DEF Free
<1>. QED
  BY <1>2, <1>3 DEF FetchAfter

\* The gateway's part of a request: what it answers, and that its command is one.
LEMMA HandleStep ==
    ASSUME TypeOK, WireOK, NEW s \in Slot, Handle(s)
    PROVE  /\ WireOK' /\ \A r \in Slot : r # s => wire'[r] = wire[r]
           /\ wire'[s].op = wire[s].op /\ wire'[s].stage = "answered"
<1> SUFFICES ASSUME NEW body \in Body, Answer(s, body),
                    wire[s].op = "metrics" => body \in Engine,
                    wire[s].op = "shutdown" => body \in BOOLEAN,
                    wire[s].op \in Mode => body \in Colour
             PROVE  /\ WireOK' /\ \A r \in Slot : r # s => wire'[r] = wire[r]
                    /\ wire'[s].op = wire[s].op /\ wire'[s].stage = "answered"
  <2>1. CASE wire[s].op = "metrics" /\ Answer(s, engine)
    BY <2>1 DEF TypeOK, Body, Mode
  <2>2. CASE wire[s].op \in {"start", "stop", "config", "orphan"} /\ Answer(s, 0)
    BY <2>2 DEF Body, Mode
  <2>3. CASE wire[s].op = "shutdown" /\ \E ok \in BOOLEAN : Answer(s, ok)
    BY <2>3 DEF Body, Mode
  <2>4. CASE wire[s].op = "single" /\ \E n \in 0..1 : Answer(s, Status(n))
    BY <2>4 DEF Body, Colour, Status
  <2>5. CASE wire[s].op = "batch" /\ \E n \in 0..2 : Answer(s, Status(n))
    BY <2>5 DEF Body, Colour, Status
  <2>. QED  BY <2>1, <2>2, <2>3, <2>4, <2>5 DEF Handle
<1>. QED
  BY AnswerStep

LEMMA LoseStep ==
    ASSUME WireOK, NEW s \in Slot, wire' = [wire EXCEPT ![s] = Broken(s)]
    PROVE  WireOK' /\ wire'[s] = Broken(s) /\ \A r \in Slot : r # s => wire'[r] = wire[r]
BY BrokenFits, OneSlot

LEMMA RestartStep ==
    ASSUME WireOK, Restart
    PROVE  /\ WireOK'
           /\ \A s \in Slot : wire'[s] = wire[s] \/ wire'[s] = Broken(s)
<1>1. PICK kept \in SUBSET Slot :
        wire' = [s \in Slot |-> IF s \in kept THEN wire[s] ELSE Broken(s)]
  BY DEF Restart
<1>2. \A s \in Slot : /\ wire'[s] = wire[s] \/ wire'[s] = Broken(s)
                      /\ wire'[s] \in Request /\ Fits(wire'[s])
  BY <1>1, BrokenFits DEF WireOK
<1>3. wire' \in [Slot -> Request]
  BY <1>1, <1>2
<1>4. UNCHANGED Slot
  BY DEF Slot
<1>. QED
  BY <1>2, <1>3, <1>4 DEF WireOK, Fits

\* A save whose panel is gone is an orphan in its slot.
LEMMA LeaveStep ==
    ASSUME WireOK, LeaveConfigTab
    PROVE  /\ WireOK'
           /\ \A s \in Slot : IF wire[s].op = "config"
                              THEN wire'[s].op = "orphan" /\ wire'[s].stage = wire[s].stage
                              ELSE wire'[s] = wire[s]
<1> DEFINE w(s) == IF wire[s].op = "config" THEN [wire[s] EXCEPT !.op = "orphan"] ELSE wire[s]
<1>1. wire' = [s \in Slot |-> w(s)]
  BY DEF LeaveConfigTab
<1>2. ASSUME NEW s \in Slot
      PROVE  /\ w(s) \in Request /\ Fits(w(s))
             /\ IF wire[s].op = "config"
                  THEN w(s).op = "orphan" /\ w(s).stage = wire[s].stage
                  ELSE w(s) = wire[s]
  <2>1. wire[s] \in Request /\ Fits(wire[s])
    BY DEF WireOK
  <2>2. CASE wire[s].op = "config"
    <3>1. w(s) = [op |-> "orphan", stage |-> wire[s].stage, body |-> wire[s].body]
      BY <2>1, <2>2 DEF Request
    <3>. QED  BY <2>1, <2>2, <3>1 DEF Request, Op, Fits, Mode
  <2>3. CASE wire[s].op # "config"
    BY <2>1, <2>3
  <2>. QED  BY <2>2, <2>3
<1> HIDE DEF w
<1>3. \A s \in Slot : wire'[s] = w(s)
  BY <1>1
<1>4. wire' \in [Slot -> Request]
  BY <1>1, <1>2
<1>5. UNCHANGED Slot
  BY DEF Slot
<1>6. \A s \in Slot : Fits(wire'[s])
  BY <1>2, <1>3
<1>7. (\A s \in Slot : Fits(wire[s]))'
  BY <1>5, <1>6 DEF Fits
<1>. QED
  BY <1>2, <1>3, <1>4, <1>7 DEF WireOK

\* Posting one of the console's commands.
LEMMA PostStep ==
    ASSUME WireOK, NEW op \in {"start", "stop", "shutdown", "config"} \cup Mode, NEW body,
           op = "start" => body \in Scenario, op = "config" => body \in Settings,
           op \notin {"start", "config"} => body = 0, Post(op, body)
    PROVE  /\ WireOK'
           /\ \E s \in Slot : /\ wire[s].op = "none" /\ wire'[s] = Ask(op, body)
                              /\ \A r \in Slot : r # s => wire'[r] = wire[r]
<1>1. op \in Op \ {"none"} /\ op # "orphan" /\ body \in Body
  BY DEF Op, Mode, Body
<1>2. Ask(op, body) \in Request /\ Fits(Ask(op, body))
  BY <1>1, AskFits
<1>. QED
  BY <1>2, FetchStep DEF Post

\* Which slot polling and the end of a handler change, and to what.
OneSlotChanges(s) == \A r \in Slot : r # s => wire'[r] = wire[r]

LEMMA PollWire ==
    ASSUME WireOK, Poll
    PROVE  /\ WireOK'
           /\ \E s \in Slot : /\ wire[s].op = "none" /\ wire'[s] = Ask("metrics", 0)
                              /\ OneSlotChanges(s)
<1>1. Ask("metrics", 0) \in Request /\ Fits(Ask("metrics", 0))
  BY AskFits DEF Op, Body
<1>. QED
  BY <1>1, FetchStep DEF Poll, OneSlotChanges

LEMMA DeliverWire ==
    ASSUME WireOK, NEW s \in Slot, Deliver(s)
    PROVE  /\ WireOK' /\ OneSlotChanges(s)
           /\ wire[s].op # "none"
           /\ wire'[s].op \in {"metrics", "none"} /\ wire'[s].stage = "sent"
<1>1. wire[s].op # "none"
  BY DEF Deliver, Mode
<1>2. CASE FetchAfter(s)
  BY <1>1, <1>2, FetchAfterStep DEF OneSlotChanges
<1>3. CASE wire' = [wire EXCEPT ![s] = Free]
  <2>1. WireOK' /\ wire'[s] = Free /\ OneSlotChanges(s)
    BY <1>3, FreeFits, OneSlot DEF OneSlotChanges
  <2>. QED  BY <1>1, <2>1 DEF Free
<1>. QED
  BY <1>2, <1>3 DEF Deliver, ShowMetrics, ShutdownEnds, ConfigEnds, SendingEnds

LEMMA WireInit == Init => WireOK
BY FreeFits DEF Init, WireOK

LEMMA WireStep == TypeOK /\ WireOK /\ [Next]_vars => WireOK'
<1> SUFFICES ASSUME TypeOK, WireOK, [Next]_vars PROVE WireOK'
  OBVIOUS
<1>s. ASSUME UNCHANGED wire PROVE WireOK'
  BY <1>s DEF WireOK, Slot, Fits
<1>1. CASE Poll
  BY <1>1, PollWire
<1>2. ASSUME NEW scenario \in Scenario, Start(scenario) PROVE WireOK'
  BY <1>2, PostStep DEF Start
<1>3. CASE Halt
  BY <1>3, PostStep DEF Halt
<1>4. CASE Toggle
  BY <1>4, PostStep DEF Toggle
<1>5. CASE SimulateShutdown
  BY <1>5, PostStep DEF SimulateShutdown
<1>6. CASE Dismiss
  BY <1>6, <1>s DEF Dismiss
<1>7. CASE SubmitConfig
  BY <1>7, PostStep DEF SubmitConfig, TypeOK, PanelTypeOK
<1>8. CASE SendEvents
  BY <1>8, PostStep DEF SendEvents, Mode
<1>9. CASE OpenConfigTab \/ PanelStep \/ SenderStep \/ Reset \/ Elsewhere
  BY <1>9, <1>s DEF OpenConfigTab, PanelStep, SenderStep, Reset, Elsewhere
<1>10. CASE LeaveConfigTab
  BY <1>10, LeaveStep
<1>11. CASE Restart
  BY <1>11, RestartStep
<1>12. ASSUME NEW s \in Slot, Handle(s) PROVE WireOK'
  BY <1>12, HandleStep
<1>13. ASSUME NEW s \in Slot, Deliver(s) PROVE WireOK'
  BY <1>13, DeliverWire
<1>14. ASSUME NEW s \in Slot, Lose(s) PROVE WireOK'
  BY <1>14, LoseStep DEF Lose
<1>15. CASE UNCHANGED vars
  BY <1>15, <1>s DEF vars
<1>. QED
  BY <1>1, <1>2, <1>3, <1>4, <1>5, <1>6, <1>7, <1>8, <1>9, <1>10, <1>11, <1>12, <1>13,
     <1>14, <1>15 DEF Next

-----------------------------------------------------------------------------
(* The gateway's load test: the handle is set while a test is on, and the  *)
(* interval it is the handle of is the only one.                           *)

GatewayOK ==
    /\ engine \in Engine /\ loadTimer \in BOOLEAN /\ resetTimers \in Nat
    /\ loadTimer <=> engine.test # Off
    /\ generators = IF loadTimer THEN 1 ELSE 0

LEMMA BootedOK == Booted \in Engine /\ Booted.test = Off
BY DEF Booted, Engine

LEMMA GatewayInit == Init => GatewayOK
<1> SUFFICES ASSUME Init PROVE GatewayOK
  OBVIOUS
<1>1. loadTimer = FALSE /\ generators = 0 /\ resetTimers = 0
  BY DEF Init
<1>2. engine \in Engine /\ engine.test = Off
  BY BootedOK DEF Init
<1>. QED
  BY <1>1, <1>2 DEF GatewayOK

LEMMA StartStep ==
    ASSUME GatewayOK, NEW scenario \in Scenario, StartLoadTest(scenario), UNCHANGED resetTimers
    PROVE  GatewayOK'
<1>1. engine' = [test |-> scenario, draining |-> engine.draining, settings |-> engine.settings]
  BY DEF StartLoadTest, GatewayOK, Engine
<1>2. Halted = 0 /\ generators' = 1 /\ loadTimer' = TRUE
  BY DEF StartLoadTest, GatewayOK, Halted
<1>. QED
  BY <1>1, <1>2 DEF GatewayOK, Engine

LEMMA StopStep ==
    ASSUME GatewayOK, StopLoadTest, UNCHANGED resetTimers
    PROVE  GatewayOK'
<1>1. engine' = [test |-> Off, draining |-> engine.draining, settings |-> engine.settings]
  BY DEF StopLoadTest, GatewayOK, Engine
<1>2. Halted = 0 /\ generators' = 0 /\ loadTimer' = FALSE
  BY DEF StopLoadTest, GatewayOK, Halted
<1>. QED
  BY <1>1, <1>2 DEF GatewayOK, Engine

LEMMA ShutdownStep ==
    ASSUME GatewayOK, NEW ok \in BOOLEAN, GracefulShutdown(ok)
    PROVE  GatewayOK'
<1>1. engine' = [test |-> Off, draining |-> TRUE, settings |-> engine.settings]
  BY DEF GracefulShutdown, GatewayOK, Engine
<1>2. Halted = 0 /\ generators' = 0 /\ loadTimer' = FALSE /\ resetTimers' \in Nat
  BY DEF GracefulShutdown, GatewayOK, Halted
<1>. QED
  BY <1>1, <1>2 DEF GatewayOK, Engine

LEMMA ConfigStep ==
    ASSUME GatewayOK, NEW settings \in Settings, UpdateConfig(settings)
    PROVE  GatewayOK'
<1>1. engine' = [test |-> engine.test, draining |-> engine.draining, settings |-> settings]
  BY DEF UpdateConfig, GatewayOK, Engine
<1>. QED
  BY <1>1 DEF UpdateConfig, GatewayOK, Engine

LEMMA GatewayStep == WireOK /\ GatewayOK /\ [Next]_vars => GatewayOK'
<1> SUFFICES ASSUME WireOK, GatewayOK, [Next]_vars PROVE GatewayOK'
  OBVIOUS
<1>s. ASSUME UNCHANGED gateVars PROVE GatewayOK'
  BY <1>s DEF gateVars, GatewayOK
<1>1. CASE Reset
  <2>1. engine' = [test |-> engine.test, draining |-> FALSE, settings |-> engine.settings]
    BY <1>1 DEF Reset, GatewayOK, Engine
  <2>2. engine' \in Engine /\ engine'.test = engine.test
    BY <2>1 DEF GatewayOK, Engine
  <2>3. UNCHANGED <<loadTimer, generators>> /\ resetTimers' \in Nat
    BY <1>1 DEF Reset, GatewayOK
  <2>. QED  BY <2>2, <2>3 DEF GatewayOK
<1>2. CASE Elsewhere
  <2>1. CASE \E settings \in Settings : UpdateConfig(settings)
    BY <2>1, ConfigStep
  <2>2. CASE \E scenario \in Scenario : StartLoadTest(scenario) /\ UNCHANGED resetTimers
    BY <2>2, StartStep
  <2>3. CASE StopLoadTest /\ UNCHANGED resetTimers
    BY <2>3, StopStep
  <2>4. CASE \E ok \in BOOLEAN : GracefulShutdown(ok)
    BY <2>4, ShutdownStep
  <2>. QED  BY <1>2, <2>1, <2>2, <2>3, <2>4 DEF Elsewhere
<1>3. CASE Restart
  BY <1>3, BootedOK DEF Restart, GatewayOK
<1>4. ASSUME NEW s \in Slot, Handle(s) PROVE GatewayOK'
  <2>1. Fits(wire[s]) /\ wire[s].stage = "sent"
    BY <1>4 DEF WireOK, Handle
  <2>2. CASE wire[s].op = "start" /\ StartLoadTest(wire[s].body) /\ UNCHANGED resetTimers
    BY <2>1, <2>2, StartStep DEF Fits
  <2>3. CASE StopLoadTest /\ UNCHANGED resetTimers
    BY <2>3, StopStep
  <2>4. CASE \E ok \in BOOLEAN : GracefulShutdown(ok)
    BY <2>4, ShutdownStep
  <2>5. CASE wire[s].op \in {"config", "orphan"} /\ UpdateConfig(wire[s].body)
    BY <2>1, <2>5, ConfigStep DEF Fits
  <2>. QED  BY <1>4, <1>s, <2>2, <2>3, <2>4, <2>5 DEF Handle
<1>5. CASE \/ Poll \/ (\E scenario \in Scenario : Start(scenario)) \/ Halt \/ Toggle
           \/ SimulateShutdown \/ Dismiss \/ SubmitConfig \/ SendEvents
           \/ OpenConfigTab \/ LeaveConfigTab \/ PanelStep \/ SenderStep
           \/ (\E s \in Slot : Deliver(s) \/ Lose(s)) \/ UNCHANGED vars
  BY <1>5, <1>s DEF Poll, Start, Halt, Toggle, SimulateShutdown, Dismiss, SubmitConfig, SendEvents,
     OpenConfigTab, LeaveConfigTab, PanelStep, SenderStep, Deliver, Lose, vars
<1>. QED
  BY <1>1, <1>2, <1>3, <1>4, <1>5 DEF Next

-----------------------------------------------------------------------------
(* Type correctness.                                                       *)

LEMMA TrendType ==
    ASSUME NEW S, NEW points \in Seq(S), NEW p \in S, Len(points) <= HistoryCap
    PROVE  Trend(Append(points, p)) \in Seq(S) /\ Len(Trend(Append(points, p))) <= HistoryCap
<1> DEFINE longer == Append(points, p)
<1>1. longer \in Seq(S) /\ Len(longer) = Len(points) + 1 /\ Len(points) \in Nat
  BY AppendProperties, LenProperties
<1> HIDE DEF longer
<1>2. CASE Len(longer) > HistoryCap
  <2>1. /\ Len(longer) - HistoryCap + 1 \in 1..Len(longer) + 1
        /\ Len(longer) - (Len(longer) - HistoryCap + 1) + 1 = HistoryCap
        /\ Len(longer) \in Nat
    BY <1>1, <1>2
  <2>2. LastOf(longer, HistoryCap) = SubSeq(longer, Len(longer) - HistoryCap + 1, Len(longer))
    BY DEF LastOf
  <2>3. LastOf(longer, HistoryCap) \in Seq(S) /\ Len(LastOf(longer, HistoryCap)) = HistoryCap
    BY <1>1, <2>1, <2>2, SubSeqProperties
  <2>. QED  BY <1>2, <2>3 DEF Trend, longer
<1>3. CASE ~(Len(longer) > HistoryCap)
  BY <1>1, <1>3 DEF Trend, longer
<1>. QED
  BY <1>2, <1>3

AppTypeOK ==
    /\ metrics \in Engine \cup {Unset}
    /\ history \in Seq(Scenario \cup {Off}) /\ Len(history) <= HistoryCap
    /\ {shutdownSimulating, shutdownReport} \subseteq BOOLEAN

RestTypeOK ==
    /\ meddled \in BOOLEAN /\ taken \in 0..2 /\ {commands, others, faults} \subseteq Nat

LEMMA TypeParts ==
    TypeOK <=> /\ AppTypeOK /\ RestTypeOK /\ PanelTypeOK /\ SenderTypeOK
               /\ engine \in Engine /\ generators \in Nat /\ resetTimers \in Nat
               /\ loadTimer \in BOOLEAN /\ DOMAIN wire = Slot
BY DEF TypeOK, AppTypeOK, RestTypeOK

LEMMA TypeInit == Init => TypeOK
<1> SUFFICES ASSUME Init PROVE TypeOK
  OBVIOUS
<1>1. AppTypeOK /\ RestTypeOK
  <2>1. history \in Seq(Scenario \cup {Off}) /\ Len(history) <= HistoryCap
    BY EmptySeq DEF Init
  <2>2. AppTypeOK
    BY <2>1 DEF Init, AppTypeOK
  <2>3. RestTypeOK
    <3>1. meddled \in BOOLEAN
      BY DEF Init
    <3>2. taken = 0 /\ commands = 0 /\ others = 0 /\ faults = 0
      BY DEF Init
    <3>. QED  BY <3>1, <3>2 DEF RestTypeOK
  <2>. QED  BY <2>2, <2>3
<1>2. PanelTypeOK /\ SenderTypeOK
  BY DEF Init, PanelTypeOK, SenderInit, SenderTypeOK
<1>. QED
  BY <1>1, <1>2, BootedOK, TypeParts DEF Init

LEMMA AppTypeStep == TypeOK /\ WireOK /\ [Next]_vars => AppTypeOK'
<1> SUFFICES ASSUME TypeOK, WireOK, [Next]_vars PROVE AppTypeOK'
  OBVIOUS
<1>t. AppTypeOK
  BY TypeParts
<1>s. ASSUME UNCHANGED appVars PROVE AppTypeOK'
  BY <1>s, <1>t DEF AppTypeOK, appVars
<1>1. CASE SimulateShutdown
  BY <1>1, <1>t DEF SimulateShutdown, AppTypeOK
<1>2. CASE Dismiss
  BY <1>2, <1>t DEF Dismiss, AppTypeOK
<1>3. ASSUME NEW s \in Slot, Deliver(s) PROVE AppTypeOK'
  <2>1. Fits(wire[s])
    BY DEF WireOK
  <2>2. CASE wire[s].op = "metrics" /\ ShowMetrics(s)
    <3>1. CASE wire[s].stage = "answered"
      <4>1. wire[s].body \in Engine /\ wire[s].body.test \in Scenario \cup {Off}
        BY <2>1, <2>2, <3>1 DEF Fits, Engine
      <4>2. metrics' = wire[s].body /\ history' = Trend(Append(history, wire[s].body.test))
            /\ UNCHANGED <<shutdownSimulating, shutdownReport>>
        BY <2>2, <3>1 DEF ShowMetrics
      <4>3. history' \in Seq(Scenario \cup {Off}) /\ Len(history') <= HistoryCap
        BY <1>t, <4>1, <4>2, TrendType DEF AppTypeOK
      <4>. QED  BY <1>t, <4>1, <4>2, <4>3 DEF AppTypeOK
    <3>2. CASE wire[s].stage # "answered"
      BY <1>t, <2>2, <3>2 DEF ShowMetrics, AppTypeOK
    <3>. QED  BY <3>1, <3>2
  <2>3. CASE wire[s].op = "shutdown" /\ ShutdownEnds(s)
    <3>1. shutdownReport' \in BOOLEAN /\ shutdownSimulating' = FALSE /\ UNCHANGED <<metrics, history>>
      BY <2>3 DEF ShutdownEnds
    <3>. QED  BY <1>t, <3>1 DEF AppTypeOK
  <2>. QED  BY <1>3, <1>s, <2>2, <2>3 DEF Deliver, ConfigEnds, SendingEnds
<1>4. CASE \/ Poll \/ (\E scenario \in Scenario : Start(scenario)) \/ Halt \/ Toggle
           \/ SubmitConfig \/ SendEvents \/ OpenConfigTab \/ LeaveConfigTab \/ PanelStep
           \/ SenderStep \/ Reset \/ Elsewhere \/ Restart
           \/ (\E s \in Slot : Handle(s) \/ Lose(s)) \/ UNCHANGED vars
  BY <1>4, <1>s DEF Poll, Start, Halt, Toggle, SubmitConfig, SendEvents, OpenConfigTab,
     LeaveConfigTab, PanelStep, SenderStep, Reset, Elsewhere, Restart, Handle, Lose, vars
<1>. QED
  BY <1>1, <1>2, <1>3, <1>4 DEF Next

LEMMA RestTypeStep == TypeOK /\ [Next]_vars => RestTypeOK'
<1> SUFFICES ASSUME TypeOK, [Next]_vars PROVE RestTypeOK'
  OBVIOUS
<1>t. RestTypeOK
  BY TypeParts
<1>p. ASSUME NEW op, NEW body, Post(op, body), UNCHANGED meddled, taken' \in 0..2
      PROVE  RestTypeOK'
  BY <1>p, <1>t DEF Post, RestTypeOK
<1>s. ASSUME UNCHANGED <<histVars, bounds>> PROVE RestTypeOK'
  BY <1>s, <1>t DEF histVars, bounds, RestTypeOK
<1>1. CASE (\E scenario \in Scenario : Start(scenario)) \/ Halt \/ Toggle \/ SimulateShutdown \/ SubmitConfig
  <2>1. UNCHANGED histVars /\ \E op, body : Post(op, body)
    BY <1>1 DEF Start, Halt, Toggle, SimulateShutdown, SubmitConfig
  <2>2. UNCHANGED meddled /\ taken' \in 0..2
    BY <1>t, <2>1 DEF histVars, RestTypeOK
  <2>. QED  BY <1>p, <2>1, <2>2
<1>2. CASE SendEvents
  <2>1. \E op, body : Post(op, body)
    BY <1>2 DEF SendEvents
  <2>2. UNCHANGED meddled /\ taken' \in 0..2
    BY <1>2 DEF SendEvents
  <2>. QED  BY <1>p, <2>1, <2>2
<1>3. CASE Elsewhere \/ Restart
  <2>1. /\ meddled' \in BOOLEAN /\ UNCHANGED <<taken, commands, faults>>
        /\ others' = others + 1
    BY <1>3, <1>t DEF Elsewhere, Restart, RestTypeOK
  <2>. QED  BY <1>t, <2>1 DEF RestTypeOK
<1>4. ASSUME NEW s \in Slot, Handle(s) PROVE RestTypeOK'
  <2>1. taken' \in 0..2
    BY <1>4, <1>t DEF Handle, RestTypeOK
  <2>2. meddled' \in BOOLEAN /\ UNCHANGED <<commands, others, faults>>
    BY <1>4 DEF Handle, bounds
  <2>. QED  BY <1>t, <2>1, <2>2 DEF RestTypeOK
<1>5. ASSUME NEW s \in Slot, Lose(s) PROVE RestTypeOK'
  BY <1>5, <1>t DEF Lose, histVars, RestTypeOK
<1>6. CASE \/ Poll \/ Dismiss \/ OpenConfigTab \/ LeaveConfigTab \/ PanelStep
           \/ SenderStep \/ (\E s \in Slot : Deliver(s)) \/ UNCHANGED vars
  BY <1>6, <1>s DEF Poll, Dismiss, OpenConfigTab, LeaveConfigTab, PanelStep,
     SenderStep, Deliver, vars
<1>7. CASE Reset
  BY <1>7, <1>s DEF Reset
<1>. QED
  BY <1>1, <1>2, <1>3, <1>4, <1>5, <1>6, <1>7 DEF Next

LEMMA PanelTypeStep == TypeOK /\ WireOK /\ [Next]_vars => PanelTypeOK'
<1> SUFFICES ASSUME TypeOK, WireOK, [Next]_vars PROVE PanelTypeOK'
  OBVIOUS
<1>t. PanelTypeOK /\ SeenSettings \in Settings \cup {Unset}
  BY DEF TypeOK, SeenSettings, Engine
<1>s. ASSUME UNCHANGED panelVars PROVE PanelTypeOK'
  BY <1>s, <1>t DEF PanelTypeOK, panelVars, saveState
<1>1. CASE SubmitConfig
  BY <1>1, <1>t DEF SubmitConfig, Submit, PanelTypeOK
<1>2. CASE OpenConfigTab
  BY <1>2, <1>t DEF OpenConfigTab, Open, Load, PanelTypeOK
<1>3. CASE LeaveConfigTab
  BY <1>3, <1>t DEF LeaveConfigTab, Close, Load, PanelTypeOK
<1>4. CASE PanelStep
  <2>1. ASSUME NEW v \in Level, EditWatched(v) \/ EditOther(v) PROVE PanelTypeOK'
    <3>1. form' \in Settings
      BY <2>1, <1>t DEF EditWatched, EditOther, PanelTypeOK, Settings
    <3>. QED  BY <2>1, <1>t, <3>1 DEF EditWatched, EditOther, PanelTypeOK, saveState
  <2>2. CASE ClearSaved
    <3>1. clearTimers' \in Nat
      BY <2>2, <1>t DEF ClearSaved, PanelTypeOK
    <3>2. savedSuccess' = FALSE /\ UNCHANGED <<mounted, form, isSaving, unsaved>>
      BY <2>2 DEF ClearSaved
    <3>. QED  BY <1>t, <3>1, <3>2 DEF PanelTypeOK
  <2>. QED  BY <1>4, <2>1, <2>2 DEF PanelStep
<1>5. ASSUME NEW s \in Slot, Deliver(s) PROVE PanelTypeOK'
  <2>1. CASE wire[s].op = "metrics" /\ ShowMetrics(s)
    <3>1. CASE wire[s].stage = "answered"
      <4>1. wire[s].body.settings \in Settings
        BY <2>1, <3>1 DEF WireOK, Fits, Engine
      <4>2. form' \in Settings /\ unsaved' \in BOOLEAN
        BY <1>t, <2>1, <3>1, <4>1 DEF ShowMetrics, Effect, Load, PanelTypeOK
      <4>3. UNCHANGED <<mounted, saveState>>
        BY <2>1 DEF ShowMetrics
      <4>. QED  BY <1>t, <4>2, <4>3 DEF PanelTypeOK, saveState
    <3>2. CASE wire[s].stage # "answered"
      BY <1>t, <2>1, <3>2 DEF ShowMetrics, PanelTypeOK, saveState
    <3>. QED  BY <3>1, <3>2
  <2>2. CASE ConfigEnds(s)
    <3>1. CASE Saved
      <4>1. clearTimers' \in Nat
        BY <1>t, <3>1 DEF Saved, PanelTypeOK
      <4>2. savedSuccess' = TRUE /\ isSaving' = FALSE /\ UNCHANGED <<mounted, form, unsaved>>
        BY <3>1 DEF Saved
      <4>. QED  BY <1>t, <4>1, <4>2 DEF PanelTypeOK
    <3>2. CASE SaveFailed
      BY <1>t, <3>2 DEF SaveFailed, PanelTypeOK
    <3>. QED  BY <2>2, <3>1, <3>2 DEF ConfigEnds
  <2>. QED  BY <1>5, <1>s, <2>1, <2>2 DEF Deliver, ShutdownEnds, SendingEnds
<1>6. CASE \/ Poll \/ (\E scenario \in Scenario : Start(scenario)) \/ Halt \/ Toggle
           \/ SimulateShutdown \/ Dismiss \/ SendEvents
           \/ SenderStep \/ Reset \/ Elsewhere \/ Restart
           \/ (\E s \in Slot : Handle(s) \/ Lose(s)) \/ UNCHANGED vars
  BY <1>6, <1>s DEF Poll, Start, Halt, Toggle, SimulateShutdown, Dismiss, SendEvents,
     SenderStep, Reset, Elsewhere, Restart, Handle, Lose, vars
<1>. QED
  BY <1>1, <1>2, <1>3, <1>4, <1>5, <1>6 DEF Next

LEMMA SenderTypeStep == TypeOK /\ WireOK /\ [Next]_vars => SenderTypeOK'
<1> SUFFICES ASSUME TypeOK, WireOK, [Next]_vars PROVE SenderTypeOK'
  OBVIOUS
<1>t. SenderTypeOK
  BY DEF TypeOK
<1>s. ASSUME UNCHANGED senderVars PROVE SenderTypeOK'
  BY <1>s, <1>t DEF SenderTypeOK, senderVars
<1>1. CASE SendEvents
  BY <1>1, <1>t DEF SendEvents, Send, SenderTypeOK
<1>2. CASE SenderStep
  BY <1>2, <1>t DEF SenderStep, OpenModal, CloseModal, SenderTypeOK
<1>3. ASSUME NEW s \in Slot, Deliver(s) PROVE SenderTypeOK'
  <2>1. CASE wire[s].op \in Mode /\ SendingEnds(s)
    <3>1. wire[s].stage = "answered" => wire[s].body \in Colour
      BY <2>1 DEF WireOK, Fits
    <3>2. responseResult' \in Colour /\ loading' = FALSE /\ UNCHANGED isOpen
      BY <2>1, <3>1 DEF SendingEnds, SendEnds, Colour
    <3>. QED  BY <1>t, <3>2 DEF SenderTypeOK, Colour
  <2>. QED  BY <1>3, <1>s, <2>1 DEF Deliver, ShowMetrics, ShutdownEnds, ConfigEnds
<1>4. CASE \/ Poll \/ (\E scenario \in Scenario : Start(scenario)) \/ Halt \/ Toggle
           \/ SimulateShutdown \/ Dismiss \/ SubmitConfig \/ OpenConfigTab \/ LeaveConfigTab
           \/ PanelStep \/ Reset \/ Elsewhere \/ Restart
           \/ (\E s \in Slot : Handle(s) \/ Lose(s)) \/ UNCHANGED vars
  BY <1>4, <1>s DEF Poll, Start, Halt, Toggle, SimulateShutdown, Dismiss, SubmitConfig,
     OpenConfigTab, LeaveConfigTab, PanelStep, Reset, Elsewhere, Restart, Handle, Lose, vars
<1>. QED
  BY <1>1, <1>2, <1>3, <1>4 DEF Next

LEMMA TypeStep == TypeOK /\ WireOK /\ GatewayOK /\ [Next]_vars => TypeOK'
<1> SUFFICES ASSUME TypeOK, WireOK, GatewayOK, [Next]_vars PROVE TypeOK'
  OBVIOUS
<1>1. AppTypeOK' /\ RestTypeOK' /\ PanelTypeOK' /\ SenderTypeOK'
  BY AppTypeStep, RestTypeStep, PanelTypeStep, SenderTypeStep
<1>2. (engine \in Engine /\ generators \in Nat /\ resetTimers \in Nat /\ loadTimer \in BOOLEAN)'
  BY GatewayStep DEF GatewayOK
<1>3. (DOMAIN wire = Slot)'
  BY WireStep DEF WireOK
<1>. QED
  BY <1>1, <1>2, <1>3 DEF TypeOK, AppTypeOK, RestTypeOK

-----------------------------------------------------------------------------
(* The flags and the wire.  A kind of request is flagged when the flag is  *)
(* set exactly while one request of the kind, and one only, is under way.  *)

Flagged(w, ops, flag) ==
    /\ flag <=> \E s \in Slot : w[s].op \in ops
    /\ \A r, s \in Slot : w[r].op \in ops /\ w[s].op \in ops => r = s

LEMMA FlagKept ==
    ASSUME NEW v, NEW w, NEW ops, NEW flag, Flagged(v, ops, flag),
           \A s \in Slot : w[s].op \in ops <=> v[s].op \in ops
    PROVE  Flagged(w, ops, flag)
BY DEF Flagged

LEMMA FlagSet ==
    ASSUME NEW v, NEW w, NEW ops, Flagged(v, ops, FALSE), NEW s \in Slot, w[s].op \in ops,
           \A r \in Slot : r # s => w[r] = v[r]
    PROVE  Flagged(w, ops, TRUE)
BY DEF Flagged

LEMMA FlagCleared ==
    ASSUME NEW v, NEW w, NEW ops, NEW flag, Flagged(v, ops, flag), NEW s \in Slot,
           v[s].op \in ops, w[s].op \notin ops, \A r \in Slot : r # s => w[r] = v[r]
    PROVE  Flagged(w, ops, FALSE)
BY DEF Flagged

ShutdownFlagged == Flagged(wire, {"shutdown"}, shutdownSimulating)
SendFlagged     == Flagged(wire, Mode, loading)
SaveFlagged     == Flagged(wire, {"config"}, isSaving)

FlagsOK ==
    /\ ShutdownFlagged /\ SendFlagged /\ SaveFlagged
    /\ ~mounted => ~isSaving

LEMMA FlagsInit == Init => FlagsOK
<1> SUFFICES ASSUME Init PROVE FlagsOK
  OBVIOUS
<1>1. \A s \in Slot : wire[s].op = "none"
  BY FreeFits DEF Init
<1>2. shutdownSimulating = FALSE /\ loading = FALSE /\ isSaving = FALSE
  BY DEF Init, SenderInit
<1>. QED
  BY <1>1, <1>2 DEF FlagsOK, ShutdownFlagged, SendFlagged, SaveFlagged, Flagged, Mode

Unflagged == {"none", "metrics", "start", "stop", "orphan"}

Flags == <<shutdownSimulating, loading, isSaving, mounted>>

\* No flag changes, and no request of a flagged kind comes or goes.
LEMMA FlagsKept ==
    ASSUME FlagsOK, UNCHANGED Flags,
           \A s \in Slot : \/ wire'[s].op = wire[s].op
                           \/ wire'[s].op \in Unflagged /\ wire[s].op \in Unflagged
    PROVE  FlagsOK'
<1>1. \A s \in Slot : /\ wire'[s].op \in {"shutdown"} <=> wire[s].op \in {"shutdown"}
                      /\ wire'[s].op \in Mode <=> wire[s].op \in Mode
                      /\ wire'[s].op \in {"config"} <=> wire[s].op \in {"config"}
  <2> TAKE s \in Slot
  <2>1. CASE wire'[s].op = wire[s].op
    BY <2>1
  <2>2. CASE wire'[s].op \in Unflagged /\ wire[s].op \in Unflagged
    BY <2>2 DEF Unflagged, Mode
  <2>. QED  BY <2>1, <2>2
<1>2. /\ Flagged(wire', {"shutdown"}, shutdownSimulating)
      /\ Flagged(wire', Mode, loading) /\ Flagged(wire', {"config"}, isSaving)
  <2>1. Flagged(wire', {"shutdown"}, shutdownSimulating)
    BY <1>1, FlagKept DEF FlagsOK, ShutdownFlagged
  <2>2. Flagged(wire', Mode, loading)
    BY <1>1, FlagKept DEF FlagsOK, SendFlagged
  <2>3. Flagged(wire', {"config"}, isSaving)
    BY <1>1, FlagKept DEF FlagsOK, SaveFlagged
  <2>. QED  BY <2>1, <2>2, <2>3
<1>3. UNCHANGED <<shutdownSimulating, loading, isSaving, mounted>>
  BY DEF Flags
<1>4. ShutdownFlagged' /\ SendFlagged' /\ SaveFlagged'
  BY <1>2, <1>3 DEF ShutdownFlagged, SendFlagged, SaveFlagged
<1>. QED
  BY <1>3, <1>4 DEF FlagsOK

LEMMA FlagsStep == TypeOK /\ WireOK /\ FlagsOK /\ [Next]_vars => FlagsOK'
<1> SUFFICES ASSUME TypeOK, WireOK, FlagsOK, [Next]_vars PROVE FlagsOK'
  OBVIOUS
<1>s. ASSUME UNCHANGED wire, UNCHANGED Flags PROVE FlagsOK'
  BY <1>s, FlagsKept
\* A command of a kind no flag tells of.
<1>p. ASSUME NEW op \in {"start", "stop"}, NEW body, op = "start" => body \in Scenario,
             op # "start" => body = 0, Post(op, body), UNCHANGED Flags
      PROVE  FlagsOK'
  <2>1. PICK s \in Slot : /\ wire[s].op = "none" /\ wire'[s] = Ask(op, body)
                          /\ \A r \in Slot : r # s => wire'[r] = wire[r]
    BY <1>p, PostStep
  <2>2. wire'[s].op \in Unflagged /\ wire[s].op \in Unflagged
    BY <2>1 DEF Ask, Unflagged
  <2>. QED  BY <1>p, <2>1, <2>2, FlagsKept
\* A command of a kind whose flag is not set.
<1>q. ASSUME NEW op \in {"shutdown", "config"} \cup Mode, NEW body, op = "config" => body \in Settings,
             op # "config" => body = 0, Post(op, body)
      PROVE  /\ \A ops \in {{"shutdown"}, Mode, {"config"}} : \A flag \in BOOLEAN :
                   op \notin ops /\ Flagged(wire, ops, flag) => Flagged(wire', ops, flag)
             /\ \A ops \in {{"shutdown"}, Mode, {"config"}} :
                   op \in ops /\ Flagged(wire, ops, FALSE) => Flagged(wire', ops, TRUE)
  <2>1. op \in {"start", "stop", "shutdown", "config"} \cup Mode /\ op # "start"
    BY DEF Mode
  <2>2. PICK s \in Slot : /\ wire[s].op = "none" /\ wire'[s] = Ask(op, body)
                          /\ \A r \in Slot : r # s => wire'[r] = wire[r]
    BY <1>q, <2>1, PostStep
  <2>3. wire'[s].op = op
    BY <2>2 DEF Ask
  <2>4. ASSUME NEW ops \in {{"shutdown"}, Mode, {"config"}}, NEW flag \in BOOLEAN,
               op \notin ops, Flagged(wire, ops, flag)
        PROVE  Flagged(wire', ops, flag)
    <3>1. "none" \notin ops
      BY <2>4 DEF Mode
    <3>2. \A r \in Slot : wire'[r].op \in ops <=> wire[r].op \in ops
      BY <2>2, <2>3, <2>4, <3>1
    <3>. QED  BY <2>4, <3>2, FlagKept
  <2>5. ASSUME NEW ops \in {{"shutdown"}, Mode, {"config"}}, op \in ops, Flagged(wire, ops, FALSE)
        PROVE  Flagged(wire', ops, TRUE)
    BY <2>2, <2>3, <2>5, FlagSet
  <2>. QED  BY <2>4, <2>5
<1>1. CASE Poll
  <2>1. PICK s \in Slot : wire[s].op = "none" /\ wire'[s] = Ask("metrics", 0) /\ OneSlotChanges(s)
    BY <1>1, PollWire
  <2>2. wire'[s].op \in Unflagged /\ wire[s].op \in Unflagged /\ UNCHANGED Flags
    BY <1>1, <2>1 DEF Ask, Unflagged, Poll, Flags, appVars, panelVars, saveState, senderVars
  <2>. QED  BY <2>1, <2>2, FlagsKept DEF OneSlotChanges
<1>2. ASSUME NEW scenario \in Scenario, Start(scenario) PROVE FlagsOK'
  BY <1>2, <1>p DEF Start, Flags, appVars, panelVars, saveState, senderVars
<1>3. CASE Halt
  BY <1>3, <1>p DEF Halt, Flags, appVars, panelVars, saveState, senderVars
<1>4. CASE Toggle
  <2>1. UNCHANGED Flags
    BY <1>4 DEF Toggle, Flags, appVars, panelVars, saveState, senderVars
  <2>. QED  BY <1>4, <1>p, <2>1 DEF Toggle
<1>5. CASE SimulateShutdown
  <2>1. /\ shutdownSimulating = FALSE /\ shutdownSimulating' = TRUE /\ Post("shutdown", 0)
        /\ UNCHANGED <<loading, isSaving, mounted>>
    BY <1>5 DEF SimulateShutdown, TypeOK, panelVars, saveState, senderVars
  <2>2. /\ loading \in BOOLEAN /\ isSaving \in BOOLEAN
        /\ "shutdown" \notin Mode
    BY DEF TypeOK, PanelTypeOK, SenderTypeOK, Mode
  <2>3. /\ Flagged(wire, {"shutdown"}, FALSE) /\ Flagged(wire, Mode, loading)
        /\ Flagged(wire, {"config"}, isSaving)
    BY <2>1 DEF FlagsOK, ShutdownFlagged, SendFlagged, SaveFlagged
  <2>4. /\ Flagged(wire', {"shutdown"}, TRUE) /\ Flagged(wire', Mode, loading)
        /\ Flagged(wire', {"config"}, isSaving)
    BY <1>q, <2>1, <2>2, <2>3
  <2>. QED  BY <2>1, <2>4 DEF FlagsOK, ShutdownFlagged, SendFlagged, SaveFlagged
<1>6. CASE Dismiss \/ PanelStep \/ Reset \/ Elsewhere
  BY <1>6, <1>s DEF Dismiss, PanelStep, EditWatched, EditOther, ClearSaved, Reset, Elsewhere,
     Flags, appVars, panelVars, saveState, senderVars
<1>7. CASE SubmitConfig
  <2>1. /\ isSaving = FALSE /\ isSaving' = TRUE /\ Post("config", form) /\ mounted /\ mounted'
        /\ UNCHANGED <<loading, shutdownSimulating>>
    BY <1>7 DEF SubmitConfig, Submit, CanSubmit, TypeOK, PanelTypeOK, appVars, senderVars
  <2>2. /\ loading \in BOOLEAN /\ shutdownSimulating \in BOOLEAN /\ form \in Settings
        /\ "config" \notin Mode
    BY DEF TypeOK, PanelTypeOK, SenderTypeOK, Mode
  <2>3. /\ Flagged(wire, {"shutdown"}, shutdownSimulating) /\ Flagged(wire, Mode, loading)
        /\ Flagged(wire, {"config"}, FALSE)
    BY <2>1 DEF FlagsOK, ShutdownFlagged, SendFlagged, SaveFlagged
  <2>4. /\ Flagged(wire', {"shutdown"}, shutdownSimulating) /\ Flagged(wire', Mode, loading)
        /\ Flagged(wire', {"config"}, TRUE)
    BY <1>q, <2>1, <2>2, <2>3
  <2>. QED  BY <2>1, <2>4 DEF FlagsOK, ShutdownFlagged, SendFlagged, SaveFlagged
<1>8. CASE SendEvents
  <2>1. /\ loading = FALSE /\ loading' = TRUE
        /\ UNCHANGED <<isSaving, shutdownSimulating, mounted>>
    BY <1>8 DEF SendEvents, Send, TypeOK, SenderTypeOK, appVars, panelVars, saveState
  <2>2. PICK op \in Mode : Post(op, 0)
    BY <1>8 DEF SendEvents
  <2>3. /\ isSaving \in BOOLEAN /\ shutdownSimulating \in BOOLEAN
        /\ op \notin {"shutdown"} /\ op \notin {"config"}
    BY DEF TypeOK, PanelTypeOK, Mode
  <2>4. /\ Flagged(wire, {"shutdown"}, shutdownSimulating) /\ Flagged(wire, Mode, FALSE)
        /\ Flagged(wire, {"config"}, isSaving)
    BY <2>1 DEF FlagsOK, ShutdownFlagged, SendFlagged, SaveFlagged
  <2>5. /\ Flagged(wire', {"shutdown"}, shutdownSimulating) /\ Flagged(wire', Mode, TRUE)
        /\ Flagged(wire', {"config"}, isSaving)
    BY <1>q, <2>2, <2>3, <2>4
  <2>. QED  BY <2>1, <2>5 DEF FlagsOK, ShutdownFlagged, SendFlagged, SaveFlagged
<1>9. CASE OpenConfigTab
  <2>1. ~mounted /\ isSaving \in BOOLEAN
    BY <1>9 DEF OpenConfigTab, Open, TypeOK, PanelTypeOK
  <2>2. isSaving = FALSE /\ isSaving' = FALSE /\ UNCHANGED <<wire, shutdownSimulating, loading>>
    BY <1>9, <2>1 DEF OpenConfigTab, Open, FlagsOK, appVars, senderVars
  <2>. QED  BY <2>2 DEF FlagsOK, ShutdownFlagged, SendFlagged, SaveFlagged, Flagged, Slot
<1>10. CASE LeaveConfigTab
  <2>1. \A s \in Slot : IF wire[s].op = "config" THEN wire'[s].op = "orphan" ELSE wire'[s] = wire[s]
    BY <1>10, LeaveStep
  <2>2. \A s \in Slot : /\ wire'[s].op \in {"shutdown"} <=> wire[s].op \in {"shutdown"}
                        /\ wire'[s].op \in Mode <=> wire[s].op \in Mode
                        /\ wire'[s].op \notin {"config"}
    BY <2>1 DEF Mode
  <2>3. isSaving' = FALSE /\ UNCHANGED <<shutdownSimulating, loading>>
    BY <1>10 DEF LeaveConfigTab, Close, appVars, senderVars
  <2>4. Flagged(wire', {"shutdown"}, shutdownSimulating) /\ Flagged(wire', Mode, loading)
    <3>1. Flagged(wire', {"shutdown"}, shutdownSimulating)
      BY <2>2, FlagKept DEF FlagsOK, ShutdownFlagged
    <3>2. Flagged(wire', Mode, loading)
      BY <2>2, FlagKept DEF FlagsOK, SendFlagged
    <3>. QED  BY <3>1, <3>2
  <2>5. Flagged(wire', {"config"}, FALSE)
    BY <2>2 DEF Flagged
  <2>. QED  BY <2>3, <2>4, <2>5 DEF FlagsOK, ShutdownFlagged, SendFlagged, SaveFlagged
<1>11. CASE SenderStep
  BY <1>11, <1>s DEF SenderStep, OpenModal, CloseModal, Flags, appVars, panelVars, saveState
<1>12. CASE Restart
  <2>1. \A s \in Slot : wire'[s].op = wire[s].op
    BY <1>12, RestartStep, BrokenFits
  <2>. QED  BY <1>12, <2>1, FlagsKept DEF Restart, Flags, appVars, panelVars, saveState, senderVars
<1>13. ASSUME NEW s \in Slot, Handle(s) \/ Lose(s) PROVE FlagsOK'
  <2>1. \A r \in Slot : wire'[r].op = wire[r].op
    <3>1. CASE Handle(s)
      BY <3>1, HandleStep
    <3>2. CASE Lose(s)
      BY <3>2, LoseStep, BrokenFits DEF Lose
    <3>. QED  BY <1>13, <3>1, <3>2
  <2>. QED  BY <1>13, <2>1, FlagsKept DEF Handle, Lose, Flags, appVars, panelVars, saveState, senderVars
<1>14. ASSUME NEW s \in Slot, Deliver(s) PROVE FlagsOK'
  <2>1. OneSlotChanges(s) /\ wire'[s].op \in {"metrics", "none"}
    BY <1>14, DeliverWire
  <2>2. wire'[s].op \in Unflagged
    BY <2>1 DEF Unflagged
  <2>k. ASSUME NEW ops \in {{"shutdown"}, Mode, {"config"}}, NEW flag \in BOOLEAN,
               Flagged(wire, ops, flag)
        PROVE  IF wire[s].op \in ops THEN Flagged(wire', ops, FALSE) ELSE Flagged(wire', ops, flag)
    <3>1. wire'[s].op \notin ops
      BY <2>1 DEF Mode
    <3>2. CASE wire[s].op \in ops
      BY <2>1, <2>k, <3>1, <3>2, FlagCleared DEF OneSlotChanges
    <3>3. CASE wire[s].op \notin ops
      <4>1. \A r \in Slot : wire'[r].op \in ops <=> wire[r].op \in ops
        BY <2>1, <3>1, <3>3 DEF OneSlotChanges
      <4>. QED  BY <2>k, <3>3, <4>1, FlagKept
    <3>. QED  BY <3>2, <3>3
  <2>t. /\ shutdownSimulating \in BOOLEAN /\ loading \in BOOLEAN /\ isSaving \in BOOLEAN
        /\ Flagged(wire, {"shutdown"}, shutdownSimulating) /\ Flagged(wire, Mode, loading)
        /\ Flagged(wire, {"config"}, isSaving)
    BY DEF TypeOK, PanelTypeOK, SenderTypeOK, FlagsOK, ShutdownFlagged, SendFlagged, SaveFlagged
  <2>3. CASE wire[s].op \in Unflagged /\ UNCHANGED Flags
    BY <2>1, <2>2, <2>3, FlagsKept DEF OneSlotChanges
  <2>4. CASE wire[s].op = "shutdown" /\ ShutdownEnds(s)
    <3>1. shutdownSimulating' = FALSE /\ UNCHANGED <<loading, isSaving, mounted>>
      BY <2>4 DEF ShutdownEnds, panelVars, saveState, senderVars
    <3>2. /\ Flagged(wire', {"shutdown"}, FALSE) /\ Flagged(wire', Mode, loading)
          /\ Flagged(wire', {"config"}, isSaving)
      BY <2>4, <2>k, <2>t DEF Mode
    <3>. QED  BY <3>1, <3>2 DEF FlagsOK, ShutdownFlagged, SendFlagged, SaveFlagged
  <2>5. CASE wire[s].op = "config" /\ ConfigEnds(s)
    <3>1. isSaving' = FALSE /\ UNCHANGED <<loading, shutdownSimulating, mounted>>
      BY <2>5 DEF ConfigEnds, Saved, SaveFailed, appVars, senderVars
    <3>2. /\ Flagged(wire', {"shutdown"}, shutdownSimulating) /\ Flagged(wire', Mode, loading)
          /\ Flagged(wire', {"config"}, FALSE)
      BY <2>5, <2>k, <2>t DEF Mode
    <3>. QED  BY <3>1, <3>2 DEF FlagsOK, ShutdownFlagged, SendFlagged, SaveFlagged
  <2>6. CASE wire[s].op \in Mode /\ SendingEnds(s)
    <3>1. loading' = FALSE /\ UNCHANGED <<isSaving, shutdownSimulating, mounted>>
      BY <2>6 DEF SendingEnds, SendEnds, appVars, panelVars, saveState
    <3>2. /\ Flagged(wire', {"shutdown"}, shutdownSimulating) /\ Flagged(wire', Mode, FALSE)
          /\ Flagged(wire', {"config"}, isSaving)
      BY <2>6, <2>k, <2>t DEF Mode
    <3>. QED  BY <3>1, <3>2 DEF FlagsOK, ShutdownFlagged, SendFlagged, SaveFlagged
  <2>7. CASE wire[s].op = "metrics" /\ ShowMetrics(s)
    <3>1. UNCHANGED Flags /\ wire[s].op \in Unflagged
      BY <2>7 DEF ShowMetrics, Flags, Unflagged, saveState, senderVars
    <3>. QED  BY <2>3, <3>1
  <2>8. CASE /\ wire[s].op \in {"start", "stop", "orphan"}
             /\ UNCHANGED <<appVars, panelVars, senderVars>>
    <3>1. UNCHANGED Flags /\ wire[s].op \in Unflagged
      BY <2>8 DEF Flags, Unflagged, appVars, panelVars, saveState, senderVars
    <3>. QED  BY <2>3, <3>1
  <2>. QED  BY <1>14, <2>4, <2>5, <2>6, <2>7, <2>8 DEF Deliver
<1>15. CASE UNCHANGED vars
  BY <1>15, <1>s DEF vars, Flags, appVars, panelVars, saveState, senderVars
<1>. QED
  BY <1>1, <1>2, <1>3, <1>4, <1>5, <1>6, <1>7, <1>8, <1>9, <1>10, <1>11, <1>12, <1>13,
     <1>14, <1>15 DEF Next

-----------------------------------------------------------------------------
(* The sender's status: a green answer on the wire, or shown, is about the *)
(* events of the request that was sent last.                               *)

GreenAnswer(w) == w.op \in Mode /\ w.stage = "answered" /\ w.body = "green"

SentOK ==
    /\ loading => responseResult = "none"
    /\ \A s \in Slot : GreenAnswer(wire[s]) => taken > 0
    /\ GreenMeansTaken

LEMMA SentInit == Init => SentOK
<1> SUFFICES ASSUME Init PROVE SentOK
  OBVIOUS
<1>1. \A s \in Slot : wire[s].op \notin Mode
  BY FreeFits DEF Init, Mode
<1>2. loading = FALSE /\ responseResult = "none"
  BY DEF Init, SenderInit
<1>. QED
  BY <1>1, <1>2 DEF SentOK, GreenAnswer, GreenMeansTaken

\* Neither the sender nor the count changes, and no green answer is new.
LEMMA SentKept ==
    ASSUME SentOK, UNCHANGED <<loading, responseResult, taken>>,
           \A s \in Slot : GreenAnswer(wire'[s]) => GreenAnswer(wire[s])
    PROVE  SentOK'
<1>1. \A s \in Slot : GreenAnswer(wire'[s]) => taken' > 0
  BY DEF SentOK
<1>2. (\A s \in Slot : GreenAnswer(wire[s]) => taken > 0)'
  BY <1>1 DEF GreenAnswer, Slot
<1>. QED
  BY <1>2 DEF SentOK, GreenMeansTaken

LEMMA SentStep == TypeOK /\ WireOK /\ FlagsOK /\ SentOK /\ [Next]_vars => SentOK'
<1> SUFFICES ASSUME TypeOK, WireOK, FlagsOK, SentOK, [Next]_vars PROVE SentOK'
  OBVIOUS
<1> DEFINE sending == <<loading, responseResult, taken>>
<1>s. ASSUME UNCHANGED wire, UNCHANGED sending PROVE SentOK'
  BY <1>s, SentKept
\* A request that is not a send leaves, or one slot does not hold an answer any more.
<1>n. ASSUME NEW s \in Slot, wire'[s].stage = "sent",
             \A r \in Slot : r # s => wire'[r] = wire[r], UNCHANGED sending
      PROVE  SentOK'
  <2>1. \A r \in Slot : GreenAnswer(wire'[r]) => GreenAnswer(wire[r])
    BY <1>n DEF GreenAnswer
  <2>. QED  BY <1>n, <2>1, SentKept
<1>p. ASSUME NEW op \in {"start", "stop", "shutdown", "config"}, NEW body,
             op = "start" => body \in Scenario, op = "config" => body \in Settings,
             op \notin {"start", "config"} => body = 0, Post(op, body), UNCHANGED sending
      PROVE  SentOK'
  <2>1. \E s \in Slot : wire'[s] = Ask(op, body) /\ \A r \in Slot : r # s => wire'[r] = wire[r]
    BY <1>p, PostStep
  <2>. QED  BY <1>n, <1>p, <2>1 DEF Ask
<1>1. CASE Poll
  <2>1. UNCHANGED sending
    BY <1>1 DEF Poll, senderVars, histVars
  <2>2. \E s \in Slot : wire'[s] = Ask("metrics", 0) /\ OneSlotChanges(s)
    BY <1>1, PollWire
  <2>. QED  BY <1>n, <2>1, <2>2 DEF Ask, OneSlotChanges
<1>2. CASE \/ \E scenario \in Scenario : Start(scenario)
           \/ Halt \/ Toggle \/ SimulateShutdown \/ SubmitConfig
  <2>1. UNCHANGED sending
    BY <1>2 DEF Start, Halt, Toggle, SimulateShutdown, SubmitConfig, senderVars, histVars
  <2>2. form \in Settings
    BY DEF TypeOK, PanelTypeOK
  <2>. QED  BY <1>2, <1>p, <2>1, <2>2 DEF Start, Halt, Toggle, SimulateShutdown, SubmitConfig
<1>3. CASE SendEvents
  <2>1. /\ loading = FALSE /\ responseResult' = "none" /\ taken' = 0
        /\ \E op \in Mode : Post(op, 0)
    BY <1>3 DEF SendEvents, Send, TypeOK, SenderTypeOK
  <2>2. \A s \in Slot : wire[s].op \notin Mode
    BY <2>1 DEF FlagsOK, SendFlagged, Flagged
  <2>3. PICK op \in Mode : Post(op, 0)
    BY <2>1
  <2>4. PICK s \in Slot : wire'[s] = Ask(op, 0) /\ \A r \in Slot : r # s => wire'[r] = wire[r]
    BY <2>3, PostStep DEF Mode
  <2>5. \A r \in Slot : ~GreenAnswer(wire'[r])
    BY <2>2, <2>4 DEF GreenAnswer, Ask
  <2>6. (\A r \in Slot : ~GreenAnswer(wire[r]))'
    BY <2>5 DEF GreenAnswer, Slot
  <2>. QED  BY <2>1, <2>6 DEF SentOK, GreenMeansTaken
<1>4. CASE LeaveConfigTab
  <2>1. \A s \in Slot : wire'[s] = wire[s] \/ wire'[s].op = "orphan"
    BY <1>4, LeaveStep
  <2>2. \A s \in Slot : GreenAnswer(wire'[s]) => GreenAnswer(wire[s])
    BY <2>1 DEF GreenAnswer, Mode
  <2>3. UNCHANGED sending
    BY <1>4 DEF LeaveConfigTab, senderVars, histVars
  <2>. QED  BY <2>2, <2>3, SentKept
<1>5. CASE Dismiss \/ OpenConfigTab \/ PanelStep \/ SenderStep \/ Reset \/ Elsewhere \/ UNCHANGED vars
  BY <1>5, <1>s DEF Dismiss, OpenConfigTab, PanelStep, SenderStep, OpenModal, CloseModal, Reset,
     Elsewhere, vars, senderVars, histVars
<1>6. CASE Restart
  <2>1. \A s \in Slot : GreenAnswer(wire'[s]) => GreenAnswer(wire[s])
    BY <1>6, RestartStep, BrokenFits DEF GreenAnswer
  <2>. QED  BY <1>6, <2>1, SentKept DEF Restart, senderVars
<1>7. ASSUME NEW s \in Slot, Lose(s) PROVE SentOK'
  <2>1. \A r \in Slot : GreenAnswer(wire'[r]) => GreenAnswer(wire[r])
    BY <1>7, LoseStep, BrokenFits DEF Lose, GreenAnswer
  <2>. QED  BY <1>7, <2>1, SentKept DEF Lose, senderVars, histVars
<1>8. ASSUME NEW s \in Slot, Handle(s) PROVE SentOK'
  <2>1. /\ wire'[s].op = wire[s].op /\ \A r \in Slot : r # s => wire'[r] = wire[r]
        /\ UNCHANGED <<loading, responseResult>>
    BY <1>8, HandleStep DEF Handle, senderVars
  <2>2. CASE wire[s].op \notin Mode /\ UNCHANGED taken
    <3>1. \A r \in Slot : GreenAnswer(wire'[r]) => GreenAnswer(wire[r])
      BY <2>1, <2>2 DEF GreenAnswer
    <3>. QED  BY <2>1, <2>2, <3>1, SentKept
  <2>3. CASE wire[s].op \in Mode
    <3>1. loading /\ \A r \in Slot : r # s => wire[r].op \notin Mode
      BY <2>3 DEF FlagsOK, SendFlagged, Flagged
    <3>2. PICK n \in 0..2 : taken' = n /\ Answer(s, Status(n))
      BY <1>8, <2>3 DEF Handle, Mode
    <3>3. Status(n) = "green" => taken' > 0
      BY <3>2 DEF Status
    <3>4. wire'[s].body = Status(n)
      BY <3>2 DEF Answer, Answered, WireOK
    <3>5. \A r \in Slot : GreenAnswer(wire'[r]) => taken' > 0
      BY <2>1, <3>1, <3>3, <3>4 DEF GreenAnswer
    <3>6. (\A r \in Slot : GreenAnswer(wire[r]) => taken > 0)'
      BY <3>5 DEF GreenAnswer, Slot
    <3>7. responseResult' = "none" /\ loading'
      BY <2>1, <3>1 DEF SentOK
    <3>. QED  BY <3>6, <3>7 DEF SentOK, GreenMeansTaken
  <2>4. wire[s].op \in Mode \/ UNCHANGED taken
    BY <1>8 DEF Handle, Mode
  <2>. QED  BY <2>2, <2>3, <2>4
<1>9. ASSUME NEW s \in Slot, Deliver(s) PROVE SentOK'
  <2>1. OneSlotChanges(s) /\ wire'[s].stage = "sent" /\ UNCHANGED taken
    BY <1>9, DeliverWire DEF Deliver, histVars
  <2>2. CASE wire[s].op \in Mode /\ SendingEnds(s)
    <3>1. /\ loading' = FALSE
          /\ responseResult' = IF wire[s].stage = "answered" THEN wire[s].body ELSE "red"
      BY <2>2 DEF SendingEnds, SendEnds
    <3>2. responseResult' = "green" => taken' > 0
      BY <2>1, <2>2, <3>1 DEF SentOK, GreenAnswer
    <3>3. \A r \in Slot : GreenAnswer(wire'[r]) => taken' > 0
      BY <2>1 DEF SentOK, GreenAnswer, OneSlotChanges
    <3>4. (\A r \in Slot : GreenAnswer(wire[r]) => taken > 0)'
      BY <3>3 DEF GreenAnswer, Slot
    <3>. QED  BY <3>1, <3>2, <3>4 DEF SentOK, GreenMeansTaken
  <2>3. CASE UNCHANGED senderVars
    BY <1>n, <2>1, <2>3 DEF senderVars, OneSlotChanges
  <2>. QED  BY <1>9, <2>2, <2>3 DEF Deliver, ShowMetrics, ShutdownEnds, ConfigEnds
<1>. QED
  BY <1>1, <1>2, <1>3, <1>4, <1>5, <1>6, <1>7, <1>8, <1>9 DEF Next

-----------------------------------------------------------------------------
(* The theorems.                                                           *)

IInv == TypeOK /\ WireOK /\ GatewayOK /\ FlagsOK /\ SentOK

LEMMA Inductive == Spec => []IInv
<1>1. Init => IInv
  BY TypeInit, WireInit, GatewayInit, FlagsInit, SentInit DEF IInv
<1>2. IInv /\ [Next]_vars => IInv'
  BY TypeStep, WireStep, GatewayStep, FlagsStep, SentStep DEF IInv
<1>. QED
  BY <1>1, <1>2, PTL DEF Spec

\* Every variable of the console and the gateway keeps its type, the trend its length.
THEOREM TypeCorrect == Spec => []TypeOK
BY Inductive, PTL DEF IInv

\* However starts, stops and shutdowns of several consoles interleave, there is
\* one load interval while a test is on, and none otherwise.
THEOREM OneGeneratorCorrect == Spec => []OneGenerator
<1>1. IInv => OneGenerator
  BY DEF IInv, GatewayOK, OneGenerator
<1>. QED
  BY <1>1, Inductive, PTL

\* One request of the kind is under way when its flag is set, none when it is not.
LEMMA FlagCounts ==
    ASSUME NEW ops, NEW flag \in BOOLEAN, Flagged(wire, ops, flag)
    PROVE  Cardinality(InFlight(ops)) = IF flag THEN 1 ELSE 0
<1>1. CASE flag
  <2>1. PICK s \in Slot : wire[s].op \in ops
    BY <1>1 DEF Flagged
  <2>2. InFlight(ops) = {s}
    BY <2>1 DEF Flagged, InFlight
  <2>. QED  BY <1>1, <2>2, FS_Singleton
<1>2. CASE ~flag
  <2>1. InFlight(ops) = {}
    BY <1>2 DEF Flagged, InFlight
  <2>. QED  BY <1>2, <2>1, FS_EmptySet
<1>. QED
  BY <1>1, <1>2

\* Through losses, restarts, closed modals and abandoned tabs, a button is
\* disabled exactly while its request is under way.
THEOREM FlagsCorrect == Spec => []FlagsTellTheWire
<1>1. IInv => FlagsTellTheWire
  <2> SUFFICES ASSUME IInv PROVE FlagsTellTheWire
    OBVIOUS
  <2>1. shutdownSimulating \in BOOLEAN /\ loading \in BOOLEAN /\ isSaving \in BOOLEAN
    BY DEF IInv, TypeOK, PanelTypeOK, SenderTypeOK
  <2>2. ShutdownFlagged /\ SendFlagged /\ SaveFlagged
    BY DEF IInv, FlagsOK
  <2>. QED
    BY <2>1, <2>2, FlagCounts DEF ShutdownFlagged, SendFlagged, SaveFlagged, FlagsTellTheWire
<1>. QED
  BY <1>1, Inductive, PTL

\* A green status in the sender is about the request sent last, and its events
\* were taken.
THEOREM GreenCorrect == Spec => []GreenMeansTaken
<1>1. IInv => GreenMeansTaken
  BY DEF IInv, SentOK
<1>. QED
  BY <1>1, Inductive, PTL
=============================================================================
