------------------------------- MODULE Console -------------------------------
(***************************************************************************)
(* The web console of src/App.tsx with its header, load test studio,       *)
(* config panel, event sender and shutdown banner, and the side of         *)
(* server.ts it talks to.                                                  *)
(*                                                                         *)
(* A handler of the console runs up to its fetch; the request is on the    *)
(* wire; the gateway handles it in one callback; the rest of the handler   *)
(* runs when the answer, or a network error, arrives.  Requests overtake   *)
(* each other on both ways.  React renders, and runs the effects of, a     *)
(* state change before the next click or answer, so that is one step.      *)
(*                                                                         *)
(* fetchLogs is fetchMetrics for the logs, which nothing acts on, and is   *)
(* left out, as is what only draws: charts, cards, the log viewer, the     *)
(* architecture and code browsers.                                         *)
(***************************************************************************)
EXTENDS ConfigPanel, EventSender, Sequences, FiniteSets

CONSTANTS
    Scenario,       \* the load tests that can be started
    Off,            \* no load test
    Boot,           \* the settings the gateway boots with and useState gives
    HistoryCap,     \* points the trend keeps (25)
    MaxInFlight,    \* bound: requests on the wire at a time
    MaxCommands,    \* bound: commands from this console
    MaxOthers,      \* bound: commands from elsewhere and restarts of the gateway
    MaxFaults,      \* bound: requests and answers lost
    Sessions        \* bound: what the user works with in one behaviour

ASSUME ConsoleAssumption ==
    /\ Off \notin Scenario /\ Boot \in Settings /\ Unset \notin Settings
    /\ HistoryCap \in Nat \ {0} /\ MaxInFlight \in Nat

VARIABLES
    metrics, history, shutdownSimulating, shutdownReport,       \* App
    engine,         \* what getMetrics shows: [test, draining, settings]
    loadTimer,      \* loadTestTimer is set
    generators,     \* load intervals that are running
    resetTimers,    \* 2 s timeouts of shutdowns that have not fired
    wire,           \* the requests of the console, one in each slot
    taken,          \* history: events taken of the last send
    meddled,        \* history: the settings were set by someone else, by a
                    \* restart, or by a save that has outlived its panel
    session, commands, others, faults

appVars  == <<metrics, history, shutdownSimulating, shutdownReport>>
gateVars == <<engine, loadTimer, generators, resetTimers>>
histVars == <<taken, meddled>>
bounds   == <<session, commands, others, faults>>
vars == <<appVars, gateVars, panelVars, senderVars, wire, histVars, bounds>>

Engine == [test : Scenario \cup {Off}, draining : BOOLEAN, settings : Settings]
Booted == [test |-> Off, draining |-> FALSE, settings |-> Boot]

Slot == 1..MaxInFlight
Free == [op |-> "none", stage |-> "sent", body |-> 0]
InFlight(ops) == {s \in Slot : wire[s].op \in ops}

Init ==
    /\ metrics = Unset /\ history = <<>>
    /\ shutdownSimulating = FALSE /\ shutdownReport = FALSE
    /\ engine = Booted /\ loadTimer = FALSE /\ generators = 0 /\ resetTimers = 0
    /\ mounted = FALSE /\ form = Boot /\ unsaved = FALSE
    /\ isSaving = FALSE /\ savedSuccess = FALSE /\ clearTimers = 0
    /\ SenderInit
    /\ wire = [s \in Slot |-> Free]
    /\ taken = 0 /\ meddled = FALSE
    /\ session \in Sessions /\ commands = 0 /\ others = 0 /\ faults = 0

-----------------------------------------------------------------------------
(* Requests leave.                                                         *)

Ask(op, body) == [op |-> op, stage |-> "sent", body |-> body]

Fetch(op, body) ==
    \E s \in Slot :
        /\ wire[s].op = "none" /\ \A r \in Slot : r < s => wire[r].op # "none"
        /\ wire' = [wire EXCEPT ![s] = Ask(op, body)]

\* A click that posts a command.
Post(op, body) ==
    /\ commands < MaxCommands /\ commands' = commands + 1
    /\ Fetch(op, body)
    /\ UNCHANGED <<session, others, faults>>

\* Mutant of Poll: the interval polls only until it has an answer.
Poll_Once ==
    /\ metrics = Unset
    /\ Fetch("metrics", 0)
    /\ UNCHANGED <<appVars, gateVars, panelVars, senderVars, histVars, bounds>>

\* At mount and at every second, whether earlier answers have arrived or not.
Poll ==
    /\ Fetch("metrics", 0)
    /\ UNCHANGED <<appVars, gateVars, panelVars, senderVars, histVars, bounds>>

TestShown == IF metrics = Unset THEN FALSE ELSE metrics.test # Off

\* A preset, which can be clicked at any time, or the custom run: with slider
\* and presets every scenario can be started at any rate.
Start(scenario) ==
    /\ "tests" \in session
    /\ Post("start", scenario)
    /\ UNCHANGED <<appVars, gateVars, panelVars, senderVars, histVars>>

\* The halt button is shown instead of the custom run's.
Halt ==
    /\ "tests" \in session /\ TestShown
    /\ Post("stop", 0)
    /\ UNCHANGED <<appVars, gateVars, panelVars, senderVars, histVars>>

\* The header's button decides by the metrics shown.
Toggle ==
    /\ "tests" \in session
    /\ IF TestShown THEN Post("stop", 0)
                    ELSE \E steady \in Scenario : Post("start", steady)
    /\ UNCHANGED <<appVars, gateVars, panelVars, senderVars, histVars>>

\* Mutant of SimulateShutdown: the flag is set when the answer is there.
SimulateShutdown_FlagLate ==
    /\ "shutdown" \in session /\ ~shutdownSimulating
    /\ Post("shutdown", 0)
    /\ UNCHANGED <<appVars, gateVars, panelVars, senderVars, histVars>>

\* The button is disabled while a simulation is under way.
SimulateShutdown ==
    /\ "shutdown" \in session /\ ~shutdownSimulating
    /\ shutdownSimulating' = TRUE
    /\ Post("shutdown", 0)
    /\ UNCHANGED <<metrics, history, shutdownReport, gateVars, panelVars, senderVars, histVars>>

Dismiss ==
    /\ shutdownReport /\ shutdownReport' = FALSE
    /\ UNCHANGED <<metrics, history, shutdownSimulating, gateVars, panelVars, senderVars,
                   wire, histVars, bounds>>

SubmitConfig ==
    /\ Submit
    /\ Post("config", form)
    /\ UNCHANGED <<appVars, gateVars, senderVars, histVars>>

SendEvents ==
    /\ Send
    /\ \E mode \in Mode : Post(mode, 0)
    /\ taken' = 0
    /\ UNCHANGED <<appVars, gateVars, panelVars, meddled>>

-----------------------------------------------------------------------------
(* What the user does without a request.                                   *)

SeenSettings == IF metrics = Unset THEN Unset ELSE metrics.settings

OpenConfigTab ==
    /\ "config" \in session
    /\ Open(Boot, SeenSettings)
    /\ UNCHANGED <<appVars, gateVars, senderVars, wire, histVars, bounds>>

\* Another tab is opened.  A save under way will find no panel to tell.
LeaveConfigTab ==
    /\ Close(Boot)
    /\ wire' = [s \in Slot |->
                   IF wire[s].op = "config" THEN [wire[s] EXCEPT !.op = "orphan"] ELSE wire[s]]
    /\ UNCHANGED <<appVars, gateVars, senderVars, histVars, bounds>>

PanelStep ==
    /\ (\E v \in Level : EditWatched(v) \/ EditOther(v)) \/ ClearSaved
    /\ UNCHANGED <<appVars, gateVars, senderVars, wire, histVars, bounds>>

SenderStep ==
    /\ "sender" \in session /\ (OpenModal \/ CloseModal)
    /\ UNCHANGED <<appVars, gateVars, panelVars, wire, histVars, bounds>>

-----------------------------------------------------------------------------
(* The gateway.                                                            *)

\* stopLoadTest clears the interval it has a handle of.
Halted == IF loadTimer THEN generators - 1 ELSE generators

\* Mutant of StartLoadTest: the interval before is not stopped.
StartLoadTest_NoStop(scenario) ==
    /\ engine' = [engine EXCEPT !.test = scenario]
    /\ generators' = generators + 1 /\ loadTimer' = TRUE

StartLoadTest(scenario) ==
    /\ engine' = [engine EXCEPT !.test = scenario]
    /\ generators' = Halted + 1 /\ loadTimer' = TRUE

StopLoadTest ==
    /\ engine' = [engine EXCEPT !.test = Off]
    /\ generators' = Halted /\ loadTimer' = FALSE

\* push(...queue) may throw, before the timeout is set: express answers 500.
GracefulShutdown(ok) ==
    /\ engine' = [engine EXCEPT !.test = Off, !.draining = TRUE]
    /\ generators' = Halted /\ loadTimer' = FALSE
    /\ resetTimers' = IF ok THEN resetTimers + 1 ELSE resetTimers

UpdateConfig(settings) ==
    /\ engine' = [engine EXCEPT !.settings = settings]
    /\ UNCHANGED <<loadTimer, generators, resetTimers>>

\* The timeout of a shutdown.
Reset ==
    /\ resetTimers > 0
    /\ resetTimers' = resetTimers - 1
    /\ engine' = [engine EXCEPT !.draining = FALSE]
    /\ UNCHANGED <<appVars, loadTimer, generators, panelVars, senderVars, wire, histVars, bounds>>

Answered(request, body) == [op |-> request.op, stage |-> "answered", body |-> body]

Answer(s, body) == wire' = [wire EXCEPT ![s] = Answered(@, body)]

\* One request is handled, in one callback.
Handle(s) ==
    /\ wire[s].op # "none" /\ wire[s].stage = "sent"
    /\ \/ /\ wire[s].op = "metrics"
          /\ Answer(s, engine)
          /\ UNCHANGED <<gateVars, taken>>
       \/ /\ wire[s].op = "start"
          /\ StartLoadTest(wire[s].body) /\ Answer(s, 0)
          /\ UNCHANGED <<resetTimers, taken>>
       \/ /\ wire[s].op = "stop"
          /\ StopLoadTest /\ Answer(s, 0)
          /\ UNCHANGED <<resetTimers, taken>>
       \/ /\ wire[s].op = "shutdown"
          /\ \E ok \in BOOLEAN : GracefulShutdown(ok) /\ Answer(s, ok)
          /\ UNCHANGED taken
       \/ /\ wire[s].op \in {"config", "orphan"}
          /\ UpdateConfig(wire[s].body) /\ Answer(s, 0)
          /\ UNCHANGED taken
       \/ /\ wire[s].op = "single"
          /\ \E n \in 0..1 : taken' = n /\ Answer(s, Status(n))
          /\ UNCHANGED gateVars
       \/ /\ wire[s].op = "batch"
          /\ \E n \in 0..2 : taken' = n /\ Answer(s, Status(n))
          /\ UNCHANGED gateVars
    /\ meddled' = (meddled \/ wire[s].op = "orphan")
    /\ UNCHANGED <<appVars, panelVars, senderVars, bounds>>

\* Another console, or a script, commands the gateway.
Elsewhere ==
    /\ others < MaxOthers /\ others' = others + 1
    /\ \/ /\ "config" \in session
          /\ \E settings \in Settings : UpdateConfig(settings)
          /\ meddled' = TRUE
       \/ /\ "tests" \in session
          /\ \/ \E scenario \in Scenario : StartLoadTest(scenario)
             \/ StopLoadTest
          /\ UNCHANGED <<resetTimers, meddled>>
       \/ /\ "shutdown" \in session
          /\ \E ok \in BOOLEAN : GracefulShutdown(ok)
          /\ UNCHANGED meddled
    /\ UNCHANGED <<appVars, panelVars, senderVars, wire, taken, session, commands, faults>>

Broken(s) == IF wire[s].op = "none" THEN wire[s] ELSE [wire[s] EXCEPT !.stage = "failed"]

\* The gateway keeps nothing.  Its connections break; an answer that has left it
\* may still arrive.
Restart ==
    /\ others < MaxOthers /\ others' = others + 1
    /\ engine' = Booted /\ loadTimer' = FALSE /\ generators' = 0 /\ resetTimers' = 0
    /\ \E kept \in SUBSET {s \in Slot : wire[s].stage = "answered"} :
         wire' = [s \in Slot |-> IF s \in kept THEN wire[s] ELSE Broken(s)]
    /\ meddled' = TRUE
    /\ UNCHANGED <<appVars, panelVars, senderVars, taken, session, commands, faults>>

\* A request is lost on its way, or its answer is.
Lose(s) ==
    /\ wire[s].op # "none" /\ wire[s].stage # "failed"
    /\ faults < MaxFaults /\ faults' = faults + 1
    /\ wire' = [wire EXCEPT ![s] = Broken(s)]
    /\ UNCHANGED <<appVars, gateVars, panelVars, senderVars, histVars, session, commands, others>>

-----------------------------------------------------------------------------
(* Answers arrive, and the handlers go on.                                 *)

LastOf(s, n) == SubSeq(s, Len(s) - n + 1, Len(s))

\* Mutant of Trend: nothing is shifted out.
Trend_Unbounded(points) == points

\* The trend keeps the last points.
Trend(points) == IF Len(points) > HistoryCap THEN LastOf(points, HistoryCap) ELSE points

\* fetchMetrics: an error is only logged.
ShowMetrics(s) ==
    /\ wire' = [wire EXCEPT ![s] = Free]
    /\ IF wire[s].stage = "answered"
         THEN /\ metrics' = wire[s].body
              /\ history' = Trend(Append(history, wire[s].body.test))
              /\ Effect(SeenSettings, wire[s].body.settings)
         ELSE UNCHANGED <<metrics, history, form, unsaved>>
    /\ UNCHANGED <<shutdownSimulating, shutdownReport, mounted, saveState, senderVars>>

\* A handler that goes on fetches the metrics; one whose fetch throws does not.
FetchAfter(s) ==
    wire' = [wire EXCEPT ![s] = IF wire[s].stage = "answered" THEN Ask("metrics", 0) ELSE Free]

ShutdownEnds(s) ==
    /\ FetchAfter(s)
    /\ shutdownReport' = (shutdownReport \/ (wire[s].stage = "answered" /\ wire[s].body))
    /\ shutdownSimulating' = FALSE
    /\ UNCHANGED <<metrics, history, panelVars, senderVars>>

ConfigEnds(s) ==
    /\ FetchAfter(s)
    /\ IF wire[s].stage = "answered" THEN Saved ELSE SaveFailed
    /\ UNCHANGED <<appVars, senderVars>>

SendingEnds(s) ==
    /\ FetchAfter(s)
    /\ SendEnds(IF wire[s].stage = "answered" THEN wire[s].body ELSE "red")
    /\ UNCHANGED <<appVars, panelVars>>

Deliver(s) ==
    /\ wire[s].stage \in {"answered", "failed"}
    /\ \/ wire[s].op = "metrics" /\ ShowMetrics(s)
       \/ wire[s].op = "shutdown" /\ ShutdownEnds(s)
       \/ wire[s].op = "config" /\ ConfigEnds(s)
       \/ wire[s].op \in Mode /\ SendingEnds(s)
       \/ /\ wire[s].op \in {"start", "stop", "orphan"}
          /\ FetchAfter(s)
          /\ UNCHANGED <<appVars, panelVars, senderVars>>
    /\ UNCHANGED <<gateVars, histVars, bounds>>

-----------------------------------------------------------------------------
Next ==
    \/ Poll
    \/ \E scenario \in Scenario : Start(scenario)
    \/ Halt \/ Toggle \/ SimulateShutdown \/ Dismiss \/ SubmitConfig \/ SendEvents
    \/ OpenConfigTab \/ LeaveConfigTab \/ PanelStep \/ SenderStep
    \/ Reset \/ Elsewhere \/ Restart
    \/ \E s \in Slot : Handle(s) \/ Deliver(s) \/ Lose(s)

Spec == Init /\ [][Next]_vars

\* The interval polls, the gateway and the network answer or break off, the
\* timeouts fire.  Nobody is obliged to click.
FairSpec ==
    /\ Spec
    /\ WF_vars(Poll) /\ WF_vars(Reset)
    /\ \A s \in Slot : WF_vars(Handle(s)) /\ WF_vars(Deliver(s))

-----------------------------------------------------------------------------
(* Properties.                                                             *)

\* The values the variables range over.
TypeOK ==
    /\ metrics \in Engine \cup {Unset}
    /\ history \in Seq(Scenario \cup {Off}) /\ Len(history) <= HistoryCap
    /\ {shutdownSimulating, shutdownReport, loadTimer, meddled} \subseteq BOOLEAN
    /\ engine \in Engine /\ generators \in Nat /\ resetTimers \in Nat
    /\ PanelTypeOK /\ SenderTypeOK
    /\ DOMAIN wire = Slot
    /\ taken \in 0..2 /\ {commands, others, faults} \subseteq Nat

\* The flags that disable a button tell the truth about the wire, whatever is
\* lost, closed or restarted meanwhile: there is one shutdown, one send and one
\* save of the open panel on its way when the flag is set, and none when it is not.
FlagsTellTheWire ==
    /\ Cardinality(InFlight({"shutdown"})) = IF shutdownSimulating THEN 1 ELSE 0
    /\ Cardinality(InFlight(Mode)) = IF loading THEN 1 ELSE 0
    /\ Cardinality(InFlight({"config"})) = IF isSaving THEN 1 ELSE 0

\* A green status in the sender means that the gateway has taken events of the
\* request that was sent last, also when the modal was closed and opened since.
GreenMeansTaken == responseResult = "green" => taken > 0

\* However many starts and stops arrive, in whatever order, a load test that is
\* on has one generator, and none is left when it is off.
OneGenerator == generators = IF engine.test = Off THEN 0 ELSE 1

\* When nobody commands the gateway any more, the console shows what it is doing,
\* though answers overtook each other, were lost, or broke off.
ConsoleCatchesUp == <>[](metrics = engine)

\* The settings the effect watches follow the gateway in an open form without
\* unsaved changes, unless someone else has set them.
WatchedSettingsFollow ==
    <>[](mounted /\ ~unsaved /\ ~meddled => form.watched = engine.settings.watched)
=============================================================================
