-------------------------- MODULE WorkerPoolProof ---------------------------
(***************************************************************************)
(* What is proved of the worker pool for every set of events, workers and  *)
(* handlers, every queue capacity and every length of a batch.             *)
(***************************************************************************)
EXTENDS WorkerPool, SequenceTheorems, FiniteSetTheorems, TLAPS

USE QueueCapAssumption, MaxBatchAssumption

-----------------------------------------------------------------------------
(* The elements of a sequence.                                             *)

LEMMA NoElements == <<>> \in Seq(Event) /\ Len(<<>>) = 0 /\ ToSet(<<>>) = {}
BY EmptySeq DEF ToSet

LEMMA OneElement ==
    ASSUME NEW e \in Event
    PROVE  <<e>> \in Seq(Event) /\ ToSet(<<e>>) = {e} /\ <<e>> # <<>>
<1>1. <<e>> \in Seq(Event) /\ Len(<<e>>) = 1 /\ <<e>>[1] = e /\ DOMAIN <<e>> = {1}
  OBVIOUS
<1>. QED
  BY <1>1, EmptySeq DEF ToSet

\* What is appended is added to the elements.
LEMMA ElementsAppend ==
    ASSUME NEW s \in Seq(Event), NEW e \in Event
    PROVE  /\ Append(s, e) \in Seq(Event) /\ Len(Append(s, e)) = Len(s) + 1
           /\ ToSet(Append(s, e)) = ToSet(s) \cup {e}
<1>1. /\ Append(s, e) \in Seq(Event) /\ Len(Append(s, e)) = Len(s) + 1
      /\ \A i \in 1..Len(s) : Append(s, e)[i] = s[i]
      /\ Append(s, e)[Len(s) + 1] = e
  BY AppendProperties
<1>2. /\ DOMAIN s = 1..Len(s) /\ DOMAIN Append(s, e) = 1..(Len(s) + 1)
      /\ Len(s) \in Nat
  BY <1>1, LenProperties
<1>. QED
  BY <1>1, <1>2 DEF ToSet

\* A sequence has the elements of its head and its tail.
LEMMA ElementsHeadTail ==
    ASSUME NEW s \in Seq(Event), s # <<>>
    PROVE  /\ Head(s) \in Event /\ Tail(s) \in Seq(Event)
           /\ Len(s) \in Nat \ {0} /\ Len(Tail(s)) = Len(s) - 1
           /\ Head(s) = s[1] /\ \A i \in 1..Len(Tail(s)) : Tail(s)[i] = s[i + 1]
           /\ ToSet(s) = {Head(s)} \cup ToSet(Tail(s))
<1>1. /\ Head(s) \in Event /\ Tail(s) \in Seq(Event)
      /\ Len(Tail(s)) = Len(s) - 1 /\ Head(s) = s[1]
      /\ \A i \in 1..Len(Tail(s)) : Tail(s)[i] = s[i + 1]
  BY HeadTailProperties
<1>2. /\ Len(s) \in Nat \ {0} /\ DOMAIN s = 1..Len(s)
      /\ DOMAIN Tail(s) = 1..(Len(s) - 1)
  BY <1>1, EmptySeq, LenProperties
<1>3. ASSUME NEW i \in 1..Len(s), i # 1
      PROVE  i - 1 \in 1..(Len(s) - 1) /\ s[i] = Tail(s)[i - 1]
  <2>1. i - 1 \in 1..(Len(s) - 1)
    <3>1. i \in Nat /\ i >= 1 /\ i <= Len(s) /\ Len(s) \in Nat
      BY <1>2
    <3>. QED  BY <3>1, <1>3
  <2>2. Tail(s)[i - 1] = s[(i - 1) + 1]
    BY <1>1, <2>1
  <2>3. (i - 1) + 1 = i
    BY <1>2
  <2>. QED  BY <2>1, <2>2, <2>3
<1>4. ToSet(s) \subseteq {Head(s)} \cup ToSet(Tail(s))
  <2>1. SUFFICES ASSUME NEW i \in 1..Len(s)
                 PROVE  s[i] \in {Head(s)} \cup ToSet(Tail(s))
    BY <1>2 DEF ToSet
  <2>2. CASE i = 1
    BY <1>1, <2>2
  <2>3. CASE i # 1
    BY <1>2, <1>3, <2>3 DEF ToSet
  <2>. QED  BY <2>2, <2>3
<1>5. \A i \in 1..(Len(s) - 1) : i + 1 \in 1..Len(s) /\ Tail(s)[i] = s[i + 1]
  BY <1>1, <1>2
<1>6. {Head(s)} \cup ToSet(Tail(s)) \subseteq ToSet(s)
  <2>1. Head(s) \in ToSet(s)
    BY <1>1, <1>2 DEF ToSet
  <2>2. ToSet(Tail(s)) \subseteq ToSet(s)
    BY <1>2, <1>5 DEF ToSet
  <2>. QED  BY <2>1, <2>2
<1>. QED
  BY <1>1, <1>2, <1>4, <1>6

LEMMA ElementsAreEvents ==
    ASSUME NEW s \in Seq(Event)
    PROVE  ToSet(s) \subseteq Event
BY ElementOfSeq DEF ToSet

-----------------------------------------------------------------------------
(* Type correctness.                                                       *)

LEMMA TypeInit == Init => TypeOK
<1> SUFFICES ASSUME Init PROVE TypeOK
  OBVIOUS
<1>1. taskCh \in Seq(Event) /\ Len(taskCh) <= QueueCap
  BY NoElements DEF Init
<1>2. task \in [Worker -> Seq(Event)] /\ request \in [Handler -> Seq(Event)]
  BY NoElements DEF Init
<1>. QED
  BY <1>1, <1>2 DEF Init, TypeOK

\* A call's events are a sequence of fresh events, each once.
LEMMA CallTypes ==
    ASSUME TypeOK, NEW events \in {s \in Calls : IsInjective(s)}
    PROVE  /\ events \in Seq(Event) /\ ToSet(events) \subseteq fresh
           /\ \A i, j \in DOMAIN events : events[i] = events[j] => i = j
<1>1. PICK n \in 1..MaxBatch : events \in [1..n -> fresh]
  BY DEF Calls
<1>2. n \in Nat /\ fresh \subseteq Event
  BY <1>1 DEF TypeOK
<1>3. events \in Seq(fresh) /\ events \in Seq(Event)
  BY <1>1, <1>2, IsASeq
<1>. QED
  BY <1>1, <1>3 DEF IsInjective, ToSet

\* EnqueueReturns keeps the handler's variables in their types.
LEMMA ReturnTypes ==
    ASSUME TypeOK, NEW h \in Handler, NEW result \in {"accepted", "full", "shut"},
           EnqueueReturns(h, result), request[h] # <<>>
    PROVE  /\ answer' \in [Event -> {"none", "accepted", "full", "shut"}]
           /\ request' \in [Handler -> Seq(Event)]
           /\ tally' \in [Handler -> [accepted : Nat, dropped : Nat]]
           /\ handlerPc' \in [Handler -> {"idle", "check", "send", "count", "panicked"}]
<1>1. Head(request[h]) \in Event /\ Tail(request[h]) \in Seq(Event)
  BY ElementsHeadTail DEF TypeOK
<1>2. tally[h] \in [accepted : Nat, dropped : Nat]
  BY DEF TypeOK
<1>3. tally' \in [Handler -> [accepted : Nat, dropped : Nat]]
  <2>1. /\ [tally[h] EXCEPT !.accepted = @ + 1] \in [accepted : Nat, dropped : Nat]
        /\ [tally[h] EXCEPT !.dropped = @ + 1] \in [accepted : Nat, dropped : Nat]
    BY <1>2
  <2>2. \/ tally' = [tally EXCEPT ![h] = [tally[h] EXCEPT !.accepted = @ + 1]]
        \/ tally' = [tally EXCEPT ![h] = [tally[h] EXCEPT !.dropped = @ + 1]]
    BY DEF EnqueueReturns, TypeOK
  <2>. QED  BY <2>1, <2>2 DEF TypeOK
<1>. QED
  BY <1>1, <1>3 DEF EnqueueReturns, TypeOK

-----------------------------------------------------------------------------
(* The inductive invariant: where a goroutine is says what it holds.       *)

\* A handler in the middle of a call has an event to enqueue, none before it.
\* The events of its call are its own: no other handler has them, none is fresh,
\* none was answered, and only the one about to be counted is in the channel.
BusyHasEvent ==
    \A h \in Handler : /\ handlerPc[h] \in {"check", "send", "count"} => request[h] # <<>>
                       /\ handlerPc[h] = "idle" => request[h] = <<>>

OwnEvents ==
    \A h \in Handler : \A i \in 1..Len(request[h]) :
        /\ request[h][i] \notin fresh /\ answer[request[h][i]] = "none"
        /\ request[h][i] \in sent <=> (i = 1 /\ handlerPc[h] = "count")

Apart ==
    \A h, k \in Handler : \A i \in 1..Len(request[h]), j \in 1..Len(request[k]) :
        request[h][i] = request[k][j] => h = k /\ i = j

FreshIsNew == \A e \in fresh : answer[e] = "none" /\ e \notin sent

RequestsOK == BusyHasEvent /\ OwnEvents /\ Apart /\ FreshIsNew

\* A worker holds an event only on its way to Submit, and is done only after the
\* channel was closed and emptied.
WorkersOK ==
    \A w \in Worker :
        /\ workerPc[w] \notin {"forward", "drainForward"} => task[w] = <<>>
        /\ workerPc[w] = "done" => chClosed /\ taskCh = <<>>

\* Where the caller of Shutdown is says what it has done.
ShutdownOK ==
    /\ shutPc \in {"cancel", "wait", "returned"} => chClosed
    /\ shutPc = "returned" => \A w \in Worker : workerPc[w] = "done"

-----------------------------------------------------------------------------
(* Every step keeps the types.                                             *)

\* The head of a busy handler's request is the event it enqueues.
LEMMA HeadTypes ==
    ASSUME TypeOK, BusyHasEvent, NEW h \in Handler, handlerPc[h] \in {"check", "send", "count"}
    PROVE  /\ request[h] \in Seq(Event) /\ request[h] # <<>>
           /\ Head(request[h]) \in Event /\ Head(request[h]) = request[h][1]
           /\ 1 \in 1..Len(request[h])
<1>1. request[h] \in Seq(Event) /\ request[h] # <<>>
  BY DEF TypeOK, BusyHasEvent
<1>. QED
  BY <1>1, ElementsHeadTail

LEMMA TypeStep == TypeOK /\ RequestsOK /\ [Next]_vars => TypeOK'
<1> SUFFICES ASSUME TypeOK, BusyHasEvent, [Next]_vars PROVE TypeOK'
  BY DEF RequestsOK
<1> USE DEF queueVars, countVars, workerVars, handlerVars, shutVars, statsVars, histVars
<1>1. ASSUME NEW h \in Handler, NEW events \in {s \in Calls : IsInjective(s)}, Call(h, events)
      PROVE  TypeOK'
  <2>1. events \in Seq(Event)
    BY CallTypes
  <2>2. request' \in [Handler -> Seq(Event)] /\ fresh' \subseteq Event
    BY <1>1, <2>1 DEF Call, TypeOK
  <2>3. /\ tally' \in [Handler -> [accepted : Nat, dropped : Nat]]
        /\ handlerPc' \in [Handler -> {"idle", "check", "send", "count", "panicked"}]
    BY <1>1 DEF Call, TypeOK
  <2>. QED  BY <1>1, <2>2, <2>3 DEF Call, TypeOK
<1>2. ASSUME NEW h \in Handler, CheckFlag(h) PROVE TypeOK'
  <2>1. request[h] # <<>>
    BY <1>2 DEF CheckFlag, BusyHasEvent
  <2>2. CASE EnqueueReturns(h, "shut")
    BY <1>2, <2>1, <2>2, ReturnTypes DEF CheckFlag, TypeOK
  <2>3. CASE handlerPc' = [handlerPc EXCEPT ![h] = "send"] /\ UNCHANGED <<request, tally, answer>>
    BY <1>2, <2>3 DEF CheckFlag, TypeOK
  <2>. QED  BY <1>2, <2>2, <2>3 DEF CheckFlag
<1>3. ASSUME NEW h \in Handler, SendTask(h) PROVE TypeOK'
  <2>1. Head(request[h]) \in Event
    BY <1>3, HeadTypes DEF SendTask
  <2>2. taskCh' \in Seq(Event) /\ Len(taskCh') <= QueueCap
    BY <1>3, <2>1, ElementsAppend, LenProperties DEF SendTask, HasRoom, TypeOK
  <2>. QED  BY <1>3, <2>1, <2>2 DEF SendTask, TypeOK
<1>4. ASSUME NEW h \in Handler, SendFull(h) PROVE TypeOK'
  BY <1>4, ReturnTypes DEF SendFull, TypeOK, BusyHasEvent
<1>5. ASSUME NEW h \in Handler, SendPanics(h) PROVE TypeOK'
  BY <1>5 DEF SendPanics, TypeOK
<1>6. ASSUME NEW h \in Handler, CountAccepted(h) PROVE TypeOK'
  BY <1>6, ReturnTypes DEF CountAccepted, TypeOK, BusyHasEvent
<1>7. ASSUME NEW w \in Worker, NEW pc \in {"forward", "drainForward"}, Take(w, pc) PROVE TypeOK'
  <2>1. /\ <<Head(taskCh)>> \in Seq(Event)
        /\ Tail(taskCh) \in Seq(Event) /\ Len(Tail(taskCh)) <= QueueCap
    BY <1>7, ElementsHeadTail, OneElement DEF Take, TypeOK
  <2>. QED  BY <1>7, <2>1 DEF Take, TypeOK
<1>8. ASSUME NEW w \in Worker, NEW pc \in {"drain", "done"}, Move(w, pc) PROVE TypeOK'
  BY <1>8 DEF Move, TypeOK
<1>9. ASSUME NEW w \in Worker, NEW ok \in BOOLEAN, Forward(w, ok) PROVE TypeOK'
  <2>1. ToSet(task[w]) \subseteq Event
    BY ElementsAreEvents DEF TypeOK
  <2>2. task' \in [Worker -> Seq(Event)]
    BY <1>9, NoElements DEF Forward, TypeOK
  <2>3. workerPc' \in [Worker -> {"select", "forward", "countProcessed", "countDropped",
                                  "drain", "drainForward", "drainCount", "done"}]
    BY <1>9 DEF Forward, TypeOK
  <2>4. submitted' \subseteq Event /\ refused' \subseteq Event
    BY <1>9, <2>1 DEF Forward, TypeOK
  <2>. QED  BY <1>9, <2>2, <2>3, <2>4 DEF Forward, TypeOK
<1>10. ASSUME NEW w \in Worker, CountProcessed(w) PROVE TypeOK'
  BY <1>10 DEF CountProcessed, TypeOK
<1>11. ASSUME NEW w \in Worker, CountDropped(w) PROVE TypeOK'
  BY <1>11 DEF CountDropped, TypeOK
<1>12. CASE ShutFlag \/ ShutStep
  BY <1>12 DEF ShutFlag, ShutStep, ShutClose, ShutCancel, ShutReturn, TypeOK
<1>13. CASE QueueStats
  <2>1. Len(taskCh) \in Nat
    BY LenProperties DEF TypeOK
  <2>2. ASSUME NEW at, NEW field, NEW value \in Nat,
               NEW next \in {"idle", "accepted", "dropped", "processed"},
               ReadStat(at, field, value, next), statsCalls' \in Nat
        PROVE  TypeOK'
    <3>1. stats' \in [length : Nat, accepted : Nat, dropped : Nat, processed : Nat]
      BY <2>2 DEF ReadStat, TypeOK
    <3>. QED  BY <2>2, <3>1 DEF ReadStat, TypeOK
  <2>3. CASE StatsLength
    BY <2>1, <2>2, <2>3 DEF StatsLength, TypeOK
  <2>4. CASE StatsAccepted
    BY <2>2, <2>4 DEF StatsAccepted, TypeOK
  <2>5. CASE StatsDropped
    BY <2>2, <2>5 DEF StatsDropped, TypeOK
  <2>6. CASE StatsProcessed
    <3>1. processed \in Nat /\ statsCalls' \in Nat
      BY <2>6 DEF StatsProcessed, TypeOK
    <3>. QED  BY <2>2, <2>6, <3>1 DEF StatsProcessed
  <2>. QED  BY <1>13, <2>3, <2>4, <2>5, <2>6 DEF QueueStats
<1>14. CASE UNCHANGED vars
  BY <1>14 DEF vars, TypeOK
<1>. QED
  BY <1>1, <1>2, <1>3, <1>4, <1>5, <1>6, <1>7, <1>8, <1>9, <1>10, <1>11, <1>12, <1>13, <1>14
     DEF Next, Enqueue, WorkerStep, SelectTask, SelectClosed, SelectCancel, DrainTask, DrainEnd

-----------------------------------------------------------------------------
(* Every step keeps the handlers' events apart.                            *)

LEMMA RequestsInit == Init => RequestsOK
<1> SUFFICES ASSUME Init PROVE RequestsOK
  OBVIOUS
<1>1. \A h \in Handler : request[h] = <<>> /\ Len(request[h]) = 0 /\ handlerPc[h] = "idle"
  BY NoElements DEF Init
<1>2. BusyHasEvent /\ OwnEvents /\ Apart
  BY <1>1 DEF BusyHasEvent, OwnEvents, Apart
<1>3. FreshIsNew
  BY DEF Init, FreshIsNew
<1>. QED  BY <1>2, <1>3 DEF RequestsOK

\* Workers, Shutdown and QueueStats leave the requests alone.
LEMMA RequestsFrame ==
    ASSUME RequestsOK, UNCHANGED <<request, handlerPc, fresh, answer, sent>>
    PROVE  RequestsOK'
BY DEF RequestsOK, BusyHasEvent, OwnEvents, Apart, FreshIsNew

\* An Enqueue that returns leaves the handler with the rest of its events.
LEMMA RequestsReturn ==
    ASSUME TypeOK, RequestsOK, NEW h \in Handler, NEW result \in {"accepted", "full", "shut"},
           EnqueueReturns(h, result), handlerPc[h] \in {"check", "send", "count"},
           UNCHANGED <<fresh, sent>>
    PROVE  RequestsOK'
<1> DEFINE old == request[h]
           n == Len(old)
           rest == Tail(old)
<1>1. /\ old \in Seq(Event) /\ old # <<>> /\ Head(old) \in Event
      /\ Head(old) = old[1] /\ n \in Nat \ {0} /\ rest \in Seq(Event)
      /\ Len(rest) = n - 1 /\ \A i \in 1..Len(rest) : rest[i] = old[i + 1]
  BY HeadTypes, ElementsHeadTail DEF RequestsOK
<1>2. /\ request' = [request EXCEPT ![h] = rest]
      /\ answer' = [answer EXCEPT ![old[1]] = result]
      /\ handlerPc' = [handlerPc EXCEPT ![h] = IF n = 1 THEN "idle" ELSE "check"]
      /\ fresh' = fresh /\ sent' = sent
  BY <1>1 DEF EnqueueReturns
<1>3. /\ request'[h] = rest /\ handlerPc'[h] = (IF n = 1 THEN "idle" ELSE "check")
      /\ \A k \in Handler \ {h} : request'[k] = request[k] /\ handlerPc'[k] = handlerPc[k]
      /\ \A e \in Event \ {old[1]} : answer'[e] = answer[e]
  BY <1>1, <1>2 DEF TypeOK
<1>4. \A i \in 1..Len(rest) : i + 1 \in 1..n /\ i + 1 # 1 /\ rest[i] = old[i + 1]
  BY <1>1
<1>5. \A k \in Handler : \A i \in 1..Len(request[k]) : request[k][i] \in Event
  BY ElementOfSeq DEF TypeOK
<1>6. n = 1 <=> rest = <<>>
  <2>1. rest = <<>> <=> Len(rest) = 0
    BY <1>1, EmptySeq
  <2>. QED  BY <1>1, <2>1
<1> HIDE DEF old, n, rest
<1>7. BusyHasEvent'
  <2>1. ASSUME NEW k \in Handler
        PROVE  /\ handlerPc'[k] \in {"check", "send", "count"} => request'[k] # <<>>
               /\ handlerPc'[k] = "idle" => request'[k] = <<>>
    <3>1. CASE k = h
      BY <1>3, <1>6, <3>1
    <3>2. CASE k # h
      BY <1>3, <3>2 DEF RequestsOK, BusyHasEvent
    <3>. QED  BY <3>1, <3>2
  <2>. QED  BY <2>1 DEF BusyHasEvent
<1>8. \A i \in 1..n : old[i] \in Event /\ old[i] \notin fresh /\ answer[old[i]] = "none"
                      /\ (i # 1 => old[i] \notin sent /\ old[i] # old[1])
  <2>1. 1 \in 1..n
    BY <1>1
  <2>. QED  BY <1>5, <2>1 DEF RequestsOK, OwnEvents, Apart, old, n
<1>9. \A k \in Handler \ {h} : \A i \in 1..Len(request[k]), j \in 1..n : request[k][i] # old[j]
  BY DEF RequestsOK, Apart, old, n
<1>10. OwnEvents'
  <2>1. ASSUME NEW k \in Handler, NEW i \in 1..Len(request'[k])
        PROVE  /\ request'[k][i] \notin fresh /\ answer'[request'[k][i]] = "none"
               /\ request'[k][i] \in sent <=> (i = 1 /\ handlerPc'[k] = "count")
    <3>1. CASE k = h
      <4>1. request'[k][i] = old[i + 1] /\ i + 1 \in 1..n /\ i + 1 # 1
        BY <1>3, <1>4, <3>1
      <4>. QED  BY <1>3, <1>8, <3>1, <4>1
    <3>2. CASE k # h
      <4>1. request'[k] = request[k] /\ handlerPc'[k] = handlerPc[k] /\ i \in 1..Len(request[k])
        BY <1>3, <3>2
      <4>2. request[k][i] # old[1]
        BY <1>1, <1>9, <3>2, <4>1
      <4>. QED  BY <1>3, <1>5, <4>1, <4>2 DEF RequestsOK, OwnEvents
    <3>. QED  BY <3>1, <3>2
  <2>. QED  BY <1>2, <2>1 DEF OwnEvents
<1>11. Apart'
  <2>1. \A k \in Handler : \A i \in 1..Len(request'[k]) :
           \E p \in 1..Len(request[k]) : /\ request'[k][i] = request[k][p]
                                         /\ p = IF k = h THEN i + 1 ELSE i
    <3>1. ASSUME NEW k \in Handler, k # h, NEW i \in 1..Len(request'[k])
          PROVE  i \in 1..Len(request[k]) /\ request'[k][i] = request[k][i]
      BY <1>3, <3>1
    <3>2. ASSUME NEW i \in 1..Len(request'[h])
          PROVE  i + 1 \in 1..Len(request[h]) /\ request'[h][i] = request[h][i + 1]
      BY <1>3, <1>4 DEF old, n
    <3>. QED  BY <3>1, <3>2
  <2>2. ASSUME NEW k \in Handler, NEW l \in Handler, NEW i \in 1..Len(request'[k]),
               NEW j \in 1..Len(request'[l]), request'[k][i] = request'[l][j]
        PROVE  k = l /\ i = j
    <3>1. PICK p \in 1..Len(request[k]) : /\ request'[k][i] = request[k][p]
                                          /\ p = IF k = h THEN i + 1 ELSE i
      BY <2>1
    <3>2. PICK q \in 1..Len(request[l]) : /\ request'[l][j] = request[l][q]
                                          /\ q = IF l = h THEN j + 1 ELSE j
      BY <2>1
    <3>3. request[k][p] = request[l][q]
      BY <2>2, <3>1, <3>2
    <3>4. k = l /\ p = q
      BY <3>3 DEF RequestsOK, Apart
    <3>5. i \in Nat /\ j \in Nat
      BY <1>1, <1>3, <2>2
    <3>. QED  BY <3>1, <3>2, <3>4, <3>5
  <2>. QED  BY <2>2 DEF Apart
<1>12. FreshIsNew'
  <2>1. \A e \in fresh : e \in Event /\ e # old[1]
    BY <1>1, <1>8 DEF TypeOK
  <2>. QED  BY <1>2, <1>3, <2>1 DEF RequestsOK, FreshIsNew
<1>. QED  BY <1>7, <1>10, <1>11, <1>12 DEF RequestsOK

\* A call brings fresh events, each once.
LEMMA RequestsCall ==
    ASSUME TypeOK, RequestsOK, NEW h \in Handler,
           NEW events \in {s \in Calls : IsInjective(s)}, Call(h, events)
    PROVE  RequestsOK'
<1>1. /\ events \in Seq(Event) /\ events # <<>>
      /\ \A i \in 1..Len(events) : events[i] \in fresh /\ events[i] \in ToSet(events)
      /\ \A i, j \in 1..Len(events) : events[i] = events[j] => i = j
  <2>1. events \in Seq(Event) /\ DOMAIN events = 1..Len(events)
    BY CallTypes, LenProperties
  <2>. QED  BY <2>1, CallTypes DEF Call, ToSet
<1>2. /\ request' = [request EXCEPT ![h] = events]
      /\ handlerPc[h] = "idle" /\ handlerPc' = [handlerPc EXCEPT ![h] = "check"]
      /\ fresh' = fresh \ ToSet(events) /\ answer' = answer /\ sent' = sent
  BY DEF Call
<1>3. /\ request'[h] = events /\ handlerPc'[h] = "check"
      /\ \A k \in Handler \ {h} : request'[k] = request[k] /\ handlerPc'[k] = handlerPc[k]
  BY <1>2 DEF TypeOK
<1>4. BusyHasEvent'
  BY <1>1, <1>3 DEF RequestsOK, BusyHasEvent
<1>5. OwnEvents'
  BY <1>1, <1>2, <1>3 DEF RequestsOK, OwnEvents, FreshIsNew
<1>6. Apart'
  <2>1. ASSUME NEW k \in Handler, NEW l \in Handler, NEW i \in 1..Len(request'[k]),
               NEW j \in 1..Len(request'[l]), request'[k][i] = request'[l][j]
        PROVE  k = l /\ i = j
    <3>1. CASE k = h /\ l = h
      BY <1>1, <1>3, <2>1, <3>1
    <3>2. CASE k = h /\ l # h
      BY <1>1, <1>3, <2>1, <3>2 DEF RequestsOK, OwnEvents
    <3>3. CASE k # h /\ l = h
      BY <1>1, <1>3, <2>1, <3>3 DEF RequestsOK, OwnEvents
    <3>4. CASE k # h /\ l # h
      <4>1. request[k][i] = request[l][j] /\ i \in 1..Len(request[k]) /\ j \in 1..Len(request[l])
        BY <1>3, <2>1, <3>4
      <4>. QED  BY <4>1 DEF RequestsOK, Apart
    <3>. QED  BY <3>1, <3>2, <3>3, <3>4
  <2>. QED  BY <2>1 DEF Apart
<1>7. FreshIsNew'
  BY <1>2 DEF RequestsOK, FreshIsNew
<1>. QED  BY <1>4, <1>5, <1>6, <1>7 DEF RequestsOK

\* An event sent is the handler's first, and the only one it has in the channel.
LEMMA RequestsSend ==
    ASSUME TypeOK, RequestsOK, NEW h \in Handler, SendTask(h)
    PROVE  RequestsOK'
<1>1. /\ Head(request[h]) = request[h][1] /\ 1 \in 1..Len(request[h])
      /\ handlerPc[h] = "send" /\ request[h] # <<>>
  BY HeadTypes DEF SendTask, RequestsOK
<1>2. /\ sent' = sent \cup {request[h][1]}
      /\ request' = request /\ fresh' = fresh /\ answer' = answer
      /\ handlerPc' = [handlerPc EXCEPT ![h] = "count"]
  BY <1>1 DEF SendTask, handlerVars
<1>3. handlerPc'[h] = "count" /\ \A k \in Handler \ {h} : handlerPc'[k] = handlerPc[k]
  BY <1>2 DEF TypeOK
<1>4. BusyHasEvent'
  BY <1>1, <1>2, <1>3 DEF RequestsOK, BusyHasEvent
<1>5. OwnEvents'
  <2>1. ASSUME NEW k \in Handler, NEW i \in 1..Len(request[k])
        PROVE  /\ request[k][i] \notin fresh /\ answer[request[k][i]] = "none"
               /\ request[k][i] \in sent' <=> (i = 1 /\ handlerPc'[k] = "count")
    <3>1. request[k][i] = request[h][1] <=> k = h /\ i = 1
      BY <1>1 DEF RequestsOK, Apart
    <3>. QED  BY <1>1, <1>2, <1>3, <3>1 DEF RequestsOK, OwnEvents
  <2>. QED  BY <1>2, <2>1 DEF OwnEvents
<1>6. Apart'
  BY <1>2 DEF RequestsOK, Apart
<1>7. FreshIsNew'
  BY <1>1, <1>2 DEF RequestsOK, FreshIsNew, OwnEvents
<1>. QED  BY <1>4, <1>5, <1>6, <1>7 DEF RequestsOK

LEMMA RequestsStep == TypeOK /\ RequestsOK /\ [Next]_vars => RequestsOK'
<1> SUFFICES ASSUME TypeOK, RequestsOK, [Next]_vars PROVE RequestsOK'
  OBVIOUS
<1> USE DEF handlerVars, histVars
<1>1. ASSUME NEW h \in Handler, NEW events \in {s \in Calls : IsInjective(s)}, Call(h, events)
      PROVE  RequestsOK'
  BY <1>1, RequestsCall
<1>2. ASSUME NEW h \in Handler, CheckFlag(h) PROVE RequestsOK'
  <2>1. CASE EnqueueReturns(h, "shut")
    BY <1>2, <2>1, RequestsReturn DEF CheckFlag
  <2>2. CASE handlerPc' = [handlerPc EXCEPT ![h] = "send"] /\ UNCHANGED <<request, tally, answer>>
    <3>1. /\ handlerPc[h] = "check" /\ handlerPc'[h] = "send" /\ request' = request
          /\ fresh' = fresh /\ sent' = sent /\ answer' = answer
          /\ \A k \in Handler \ {h} : handlerPc'[k] = handlerPc[k]
      BY <1>2, <2>2 DEF CheckFlag, TypeOK
    <3>. QED  BY <3>1 DEF RequestsOK, BusyHasEvent, OwnEvents, Apart, FreshIsNew
  <2>. QED  BY <1>2, <2>1, <2>2 DEF CheckFlag
<1>3. ASSUME NEW h \in Handler, SendTask(h) PROVE RequestsOK'
  BY <1>3, RequestsSend
<1>4. ASSUME NEW h \in Handler, SendFull(h) PROVE RequestsOK'
  BY <1>4, RequestsReturn DEF SendFull
<1>5. ASSUME NEW h \in Handler, SendPanics(h) PROVE RequestsOK'
  <2>1. /\ handlerPc[h] = "send" /\ handlerPc'[h] = "panicked" /\ request' = request
        /\ fresh' = fresh /\ sent' = sent /\ answer' = answer
        /\ \A k \in Handler \ {h} : handlerPc'[k] = handlerPc[k]
    BY <1>5 DEF SendPanics, TypeOK
  <2>. QED  BY <2>1 DEF RequestsOK, BusyHasEvent, OwnEvents, Apart, FreshIsNew
<1>6. ASSUME NEW h \in Handler, CountAccepted(h) PROVE RequestsOK'
  BY <1>6, RequestsReturn DEF CountAccepted
<1>7. ASSUME NEW w \in Worker, WorkerStep(w) PROVE RequestsOK'
  BY <1>7, RequestsFrame DEF WorkerStep, SelectTask, SelectClosed, SelectCancel, DrainTask,
              DrainEnd, Take, Move, CountProcessed, CountDropped
<1>8. ASSUME NEW w \in Worker, NEW ok \in BOOLEAN, Forward(w, ok) PROVE RequestsOK'
  BY <1>8, RequestsFrame DEF Forward
<1>9. CASE ShutFlag \/ ShutStep
  BY <1>9, RequestsFrame DEF ShutFlag, ShutStep, ShutClose, ShutCancel, ShutReturn
<1>10. CASE QueueStats
  BY <1>10, RequestsFrame
     DEF QueueStats, StatsLength, StatsAccepted, StatsDropped, StatsProcessed, ReadStat
<1>11. CASE UNCHANGED vars
  BY <1>11, RequestsFrame DEF vars
<1>. QED
  BY <1>1, <1>2, <1>3, <1>4, <1>5, <1>6, <1>7, <1>8, <1>9, <1>10, <1>11 DEF Next, Enqueue
-----------------------------------------------------------------------------
(* Every answer stays true.                                                *)

LEMMA AnswersReturn ==
    ASSUME TypeOK, RequestsOK, AnswerIsTruth, NEW h \in Handler,
           NEW result \in {"accepted", "full", "shut"}, EnqueueReturns(h, result),
           handlerPc[h] \in {"check", "send", "count"},
           result = "accepted" <=> handlerPc[h] = "count", UNCHANGED sent
    PROVE  AnswerIsTruth'
<1>1. /\ Head(request[h]) = request[h][1] /\ 1 \in 1..Len(request[h])
      /\ Head(request[h]) \in Event
  BY HeadTypes DEF RequestsOK
<1>2. Head(request[h]) \in sent <=> result = "accepted"
  BY <1>1 DEF RequestsOK, OwnEvents
<1>3. answer' = [answer EXCEPT ![Head(request[h])] = result]
  BY DEF EnqueueReturns
<1>. QED  BY <1>1, <1>2, <1>3 DEF AnswerIsTruth, TypeOK

LEMMA AnswersStep == TypeOK /\ RequestsOK /\ AnswerIsTruth /\ [Next]_vars => AnswerIsTruth'
<1> SUFFICES ASSUME TypeOK, RequestsOK, AnswerIsTruth, [Next]_vars PROVE AnswerIsTruth'
  OBVIOUS
<1> USE DEF histVars
<1>1. ASSUME answer' = answer, sent' = sent PROVE AnswerIsTruth'
  BY <1>1 DEF AnswerIsTruth
<1>2. ASSUME NEW h \in Handler, SendTask(h) PROVE AnswerIsTruth'
  <2>1. answer[Head(request[h])] = "none"
    BY <1>2, HeadTypes DEF SendTask, RequestsOK, OwnEvents
  <2>2. sent' = sent \cup {Head(request[h])} /\ answer' = answer
    BY <1>2 DEF SendTask
  <2>. QED  BY <2>1, <2>2 DEF AnswerIsTruth
<1>3. ASSUME NEW h \in Handler, CheckFlag(h) PROVE AnswerIsTruth'
  <2>1. CASE EnqueueReturns(h, "shut")
    BY <1>3, <2>1, AnswersReturn DEF CheckFlag
  <2>. QED  BY <1>1, <1>3, <2>1 DEF CheckFlag
<1>4. ASSUME NEW h \in Handler, SendFull(h) PROVE AnswerIsTruth'
  BY <1>4, AnswersReturn DEF SendFull
<1>5. ASSUME NEW h \in Handler, CountAccepted(h) PROVE AnswerIsTruth'
  BY <1>5, AnswersReturn DEF CountAccepted
<1>6. ASSUME NEW h \in Handler, NEW events, Call(h, events) \/ SendPanics(h) PROVE AnswerIsTruth'
  BY <1>1, <1>6 DEF Call, SendPanics
<1>7. ASSUME NEW w \in Worker, WorkerStep(w) PROVE AnswerIsTruth'
  BY <1>1, <1>7 DEF WorkerStep, SelectTask, SelectClosed, SelectCancel, DrainTask,
              DrainEnd, Take, Move, CountProcessed, CountDropped
<1>8. ASSUME NEW w \in Worker, NEW ok \in BOOLEAN, Forward(w, ok) PROVE AnswerIsTruth'
  BY <1>1, <1>8 DEF Forward
<1>9. CASE ShutFlag \/ ShutStep
  BY <1>1, <1>9 DEF ShutFlag, ShutStep, ShutClose, ShutCancel, ShutReturn
<1>10. CASE QueueStats
  BY <1>1, <1>10
     DEF QueueStats, StatsLength, StatsAccepted, StatsDropped, StatsProcessed, ReadStat
<1>11. CASE UNCHANGED vars
  BY <1>1, <1>11 DEF vars
<1>. QED
  BY <1>2, <1>3, <1>4, <1>5, <1>6, <1>7, <1>8, <1>9, <1>10, <1>11 DEF Next, Enqueue

-----------------------------------------------------------------------------
(* A worker that is done stays so, and so does the closed, empty channel.  *)

LEMMA WorkersStep ==
    TypeOK /\ WorkersOK /\ ShutdownOK /\ [Next]_vars => WorkersOK' /\ ShutdownOK'
<1> SUFFICES ASSUME TypeOK, WorkersOK, ShutdownOK, [Next]_vars
             PROVE  WorkersOK' /\ ShutdownOK'
  OBVIOUS
<1> USE DEF queueVars, workerVars, shutVars
<1>1. ASSUME UNCHANGED <<taskCh, chClosed, workerPc, task, shutPc>>
      PROVE  WorkersOK' /\ ShutdownOK'
  BY <1>1 DEF WorkersOK, ShutdownOK
<1>2. ASSUME NEW h \in Handler, SendTask(h) PROVE WorkersOK' /\ ShutdownOK'
  BY <1>2 DEF SendTask, WorkersOK, ShutdownOK
\* A worker that is not done, and becomes so only at the end of the channel.
<1>3. ASSUME NEW w \in Worker, workerPc[w] # "done",
             NEW pc, workerPc' = [workerPc EXCEPT ![w] = pc],
             NEW hand, task' = [task EXCEPT ![w] = hand],
             pc \notin {"forward", "drainForward"} => hand = <<>>,
             pc = "done" => chClosed /\ taskCh = <<>>,
             taskCh' = taskCh \/ taskCh # <<>>,
             UNCHANGED <<chClosed, shutPc>>
      PROVE  WorkersOK' /\ ShutdownOK'
  <2>1. /\ workerPc'[w] = pc /\ task'[w] = hand
        /\ \A v \in Worker \ {w} : workerPc'[v] = workerPc[v] /\ task'[v] = task[v]
    BY <1>3 DEF TypeOK
  <2>. QED  BY <1>3, <2>1 DEF WorkersOK, ShutdownOK
<1>4. ASSUME NEW w \in Worker, WorkerStep(w) PROVE WorkersOK' /\ ShutdownOK'
  <2>1. task = [task EXCEPT ![w] = task[w]]
    BY DEF TypeOK
  <2>t. ASSUME NEW pc, pc \in {"forward", "drainForward"}, workerPc[w] # "done", Take(w, pc)
        PROVE  WorkersOK' /\ ShutdownOK'
    <3> DEFINE hand == <<Head(taskCh)>>
    <3>1. /\ workerPc' = [workerPc EXCEPT ![w] = pc] /\ task' = [task EXCEPT ![w] = hand]
          /\ taskCh # <<>> /\ pc # "done" /\ UNCHANGED <<chClosed, shutPc>>
      BY <2>t DEF Take
    <3> HIDE DEF hand
    <3>. QED  BY <1>3, <2>t, <3>1
  <2>2. CASE SelectTask(w)
    BY <2>2, <2>t DEF SelectTask
  <2>3. CASE DrainTask(w)
    BY <2>3, <2>t DEF DrainTask
  <2>4. CASE SelectClosed(w)
    BY <1>3, <2>1, <2>4 DEF SelectClosed, Move, WorkersOK
  <2>5. CASE SelectCancel(w)
    BY <1>3, <2>1, <2>5 DEF SelectCancel, Move, WorkersOK
  <2>6. CASE DrainEnd(w)
    BY <1>3, <2>1, <2>6 DEF DrainEnd, Move, WorkersOK
  <2>7. CASE CountProcessed(w)
    <3> DEFINE next == IF workerPc[w] = "drainCount" THEN "drain" ELSE "select"
    <3>1. workerPc' = [workerPc EXCEPT ![w] = next]
      BY <2>7 DEF CountProcessed
    <3>2. next \in {"drain", "select"}
      OBVIOUS
    <3> HIDE DEF next
    <3>. QED  BY <1>3, <2>1, <2>7, <3>1, <3>2 DEF CountProcessed, WorkersOK
  <2>8. CASE CountDropped(w)
    BY <1>3, <2>1, <2>8 DEF CountDropped, WorkersOK
  <2>. QED  BY <1>4, <2>2, <2>3, <2>4, <2>5, <2>6, <2>7, <2>8 DEF WorkerStep
<1>5. ASSUME NEW w \in Worker, NEW ok \in BOOLEAN, Forward(w, ok)
      PROVE  WorkersOK' /\ ShutdownOK'
  <2> DEFINE next == IF workerPc[w] = "drainForward" THEN "drainCount"
                     ELSE IF ok THEN "countProcessed" ELSE "countDropped"
  <2>1. workerPc' = [workerPc EXCEPT ![w] = next] /\ task' = [task EXCEPT ![w] = <<>>]
    BY <1>5 DEF Forward
  <2>2. next \in {"drainCount", "countProcessed", "countDropped"}
    OBVIOUS
  <2> HIDE DEF next
  <2>. QED  BY <1>3, <1>5, <2>1, <2>2 DEF Forward
<1>6. CASE ShutFlag \/ ShutStep
  BY <1>6 DEF ShutFlag, ShutStep, ShutClose, ShutCancel, ShutReturn, WorkersOK, ShutdownOK
<1>7. ASSUME NEW h \in Handler, NEW events,
             Call(h, events) \/ CheckFlag(h) \/ SendFull(h) \/ SendPanics(h) \/ CountAccepted(h)
      PROVE  WorkersOK' /\ ShutdownOK'
  BY <1>1, <1>7 DEF Call, CheckFlag, SendFull, SendPanics, CountAccepted
<1>8. CASE QueueStats
  BY <1>1, <1>8
     DEF QueueStats, StatsLength, StatsAccepted, StatsDropped, StatsProcessed, ReadStat
<1>9. CASE UNCHANGED vars
  BY <1>1, <1>9 DEF vars
<1>. QED
  BY <1>2, <1>4, <1>5, <1>6, <1>7, <1>8, <1>9 DEF Next, Enqueue
-----------------------------------------------------------------------------
(* No event is put down between the channel and Submit.                    *)

\* What is on its way, or past the pool, came through the channel.
OnlySent == ToSet(taskCh) \cup InHand \cup submitted \cup refused \subseteq sent

\* What left the handlers is what is in the channel, in hand or forwarded.
Conserved == sent = ToSet(taskCh) \cup InHand \cup submitted \cup refused

LEMMA ConservedIsBoth == Conserved <=> NothingStranded /\ OnlySent
BY DEF Conserved, NothingStranded, OnlySent

\* When one worker's hand changes, the others hold what they held.
LEMMA HandChanges ==
    ASSUME TypeOK, NEW w \in Worker, NEW hand, task' = [task EXCEPT ![w] = hand]
    PROVE  \E others : /\ InHand = others \cup ToSet(task[w])
                       /\ InHand' = others \cup ToSet(hand)
<1> DEFINE others == UNION {ToSet(task[v]) : v \in Worker \ {w}}
<1>1. task'[w] = hand /\ \A v \in Worker \ {w} : task'[v] = task[v]
  BY DEF TypeOK
<1>2. InHand = others \cup ToSet(task[w])
  BY DEF InHand
<1>3. InHand' = others \cup ToSet(hand)
  <2>1. \A e : e \in InHand' <=> \E v \in Worker : e \in ToSet(task'[v])
    BY DEF InHand
  <2>2. \A e : e \in others <=> \E v \in Worker \ {w} : e \in ToSet(task[v])
    OBVIOUS
  <2>3. \A e : e \in InHand' <=> e \in others \/ e \in ToSet(hand)
    BY <1>1, <2>1, <2>2
  <2>. QED  BY <2>3
<1>. QED  BY <1>2, <1>3

LEMMA ConservedStep ==
    TypeOK /\ RequestsOK /\ WorkersOK /\ Conserved /\ [Next]_vars => Conserved'
<1> SUFFICES ASSUME TypeOK, RequestsOK, WorkersOK, Conserved, [Next]_vars PROVE Conserved'
  OBVIOUS
<1> USE DEF queueVars, workerVars, histVars
<1>1. ASSUME UNCHANGED <<taskCh, task, sent, submitted, refused>> PROVE Conserved'
  BY <1>1 DEF Conserved, InHand
<1>2. ASSUME NEW h \in Handler, SendTask(h) PROVE Conserved'
  <2>1. /\ Head(request[h]) \in Event
        /\ taskCh' = Append(taskCh, Head(request[h]))
        /\ sent' = sent \cup {Head(request[h])}
        /\ UNCHANGED <<task, submitted, refused>>
    BY <1>2, HeadTypes DEF SendTask, RequestsOK
  <2>2. ToSet(taskCh') = ToSet(taskCh) \cup {Head(request[h])}
    BY <2>1, ElementsAppend DEF TypeOK
  <2>3. InHand' = InHand
    BY <2>1 DEF InHand
  <2>. QED  BY <2>1, <2>2, <2>3 DEF Conserved
<1>3. ASSUME NEW w \in Worker, workerPc[w] \notin {"forward", "drainForward"},
             NEW pc, Take(w, pc)
      PROVE  Conserved'
  <2>1. /\ task[w] = <<>> /\ taskCh # <<>>
        /\ task' = [task EXCEPT ![w] = <<Head(taskCh)>>] /\ taskCh' = Tail(taskCh)
        /\ UNCHANGED <<sent, submitted, refused>>
    BY <1>3 DEF Take, WorkersOK
  <2>2. Head(taskCh) \in Event /\ ToSet(taskCh) = {Head(taskCh)} \cup ToSet(taskCh')
    BY <2>1, ElementsHeadTail DEF TypeOK
  <2>3. ToSet(task[w]) = {} /\ ToSet(<<Head(taskCh)>>) = {Head(taskCh)}
    BY <2>1, <2>2, NoElements, OneElement
  <2>4. PICK others : /\ InHand = others \cup ToSet(task[w])
                      /\ InHand' = others \cup ToSet(<<Head(taskCh)>>)
    BY <2>1, HandChanges
  <2>. QED  BY <2>1, <2>2, <2>3, <2>4 DEF Conserved
<1>4. ASSUME NEW w \in Worker, WorkerStep(w) PROVE Conserved'
  <2>1. CASE SelectTask(w)
    BY <1>3, <2>1 DEF SelectTask
  <2>2. CASE DrainTask(w)
    BY <1>3, <2>2 DEF DrainTask
  <2>3. CASE SelectClosed(w) \/ SelectCancel(w) \/ DrainEnd(w)
    BY <1>1, <2>3 DEF SelectClosed, SelectCancel, DrainEnd, Move
  <2>4. CASE CountProcessed(w) \/ CountDropped(w)
    BY <1>1, <2>4 DEF CountProcessed, CountDropped
  <2>. QED  BY <1>4, <2>1, <2>2, <2>3, <2>4 DEF WorkerStep
<1>5. ASSUME NEW w \in Worker, NEW ok \in BOOLEAN, Forward(w, ok) PROVE Conserved'
  <2>1. /\ task' = [task EXCEPT ![w] = <<>>] /\ UNCHANGED <<taskCh, sent>>
        /\ submitted' \cup refused' = submitted \cup refused \cup ToSet(task[w])
    BY <1>5 DEF Forward
  <2>2. PICK others : /\ InHand = others \cup ToSet(task[w])
                      /\ InHand' = others \cup ToSet(<<>>)
    BY <2>1, HandChanges
  <2>. QED  BY <2>1, <2>2, NoElements DEF Conserved
<1>6. CASE ShutFlag \/ ShutStep
  BY <1>1, <1>6 DEF ShutFlag, ShutStep, ShutClose, ShutCancel, ShutReturn
<1>7. ASSUME NEW h \in Handler, NEW events,
             Call(h, events) \/ CheckFlag(h) \/ SendFull(h) \/ SendPanics(h) \/ CountAccepted(h)
      PROVE  Conserved'
  BY <1>1, <1>7 DEF Call, CheckFlag, SendFull, SendPanics, CountAccepted
<1>8. CASE QueueStats
  BY <1>1, <1>8
     DEF QueueStats, StatsLength, StatsAccepted, StatsDropped, StatsProcessed, ReadStat
<1>9. CASE UNCHANGED vars
  BY <1>1, <1>9 DEF vars
<1>. QED
  BY <1>2, <1>4, <1>5, <1>6, <1>7, <1>8, <1>9 DEF Next, Enqueue

-----------------------------------------------------------------------------
(* The inductive invariant, and what follows from it.                      *)

IInv == TypeOK /\ RequestsOK /\ WorkersOK /\ ShutdownOK /\ Conserved /\ AnswerIsTruth

LEMMA InvInit == Init => IInv
<1> SUFFICES ASSUME Init PROVE IInv
  OBVIOUS
<1>1. WorkersOK /\ ShutdownOK /\ AnswerIsTruth
  BY DEF Init, WorkersOK, ShutdownOK, AnswerIsTruth
<1>2. Conserved
  <2>1. ToSet(taskCh) = {} /\ \A w \in Worker : ToSet(task[w]) = {}
    BY NoElements DEF Init
  <2>2. InHand = {}
    BY <2>1 DEF InHand
  <2>. QED  BY <2>1, <2>2 DEF Conserved, Init
<1>. QED  BY <1>1, <1>2, TypeInit, RequestsInit DEF IInv

LEMMA InvStep == IInv /\ [Next]_vars => IInv'
BY TypeStep, RequestsStep, WorkersStep, ConservedStep, AnswersStep DEF IInv

THEOREM InvCorrect == Spec => []IInv
<1>1. Init => IInv
  BY InvInit
<1>2. IInv /\ [Next]_vars => IInv'
  BY InvStep
<1>. QED  BY <1>1, <1>2, PTL DEF Spec

\* Every variable of the pool keeps its type, and taskCh its capacity, at every
\* interleaving of handlers, workers, Shutdown and QueueStats.
THEOREM TypeCorrect == Spec => []TypeOK
<1>1. IInv => TypeOK
  BY DEF IInv
<1>. QED  BY <1>1, InvCorrect, PTL

\* No path of a worker, at work or draining, puts an event down that entered the
\* channel (pool.go:66-92).
THEOREM NothingStrandedCorrect == Spec => []NothingStranded
<1>1. IInv => NothingStranded
  BY ConservedIsBoth DEF IInv
<1>. QED  BY <1>1, InvCorrect, PTL

LEMMA AllForwarded == IInv => ShutdownDrains
<1> SUFFICES ASSUME IInv, shutPc = "returned" PROVE sent = submitted \cup refused
  BY DEF ShutdownDrains
<1>1. \A w \in Worker : workerPc[w] = "done" /\ task[w] = <<>> /\ taskCh = <<>>
  BY DEF IInv, ShutdownOK, WorkersOK
<1>2. taskCh = <<>> /\ InHand = {}
  BY <1>1, WorkerAssumption, NoElements DEF InHand
<1>. QED  BY <1>2, NoElements DEF IInv, Conserved

\* When Shutdown returns (pool.go:143), every event that ever entered the channel
\* was passed to the batch processor.  It takes at least one worker to empty it.
THEOREM ShutdownDrainsCorrect == Spec => []ShutdownDrains
BY AllForwarded, InvCorrect, PTL

\* What Enqueue answers is the truth about the event, whatever Shutdown does
\* between the check of the flag and the send (pool.go:97-109).
THEOREM AnswerIsTruthCorrect == Spec => []AnswerIsTruth
<1>1. IInv => AnswerIsTruth
  BY DEF IInv
<1>. QED  BY <1>1, InvCorrect, PTL

-----------------------------------------------------------------------------
(* No event is in two places.                                              *)

\* A worker on its way to Submit holds one event.
HandsOK ==
    \A w \in Worker : workerPc[w] \in {"forward", "drainForward"} =>
                           \E e \in Event : task[w] = <<e>>

\* The channel holds an event once, no two workers hold the same one, and the
\* channel, the hands and the two results of Submit have none in common.
QueueOnce == \A i, j \in 1..Len(taskCh) : taskCh[i] = taskCh[j] => i = j

HandsApart == \A v, w \in Worker : v # w => ToSet(task[v]) \cap ToSet(task[w]) = {}

PlacesApart ==
    /\ ToSet(taskCh) \cap InHand = {}
    /\ (ToSet(taskCh) \cup InHand) \cap (submitted \cup refused) = {}
    /\ submitted \cap refused = {}

Once == HandsOK /\ QueueOnce /\ HandsApart /\ PlacesApart

LEMMA HandsStep == TypeOK /\ HandsOK /\ [Next]_vars => HandsOK'
<1> SUFFICES ASSUME TypeOK, HandsOK, [Next]_vars PROVE HandsOK'
  OBVIOUS
<1> USE DEF workerVars
<1>1. ASSUME UNCHANGED <<workerPc, task>> PROVE HandsOK'
  BY <1>1 DEF HandsOK
<1>2. ASSUME NEW w \in Worker, NEW pc, workerPc' = [workerPc EXCEPT ![w] = pc],
             NEW hand, task' = [task EXCEPT ![w] = hand],
             pc \in {"forward", "drainForward"} => \E e \in Event : hand = <<e>>
      PROVE  HandsOK'
  <2>1. /\ workerPc'[w] = pc /\ task'[w] = hand
        /\ \A v \in Worker \ {w} : workerPc'[v] = workerPc[v] /\ task'[v] = task[v]
    BY <1>2 DEF TypeOK
  <2>. QED  BY <1>2, <2>1 DEF HandsOK
<1>3. ASSUME NEW w \in Worker, NEW pc, Take(w, pc) PROVE HandsOK'
  <2> DEFINE hand == <<Head(taskCh)>>
  <2>1. /\ workerPc' = [workerPc EXCEPT ![w] = pc] /\ task' = [task EXCEPT ![w] = hand]
        /\ \E e \in Event : hand = <<e>>
    BY <1>3, ElementsHeadTail DEF Take, TypeOK
  <2> HIDE DEF hand
  <2>. QED  BY <1>2, <2>1
<1>4. ASSUME NEW w \in Worker, NEW pc, pc \notin {"forward", "drainForward"},
             workerPc' = [workerPc EXCEPT ![w] = pc], task' = task
      PROVE  HandsOK'
  <2>1. task' = [task EXCEPT ![w] = task[w]]
    BY <1>4 DEF TypeOK
  <2>. QED  BY <1>2, <1>4, <2>1
<1>5. ASSUME NEW w \in Worker, WorkerStep(w) PROVE HandsOK'
  <2>1. CASE SelectTask(w) \/ DrainTask(w)
    BY <1>3, <2>1 DEF SelectTask, DrainTask
  <2>2. CASE SelectClosed(w) \/ SelectCancel(w) \/ DrainEnd(w)
    BY <1>4, <2>2 DEF SelectClosed, SelectCancel, DrainEnd, Move
  <2>3. CASE CountProcessed(w)
    <3> DEFINE next == IF workerPc[w] = "drainCount" THEN "drain" ELSE "select"
    <3>1. workerPc' = [workerPc EXCEPT ![w] = next] /\ task' = task
      BY <2>3 DEF CountProcessed
    <3>2. next \notin {"forward", "drainForward"}
      OBVIOUS
    <3> HIDE DEF next
    <3>. QED  BY <1>4, <3>1, <3>2
  <2>4. CASE CountDropped(w)
    BY <1>4, <2>4 DEF CountDropped
  <2>. QED  BY <1>5, <2>1, <2>2, <2>3, <2>4 DEF WorkerStep
<1>6. ASSUME NEW w \in Worker, NEW ok \in BOOLEAN, Forward(w, ok) PROVE HandsOK'
  <2> DEFINE next == IF workerPc[w] = "drainForward" THEN "drainCount"
                     ELSE IF ok THEN "countProcessed" ELSE "countDropped"
  <2>1. workerPc' = [workerPc EXCEPT ![w] = next] /\ task' = [task EXCEPT ![w] = <<>>]
    BY <1>6 DEF Forward
  <2>2. next \notin {"forward", "drainForward"}
    OBVIOUS
  <2> HIDE DEF next
  <2>. QED  BY <1>2, <2>1, <2>2
<1>7. CASE ShutFlag \/ ShutStep
  BY <1>1, <1>7 DEF ShutFlag, ShutStep, ShutClose, ShutCancel, ShutReturn
<1>8. ASSUME NEW h \in Handler, NEW events, Call(h, events) \/ Enqueue(h)
      PROVE  HandsOK'
  BY <1>1, <1>8 DEF Call, Enqueue, CheckFlag, SendTask, SendFull, SendPanics, CountAccepted
<1>9. CASE QueueStats
  BY <1>1, <1>9
     DEF QueueStats, StatsLength, StatsAccepted, StatsDropped, StatsProcessed, ReadStat
<1>10. CASE UNCHANGED vars
  BY <1>1, <1>10 DEF vars
<1>. QED
  BY <1>5, <1>6, <1>7, <1>8, <1>9, <1>10 DEF Next

\* A sequence without repetition stays so when a new element is appended, and
\* its tail has lost its head.
LEMMA OnceAppend ==
    ASSUME NEW s \in Seq(Event), NEW e \in Event, e \notin ToSet(s),
           \A i, j \in 1..Len(s) : s[i] = s[j] => i = j
    PROVE  \A i, j \in 1..Len(Append(s, e)) : Append(s, e)[i] = Append(s, e)[j] => i = j
<1> DEFINE t == Append(s, e)
           n == Len(s)
<1>1. /\ n \in Nat /\ Len(t) = n + 1 /\ DOMAIN s = 1..n
      /\ t[n + 1] = e /\ \A i \in 1..n : t[i] = s[i]
  BY AppendProperties, LenProperties
<1>2. \A i \in 1..n : t[i] # e
  BY <1>1 DEF ToSet
<1>3. \A i \in 1..(n + 1) : i \in 1..n \/ i = n + 1
  BY <1>1
<1> HIDE DEF t, n
<1>4. \A i, j \in 1..(n + 1) : t[i] = t[j] => i = j
  <2> SUFFICES ASSUME NEW i \in 1..(n + 1), NEW j \in 1..(n + 1), t[i] = t[j]
               PROVE  i = j
    OBVIOUS
  <2>1. CASE i \in 1..n /\ j \in 1..n
    BY <1>1, <2>1 DEF n
  <2>2. CASE i = n + 1 \/ j = n + 1
    BY <1>1, <1>2, <1>3, <2>2
  <2>. QED  BY <1>3, <2>1, <2>2
<1>. QED  BY <1>1, <1>4 DEF t

LEMMA OnceTail ==
    ASSUME NEW s \in Seq(Event), s # <<>>,
           \A i, j \in 1..Len(s) : s[i] = s[j] => i = j
    PROVE  /\ Head(s) \notin ToSet(Tail(s))
           /\ \A i, j \in 1..Len(Tail(s)) : Tail(s)[i] = Tail(s)[j] => i = j
<1> DEFINE t == Tail(s)
           n == Len(s)
<1>1. /\ n \in Nat \ {0} /\ Len(t) = n - 1 /\ Head(s) = s[1] /\ t \in Seq(Event)
      /\ \A i \in 1..Len(t) : t[i] = s[i + 1]
  BY ElementsHeadTail
<1>2. DOMAIN t = 1..Len(t)
  BY <1>1, LenProperties
<1>3. 1 \in 1..n /\ \A i \in 1..(n - 1) : i + 1 \in 1..n /\ i + 1 # 1
  BY <1>1
<1>4. \A i, j \in 1..(n - 1) : i + 1 = j + 1 => i = j
  BY <1>1
<1> HIDE DEF t, n
<1>5. Head(s) \notin ToSet(t)
  BY <1>1, <1>2, <1>3 DEF ToSet, n
<1>6. \A i, j \in 1..Len(t) : t[i] = t[j] => i = j
  <2> SUFFICES ASSUME NEW i \in 1..Len(t), NEW j \in 1..Len(t), t[i] = t[j] PROVE i = j
    OBVIOUS
  <2>1. s[i + 1] = s[j + 1] /\ i + 1 \in 1..n /\ j + 1 \in 1..n
    BY <1>1, <1>3
  <2>. QED  BY <1>1, <1>4, <2>1 DEF n
<1>. QED  BY <1>5, <1>6 DEF t

LEMMA OnceStep ==
    /\ TypeOK /\ RequestsOK /\ WorkersOK /\ Conserved /\ Once /\ [Next]_vars
    => Once'
<1> SUFFICES ASSUME TypeOK, RequestsOK, WorkersOK, Conserved, HandsOK,
                    QueueOnce, HandsApart, PlacesApart, [Next]_vars
             PROVE  QueueOnce' /\ HandsApart' /\ PlacesApart'
  BY HandsStep DEF Once
<1> USE DEF queueVars, workerVars, histVars
<1>1. ASSUME UNCHANGED <<taskCh, task, submitted, refused>>
      PROVE  QueueOnce' /\ HandsApart' /\ PlacesApart'
  <2>1. InHand' = InHand
    BY <1>1 DEF InHand
  <2>. QED  BY <1>1, <2>1 DEF QueueOnce, HandsApart, PlacesApart
<1>2. ASSUME NEW h \in Handler, SendTask(h)
      PROVE  QueueOnce' /\ HandsApart' /\ PlacesApart'
  <2> DEFINE e == Head(request[h])
  <2>1. /\ e \in Event /\ e = request[h][1] /\ 1 \in 1..Len(request[h])
        /\ handlerPc[h] = "send"
        /\ taskCh' = Append(taskCh, e) /\ UNCHANGED <<task, submitted, refused>>
    BY <1>2, HeadTypes DEF SendTask, RequestsOK
  <2>2. e \notin ToSet(taskCh) \cup InHand \cup submitted \cup refused
    BY <2>1 DEF RequestsOK, OwnEvents, Conserved
  <2>3. ToSet(taskCh') = ToSet(taskCh) \cup {e}
    BY <2>1, ElementsAppend DEF TypeOK
  <2>4. QueueOnce'
    BY <2>1, <2>2, OnceAppend DEF QueueOnce, TypeOK
  <2>5. InHand' = InHand
    BY <2>1 DEF InHand
  <2> HIDE DEF e
  <2>6. HandsApart'
    BY <2>1 DEF HandsApart
  <2>7. PlacesApart'
    BY <2>1, <2>2, <2>3, <2>5 DEF PlacesApart
  <2>. QED  BY <2>4, <2>6, <2>7
<1>3. ASSUME NEW w \in Worker, workerPc[w] \notin {"forward", "drainForward"},
             NEW pc, Take(w, pc)
      PROVE  QueueOnce' /\ HandsApart' /\ PlacesApart'
  <2> DEFINE e == Head(taskCh)
  <2>1. /\ task[w] = <<>> /\ taskCh # <<>>
        /\ task' = [task EXCEPT ![w] = <<e>>] /\ taskCh' = Tail(taskCh)
        /\ UNCHANGED <<submitted, refused>>
    BY <1>3 DEF Take, WorkersOK
  <2>2. /\ e \in Event /\ ToSet(taskCh) = {e} \cup ToSet(taskCh')
        /\ e \notin ToSet(taskCh') /\ QueueOnce'
    BY <2>1, ElementsHeadTail, OnceTail DEF TypeOK, QueueOnce
  <2>3. ToSet(task[w]) = {} /\ ToSet(<<e>>) = {e}
    BY <2>1, <2>2, NoElements, OneElement
  <2>4. PICK others : InHand = others \cup ToSet(task[w]) /\ InHand' = others \cup ToSet(<<e>>)
    BY <2>1, HandChanges
  <2>5. PlacesApart'
    BY <2>1, <2>2, <2>3, <2>4 DEF PlacesApart
  <2>6. /\ task'[w] = <<e>> /\ \A v \in Worker \ {w} : task'[v] = task[v]
    BY <2>1 DEF TypeOK
  <2>7. \A v \in Worker : e \notin ToSet(task[v])
    BY <2>2 DEF PlacesApart, InHand
  <2>8. HandsApart'
    BY <2>3, <2>6, <2>7 DEF HandsApart
  <2>. QED  BY <2>2, <2>5, <2>8
<1>4. ASSUME NEW w \in Worker, NEW ok \in BOOLEAN, Forward(w, ok)
      PROVE  QueueOnce' /\ HandsApart' /\ PlacesApart'
  <2>1. /\ task' = [task EXCEPT ![w] = <<>>] /\ taskCh' = taskCh
        /\ \/ submitted' = submitted \cup ToSet(task[w]) /\ refused' = refused
           \/ refused' = refused \cup ToSet(task[w]) /\ submitted' = submitted
    BY <1>4 DEF Forward
  <2>2. task'[w] = <<>> /\ \A v \in Worker \ {w} : task'[v] = task[v]
    BY <2>1 DEF TypeOK
  <2>3. HandsApart'
    BY <2>2, NoElements DEF HandsApart
  <2>4. /\ \A e : e \in InHand' <=> \E v \in Worker : e \in ToSet(task'[v])
        /\ \A e : e \in InHand <=> \E v \in Worker : e \in ToSet(task[v])
    BY DEF InHand
  <2>5. \A e \in InHand' : e \in InHand /\ e \notin ToSet(task[w])
    BY <2>2, <2>4, NoElements DEF HandsApart
  <2>6. ToSet(task[w]) \subseteq InHand
    BY DEF InHand
  <2>7. PlacesApart'
    BY <2>1, <2>5, <2>6 DEF PlacesApart
  <2>. QED  BY <2>1, <2>3, <2>7 DEF QueueOnce
<1>5. ASSUME NEW w \in Worker, WorkerStep(w)
      PROVE  QueueOnce' /\ HandsApart' /\ PlacesApart'
  <2>1. CASE SelectTask(w) \/ DrainTask(w)
    BY <1>3, <2>1 DEF SelectTask, DrainTask
  <2>2. CASE SelectClosed(w) \/ SelectCancel(w) \/ DrainEnd(w)
    BY <1>1, <2>2 DEF SelectClosed, SelectCancel, DrainEnd, Move
  <2>3. CASE CountProcessed(w) \/ CountDropped(w)
    BY <1>1, <2>3 DEF CountProcessed, CountDropped
  <2>. QED  BY <1>5, <2>1, <2>2, <2>3 DEF WorkerStep
<1>6. CASE ShutFlag \/ ShutStep
  BY <1>1, <1>6 DEF ShutFlag, ShutStep, ShutClose, ShutCancel, ShutReturn
<1>7. ASSUME NEW h \in Handler, NEW events,
             Call(h, events) \/ CheckFlag(h) \/ SendFull(h) \/ SendPanics(h) \/ CountAccepted(h)
      PROVE  QueueOnce' /\ HandsApart' /\ PlacesApart'
  BY <1>1, <1>7 DEF Call, CheckFlag, SendFull, SendPanics, CountAccepted
<1>8. CASE QueueStats
  BY <1>1, <1>8
     DEF QueueStats, StatsLength, StatsAccepted, StatsDropped, StatsProcessed, ReadStat
<1>9. CASE UNCHANGED vars
  BY <1>1, <1>9 DEF vars
<1>. QED
  BY <1>2, <1>4, <1>5, <1>6, <1>7, <1>8, <1>9 DEF Next, Enqueue

-----------------------------------------------------------------------------
(* The counts.                                                             *)

At(f, at) == {i \in DOMAIN f : f[i] \in at}

\* From f to g, index i is counted for the first time, no longer, or as before.
Recount(f, g, i, at) ==
    /\ IsFiniteSet(At(g, at)) /\ Count(f, at) \in Nat /\ Count(g, at) \in Nat
    /\ (f[i] \in at <=> g[i] \in at) => Count(g, at) = Count(f, at)
    /\ f[i] \notin at /\ g[i] \in at => Count(g, at) = Count(f, at) + 1
    /\ f[i] \in at /\ g[i] \notin at => Count(g, at) = Count(f, at) - 1

LEMMA CountChange ==
    ASSUME NEW f, NEW g, NEW i \in DOMAIN f, NEW at, IsFiniteSet(At(f, at)),
           DOMAIN g = DOMAIN f, \A j \in DOMAIN f \ {i} : g[j] = f[j]
    PROVE  Recount(f, g, i, at)
<1> DEFINE A == At(f, at)
<1>1. Count(f, at) = Cardinality(A) /\ Count(g, at) = Cardinality(At(g, at))
  BY DEF Count, At
<1>2. i \in A <=> f[i] \in at
  BY DEF At
<1>3. g[i] \in at => At(g, at) = A \cup {i}
  BY DEF At
<1>4. g[i] \notin at => At(g, at) = A \ {i}
  BY DEF At
<1> HIDE DEF A
<1>5. IsFiniteSet(A)
  BY DEF A
<1>6. Cardinality(A) \in Nat
  BY <1>5, FS_CardinalityType
<1>7. /\ IsFiniteSet(A \cup {i})
      /\ Cardinality(A \cup {i}) = IF i \in A THEN Cardinality(A) ELSE Cardinality(A) + 1
  BY <1>5, FS_AddElement
<1>8. /\ IsFiniteSet(A \ {i}) /\ Cardinality(A \ {i}) \in Nat
      /\ Cardinality(A \ {i}) = IF i \in A THEN Cardinality(A) - 1 ELSE Cardinality(A)
  BY <1>5, FS_RemoveElement, FS_CardinalityType
<1>9. CASE g[i] \in at
  BY <1>1, <1>2, <1>3, <1>6, <1>7, <1>9 DEF Recount
<1>10. CASE g[i] \notin at
  BY <1>1, <1>2, <1>4, <1>6, <1>8, <1>10 DEF Recount
<1>. QED  BY <1>9, <1>10

Holding == {"forward", "drainForward"}
Counting == {"countProcessed", "drainCount", "countDropped"}

\* Only finitely much ever happened, so that the counts are numbers.
Finite ==
    /\ IsFiniteSet(sent) /\ IsFiniteSet(submitted) /\ IsFiniteSet(refused)
    /\ IsFiniteSet(At(handlerPc, {"count"})) /\ IsFiniteSet(At(answer, {"full"}))
    /\ IsFiniteSet(At(workerPc, Holding)) /\ IsFiniteSet(At(workerPc, Counting))

\* NothingDuplicated, with the hands counted by where the workers are.
Balanced ==
    Cardinality(sent) = Len(taskCh) + Count(workerPc, Holding)
                          + Cardinality(submitted) + Cardinality(refused)

\* CountersAddUp, with the workers counted in the same way.
Recorded ==
    /\ accepted + Count(handlerPc, {"count"}) = Cardinality(sent)
    /\ processed + dropped + Count(workerPc, Counting)
         = Cardinality(submitted) + Cardinality(refused) + Count(answer, {"full"})

Counted == Finite /\ Balanced /\ Recorded

LEMMA CountTypes ==
    ASSUME TypeOK, Finite
    PROVE  /\ Cardinality(sent) \in Nat /\ Cardinality(submitted) \in Nat
           /\ Cardinality(refused) \in Nat /\ Len(taskCh) \in Nat
           /\ Count(handlerPc, {"count"}) \in Nat /\ Count(answer, {"full"}) \in Nat
           /\ Count(workerPc, Holding) \in Nat /\ Count(workerPc, Counting) \in Nat
           /\ accepted \in Nat /\ dropped \in Nat /\ processed \in Nat
BY FS_CardinalityType, LenProperties DEF TypeOK, Finite, Count, At

\* A worker moves, a handler moves, an event that had no answer gets one.
LEMMA WorkerMoves ==
    ASSUME TypeOK, Finite, NEW w \in Worker, NEW pc,
           workerPc' = [workerPc EXCEPT ![w] = pc]
    PROVE  /\ workerPc'[w] = pc
           /\ Recount(workerPc, workerPc', w, Holding)
           /\ Recount(workerPc, workerPc', w, Counting)
<1>1. /\ w \in DOMAIN workerPc /\ DOMAIN workerPc' = DOMAIN workerPc /\ workerPc'[w] = pc
      /\ \A v \in DOMAIN workerPc \ {w} : workerPc'[v] = workerPc[v]
  BY DEF TypeOK
<1>. QED  BY <1>1, CountChange DEF Finite

LEMMA HandlerMoves ==
    ASSUME TypeOK, Finite, NEW h \in Handler, NEW pc,
           handlerPc' = [handlerPc EXCEPT ![h] = pc]
    PROVE  handlerPc'[h] = pc /\ Recount(handlerPc, handlerPc', h, {"count"})
<1>1. /\ h \in DOMAIN handlerPc /\ DOMAIN handlerPc' = DOMAIN handlerPc /\ handlerPc'[h] = pc
      /\ \A k \in DOMAIN handlerPc \ {h} : handlerPc'[k] = handlerPc[k]
  BY DEF TypeOK
<1>. QED  BY <1>1, CountChange DEF Finite

LEMMA AnswerGiven ==
    ASSUME TypeOK, Finite, NEW e \in Event, NEW result,
           answer' = [answer EXCEPT ![e] = result]
    PROVE  answer'[e] = result /\ Recount(answer, answer', e, {"full"})
<1>1. /\ e \in DOMAIN answer /\ DOMAIN answer' = DOMAIN answer /\ answer'[e] = result
      /\ \A d \in DOMAIN answer \ {e} : answer'[d] = answer[d]
  BY DEF TypeOK
<1>. QED  BY <1>1, CountChange DEF Finite

\* A set grows by an element it did not have.
LEMMA OneMore ==
    ASSUME NEW S, IsFiniteSet(S), NEW e, e \notin S
    PROVE  IsFiniteSet(S \cup {e}) /\ Cardinality(S \cup {e}) = Cardinality(S) + 1
BY FS_AddElement

LEMMA CountedStep ==
    TypeOK /\ RequestsOK /\ WorkersOK /\ Conserved /\ Once /\ Counted /\ [Next]_vars => Counted'
<1> SUFFICES ASSUME TypeOK, RequestsOK, WorkersOK, Conserved, Once,
                    Finite, Balanced, Recorded, [Next]_vars
             PROVE  Finite' /\ Balanced' /\ Recorded'
  BY DEF Counted
<1> USE DEF queueVars, countVars, workerVars, handlerVars, shutVars, statsVars, histVars
<1>l. Len(taskCh) \in Nat
  BY CountTypes
<1>t. /\ Cardinality(sent) \in Nat /\ Cardinality(submitted) \in Nat
      /\ Cardinality(refused) \in Nat
      /\ Count(handlerPc, {"count"}) \in Nat /\ Count(answer, {"full"}) \in Nat
      /\ Count(workerPc, Holding) \in Nat /\ Count(workerPc, Counting) \in Nat
      /\ accepted \in Nat /\ dropped \in Nat /\ processed \in Nat
  BY CountTypes
\* What is left alone.
<1>1. ASSUME UNCHANGED <<taskCh, sent, submitted, refused, countVars, handlerPc, answer, workerPc>>
      PROVE  Finite' /\ Balanced' /\ Recorded'
  BY <1>1 DEF Finite, Balanced, Recorded
\* A handler moves.
<1>2. ASSUME NEW h \in Handler, NEW pc, handlerPc[h] # "count", pc # "count",
             handlerPc' = [handlerPc EXCEPT ![h] = pc],
             UNCHANGED <<taskCh, sent, submitted, refused, countVars, answer, workerPc>>
      PROVE  Finite' /\ Balanced' /\ Recorded'
  <2>1. /\ Count(handlerPc', {"count"}) = Count(handlerPc, {"count"})
        /\ IsFiniteSet(At(handlerPc', {"count"}))
    BY <1>2, HandlerMoves DEF Recount
  <2>. QED  BY <1>2, <2>1 DEF Finite, Balanced, Recorded
\* An Enqueue returns.
<1>3. ASSUME NEW h \in Handler, NEW result, EnqueueReturns(h, result),
             handlerPc[h] \in {"check", "send", "count"}
      PROVE  /\ IsFiniteSet(At(handlerPc', {"count"})) /\ IsFiniteSet(At(answer', {"full"}))
             /\ Count(answer', {"full"}) =
                  IF result = "full" THEN Count(answer, {"full"}) + 1 ELSE Count(answer, {"full"})
             /\ Count(handlerPc', {"count"}) =
                  IF handlerPc[h] = "count" THEN Count(handlerPc, {"count"}) - 1
                                            ELSE Count(handlerPc, {"count"})
  <2> DEFINE e == Head(request[h])
             pc == IF Len(request[h]) = 1 THEN "idle" ELSE "check"
  <2>1. e \in Event /\ answer[e] = "none"
    BY <1>3, HeadTypes DEF RequestsOK, OwnEvents
  <2>2. /\ answer' = [answer EXCEPT ![e] = result]
        /\ handlerPc' = [handlerPc EXCEPT ![h] = pc] /\ pc # "count"
    BY <1>3 DEF EnqueueReturns
  <2> HIDE DEF e, pc
  <2>3. answer'[e] = result /\ Recount(answer, answer', e, {"full"})
    BY <2>1, <2>2, AnswerGiven
  <2>4. handlerPc'[h] = pc /\ Recount(handlerPc, handlerPc', h, {"count"})
    BY <2>2, HandlerMoves
  <2>5. IsFiniteSet(At(handlerPc', {"count"})) /\ IsFiniteSet(At(answer', {"full"}))
    BY <2>3, <2>4 DEF Recount
  <2>6. Count(answer', {"full"}) =
           IF result = "full" THEN Count(answer, {"full"}) + 1 ELSE Count(answer, {"full"})
    BY <2>1, <2>3 DEF Recount
  <2>7. Count(handlerPc', {"count"}) =
           IF handlerPc[h] = "count" THEN Count(handlerPc, {"count"}) - 1
                                     ELSE Count(handlerPc, {"count"})
    BY <2>2, <2>4 DEF Recount
  <2>. QED  BY <2>5, <2>6, <2>7
<1>4. ASSUME NEW h \in Handler, NEW events, Call(h, events) PROVE Finite' /\ Balanced' /\ Recorded'
  BY <1>2, <1>4 DEF Call
<1>5. ASSUME NEW h \in Handler, CheckFlag(h) PROVE Finite' /\ Balanced' /\ Recorded'
  <2>1. CASE EnqueueReturns(h, "shut")
    <3>1. /\ handlerPc[h] = "check"
          /\ UNCHANGED <<taskCh, sent, submitted, refused, countVars, workerPc>>
      BY <1>5 DEF CheckFlag
    <3>. QED  BY <1>3, <2>1, <3>1 DEF Finite, Balanced, Recorded
  <2>2. CASE handlerPc' = [handlerPc EXCEPT ![h] = "send"] /\ UNCHANGED answer
    BY <1>2, <1>5, <2>2 DEF CheckFlag
  <2>. QED  BY <1>5, <2>1, <2>2 DEF CheckFlag
<1>6. ASSUME NEW h \in Handler, SendTask(h) PROVE Finite' /\ Balanced' /\ Recorded'
  <2> DEFINE e == Head(request[h])
  <2>1. /\ e \in Event /\ e \notin sent
    BY <1>6, HeadTypes DEF SendTask, RequestsOK, OwnEvents
  <2>2. /\ taskCh' = Append(taskCh, e) /\ sent' = sent \cup {e} /\ handlerPc[h] = "send"
        /\ handlerPc' = [handlerPc EXCEPT ![h] = "count"]
        /\ UNCHANGED <<submitted, refused, countVars, answer, workerPc>>
    BY <1>6 DEF SendTask
  <2> HIDE DEF e
  <2>3. Len(taskCh') = Len(taskCh) + 1
    BY <2>1, <2>2, ElementsAppend DEF TypeOK
  <2>4. IsFiniteSet(sent') /\ Cardinality(sent') = Cardinality(sent) + 1
    BY <2>1, <2>2, OneMore DEF Finite
  <2>5. handlerPc'[h] = "count" /\ Recount(handlerPc, handlerPc', h, {"count"})
    BY <2>2, HandlerMoves
  <2>6. /\ IsFiniteSet(At(handlerPc', {"count"}))
        /\ Count(handlerPc', {"count"}) = Count(handlerPc, {"count"}) + 1
    BY <2>2, <2>5 DEF Recount
  <2>7. Finite'
    BY <2>2, <2>4, <2>6 DEF Finite
  <2>8. /\ Cardinality(submitted') = Cardinality(submitted)
        /\ Cardinality(refused') = Cardinality(refused)
        /\ Count(workerPc', Holding) = Count(workerPc, Holding)
    BY <2>2
  <2>9. Balanced'
    BY <1>l, <1>t, <2>3, <2>4, <2>8 DEF Balanced
  <2>10. Recorded'
    BY <1>t, <2>2, <2>4, <2>6 DEF Recorded
  <2>. QED  BY <2>7, <2>9, <2>10
<1>7. ASSUME NEW h \in Handler, SendFull(h) PROVE Finite' /\ Balanced' /\ Recorded'
  <2>1. /\ EnqueueReturns(h, "full") /\ handlerPc[h] = "send" /\ dropped' = dropped + 1
        /\ UNCHANGED <<taskCh, sent, submitted, refused, accepted, processed, workerPc>>
    BY <1>7 DEF SendFull
  <2>2. /\ IsFiniteSet(At(handlerPc', {"count"})) /\ IsFiniteSet(At(answer', {"full"}))
        /\ Count(answer', {"full"}) = Count(answer, {"full"}) + 1
        /\ Count(handlerPc', {"count"}) = Count(handlerPc, {"count"})
    BY <1>3, <2>1
  <2>3. /\ Cardinality(submitted') = Cardinality(submitted)
        /\ Cardinality(refused') = Cardinality(refused)
        /\ Count(workerPc', Counting) = Count(workerPc, Counting)
        /\ accepted' = accepted /\ processed' = processed /\ dropped' = dropped + 1
        /\ sent' = sent
    BY <2>1
  <2>4. Recorded'
    BY <1>t, <2>2, <2>3 DEF Recorded
  <2>. QED  BY <2>1, <2>2, <2>4 DEF Finite, Balanced
<1>8. ASSUME NEW h \in Handler, SendPanics(h) PROVE Finite' /\ Balanced' /\ Recorded'
  BY <1>2, <1>8 DEF SendPanics
<1>9. ASSUME NEW h \in Handler, CountAccepted(h) PROVE Finite' /\ Balanced' /\ Recorded'
  <2>1. /\ EnqueueReturns(h, "accepted") /\ handlerPc[h] = "count" /\ accepted' = accepted + 1
        /\ UNCHANGED <<taskCh, sent, submitted, refused, dropped, processed, workerPc>>
    BY <1>9 DEF CountAccepted
  <2>2. /\ IsFiniteSet(At(handlerPc', {"count"})) /\ IsFiniteSet(At(answer', {"full"}))
        /\ Count(answer', {"full"}) = Count(answer, {"full"})
        /\ Count(handlerPc', {"count"}) = Count(handlerPc, {"count"}) - 1
    BY <1>3, <2>1
  <2>3. Recorded'
    BY <1>t, <2>1, <2>2 DEF Recorded
  <2>. QED  BY <2>1, <2>2, <2>3 DEF Finite, Balanced
\* A worker takes an event.
<1>10. ASSUME NEW w \in Worker, NEW pc \in Holding, workerPc[w] \in {"select", "drain"}, Take(w, pc)
       PROVE  Finite' /\ Balanced' /\ Recorded'
  <2>1. /\ taskCh # <<>> /\ taskCh' = Tail(taskCh) /\ workerPc' = [workerPc EXCEPT ![w] = pc]
        /\ UNCHANGED <<sent, submitted, refused, countVars, handlerPc, answer>>
    BY <1>10 DEF Take
  <2>2. Len(taskCh') = Len(taskCh) - 1
    BY <2>1, ElementsHeadTail DEF TypeOK
  <2>3. /\ workerPc'[w] = pc /\ Recount(workerPc, workerPc', w, Holding)
        /\ Recount(workerPc, workerPc', w, Counting)
    BY <2>1, WorkerMoves
  <2>4. /\ workerPc[w] \notin Holding \cup Counting /\ workerPc'[w] \in Holding
        /\ workerPc'[w] \notin Counting
    BY <1>10, <2>3 DEF Holding, Counting
  <2>5. /\ IsFiniteSet(At(workerPc', Holding)) /\ IsFiniteSet(At(workerPc', Counting))
        /\ Count(workerPc', Holding) = Count(workerPc, Holding) + 1
        /\ Count(workerPc', Counting) = Count(workerPc, Counting)
    BY <2>3, <2>4 DEF Recount
  <2>6. Balanced'
    BY <1>l, <1>t, <2>1, <2>2, <2>5 DEF Balanced
  <2>. QED  BY <2>1, <2>5, <2>6 DEF Finite, Recorded
\* A worker moves without an event.
<1>11. ASSUME NEW w \in Worker, NEW pc, pc \notin Holding \cup Counting,
              workerPc[w] \notin Holding \cup Counting, Move(w, pc)
       PROVE  Finite' /\ Balanced' /\ Recorded'
  <2>1. /\ workerPc' = [workerPc EXCEPT ![w] = pc]
        /\ UNCHANGED <<taskCh, sent, submitted, refused, countVars, handlerPc, answer>>
    BY <1>11 DEF Move
  <2>2. /\ workerPc'[w] = pc /\ Recount(workerPc, workerPc', w, Holding)
        /\ Recount(workerPc, workerPc', w, Counting)
    BY <2>1, WorkerMoves
  <2>3. /\ IsFiniteSet(At(workerPc', Holding)) /\ IsFiniteSet(At(workerPc', Counting))
        /\ Count(workerPc', Holding) = Count(workerPc, Holding)
        /\ Count(workerPc', Counting) = Count(workerPc, Counting)
    BY <1>11, <2>2 DEF Recount
  <2>. QED  BY <2>1, <2>3 DEF Finite, Balanced, Recorded
\* A worker counts what it forwarded.
<1>12. ASSUME NEW w \in Worker, CountProcessed(w) \/ CountDropped(w)
       PROVE  Finite' /\ Balanced' /\ Recorded'
  <2>1. PICK pc \in {"drain", "select"} : workerPc' = [workerPc EXCEPT ![w] = pc]
    <3>1. CASE CountProcessed(w)
      <4> DEFINE next == IF workerPc[w] = "drainCount" THEN "drain" ELSE "select"
      <4>1. workerPc' = [workerPc EXCEPT ![w] = next] /\ next \in {"drain", "select"}
        BY <3>1 DEF CountProcessed
      <4> HIDE DEF next
      <4>. QED  BY <4>1
    <3>2. CASE CountDropped(w)
      BY <3>2 DEF CountDropped
    <3>. QED  BY <1>12, <3>1, <3>2
  <2>2. /\ workerPc[w] \in Counting /\ workerPc[w] \notin Holding
        /\ UNCHANGED <<taskCh, sent, submitted, refused, accepted, handlerPc, answer>>
        /\ \/ processed' = processed + 1 /\ dropped' = dropped
           \/ dropped' = dropped + 1 /\ processed' = processed
    BY <1>12 DEF CountProcessed, CountDropped, Counting, Holding
  <2>3. /\ workerPc'[w] = pc /\ Recount(workerPc, workerPc', w, Holding)
        /\ Recount(workerPc, workerPc', w, Counting)
    BY <2>1, WorkerMoves
  <2>4. pc \notin Counting /\ pc \notin Holding
    BY DEF Counting, Holding
  <2>5. /\ IsFiniteSet(At(workerPc', Holding)) /\ IsFiniteSet(At(workerPc', Counting))
        /\ Count(workerPc', Holding) = Count(workerPc, Holding)
        /\ Count(workerPc', Counting) = Count(workerPc, Counting) - 1
    BY <2>2, <2>3, <2>4 DEF Recount
  <2>6. Recorded'
    BY <1>t, <2>2, <2>5 DEF Recorded
  <2>. QED  BY <2>2, <2>5, <2>6 DEF Finite, Balanced
<1>13. ASSUME NEW w \in Worker, NEW ok \in BOOLEAN, Forward(w, ok)
       PROVE  Finite' /\ Balanced' /\ Recorded'
  <2> DEFINE next == IF workerPc[w] = "drainForward" THEN "drainCount"
                     ELSE IF ok THEN "countProcessed" ELSE "countDropped"
  <2>1. /\ workerPc' = [workerPc EXCEPT ![w] = next]
        /\ next \in Counting /\ next \notin Holding
        /\ workerPc[w] \in Holding /\ workerPc[w] \notin Counting
        /\ UNCHANGED <<taskCh, sent, countVars, handlerPc, answer>>
    BY <1>13 DEF Forward, Holding, Counting
  <2> HIDE DEF next
  <2>2. PICK e \in Event : task[w] = <<e>>
    BY <2>1 DEF Once, HandsOK, Holding
  <2>3. ToSet(task[w]) = {e} /\ e \in InHand
    BY <2>2, OneElement DEF InHand
  <2>4. e \notin submitted /\ e \notin refused
    BY <2>3 DEF Once, PlacesApart
  <2>5. \/ submitted' = submitted \cup {e} /\ refused' = refused
        \/ refused' = refused \cup {e} /\ submitted' = submitted
    BY <1>13, <2>3 DEF Forward
  <2>6. /\ IsFiniteSet(submitted') /\ IsFiniteSet(refused')
        /\ \/ /\ Cardinality(submitted') = Cardinality(submitted) + 1
              /\ Cardinality(refused') = Cardinality(refused)
           \/ /\ Cardinality(refused') = Cardinality(refused) + 1
              /\ Cardinality(submitted') = Cardinality(submitted)
    BY <2>4, <2>5, OneMore DEF Finite
  <2>7. /\ workerPc'[w] = next /\ Recount(workerPc, workerPc', w, Holding)
        /\ Recount(workerPc, workerPc', w, Counting)
    BY <2>1, WorkerMoves
  <2>8. /\ IsFiniteSet(At(workerPc', Holding)) /\ IsFiniteSet(At(workerPc', Counting))
        /\ Count(workerPc', Holding) = Count(workerPc, Holding) - 1
        /\ Count(workerPc', Counting) = Count(workerPc, Counting) + 1
    BY <2>1, <2>7 DEF Recount
  <2>0. Len(taskCh') = Len(taskCh)
    BY <2>1
  <2>9. /\ Cardinality(sent') = Cardinality(sent)
        /\ Count(handlerPc', {"count"}) = Count(handlerPc, {"count"})
        /\ Count(answer', {"full"}) = Count(answer, {"full"})
        /\ accepted' = accepted /\ processed' = processed /\ dropped' = dropped
    BY <2>1
  <2>10. Balanced'
    BY <1>l, <1>t, <2>0, <2>6, <2>8, <2>9 DEF Balanced
  <2>11. Recorded'
    BY <1>t, <2>6, <2>8, <2>9 DEF Recorded
  <2>. QED  BY <2>1, <2>6, <2>8, <2>10, <2>11 DEF Finite
<1>14. ASSUME NEW w \in Worker, WorkerStep(w) PROVE Finite' /\ Balanced' /\ Recorded'
  <2>1. CASE SelectTask(w) \/ DrainTask(w)
    BY <1>10, <2>1 DEF SelectTask, DrainTask, Holding
  <2>2. CASE SelectClosed(w) \/ SelectCancel(w) \/ DrainEnd(w)
    BY <1>11, <2>2 DEF SelectClosed, SelectCancel, DrainEnd, Holding, Counting
  <2>. QED  BY <1>12, <1>14, <2>1, <2>2 DEF WorkerStep
<1>15. CASE ShutFlag \/ ShutStep
  BY <1>1, <1>15 DEF ShutFlag, ShutStep, ShutClose, ShutCancel, ShutReturn
<1>16. CASE QueueStats
  BY <1>1, <1>16
     DEF QueueStats, StatsLength, StatsAccepted, StatsDropped, StatsProcessed, ReadStat
<1>17. CASE UNCHANGED vars
  BY <1>1, <1>17 DEF vars
<1>. QED
  BY <1>4, <1>5, <1>6, <1>7, <1>8, <1>9, <1>13, <1>14, <1>15, <1>16, <1>17 DEF Next, Enqueue

-----------------------------------------------------------------------------
LEMMA CountedInit == Init => Once /\ Counted
<1> SUFFICES ASSUME Init PROVE Once /\ Counted
  OBVIOUS
<1>1. ToSet(taskCh) = {} /\ \A w \in Worker : ToSet(task[w]) = {}
  BY NoElements DEF Init
<1>2. Len(taskCh) = 0 /\ \A i, j \in 1..Len(taskCh) : FALSE
  BY NoElements DEF Init
<1>3. Once
  <2>1. InHand = {}
    BY <1>1 DEF InHand
  <2>2. HandsOK
    BY DEF Init, HandsOK
  <2>3. QueueOnce /\ HandsApart
    BY <1>1, <1>2 DEF QueueOnce, HandsApart
  <2>4. PlacesApart
    BY <1>1, <2>1 DEF Init, PlacesApart
  <2>. QED  BY <2>2, <2>3, <2>4 DEF Once
<1>4. /\ At(handlerPc, {"count"}) = {} /\ At(answer, {"full"}) = {}
      /\ At(workerPc, Holding) = {} /\ At(workerPc, Counting) = {}
  BY DEF Init, At, Holding, Counting
<1>5. Finite
  BY <1>4, FS_EmptySet DEF Init, Finite
<1>6. /\ Count(handlerPc, {"count"}) = 0 /\ Count(answer, {"full"}) = 0
      /\ Count(workerPc, Holding) = 0 /\ Count(workerPc, Counting) = 0
  BY <1>4, FS_EmptySet DEF Count, At
<1>7. Cardinality(sent) = 0 /\ Cardinality(submitted) = 0 /\ Cardinality(refused) = 0
  BY FS_EmptySet DEF Init
<1>8. Balanced
  BY <1>2, <1>6, <1>7 DEF Balanced
<1>9. Recorded
  BY <1>6, <1>7 DEF Init, Recorded
<1>. QED  BY <1>3, <1>5, <1>8, <1>9 DEF Counted

LEMMA CountedCorrect == Spec => [](IInv /\ Once /\ Counted)
<1>1. Init => IInv /\ Once /\ Counted
  BY InvInit, CountedInit
<1>2. IInv /\ Once /\ Counted /\ [Next]_vars => (IInv /\ Once /\ Counted)'
  BY InvStep, OnceStep, CountedStep DEF IInv
<1>. QED  BY <1>1, <1>2, PTL DEF Spec

LEMMA CountsAgree == IInv /\ Once /\ Counted => NothingDuplicated /\ CountersAddUp
<1> SUFFICES ASSUME IInv, Once, Counted PROVE NothingDuplicated /\ CountersAddUp
  OBVIOUS
<1>1. At(workerPc, Holding) = {w \in Worker : task[w] # <<>>}
  <2>1. DOMAIN workerPc = Worker
    BY DEF IInv, TypeOK
  <2>2. \A w \in Worker : workerPc[w] \in Holding <=> task[w] # <<>>
    BY OneElement DEF IInv, WorkersOK, Once, HandsOK, Holding
  <2>. QED  BY <2>1, <2>2 DEF At
<1>2. Count(workerPc, Holding) = Cardinality({w \in Worker : task[w] # <<>>})
  BY <1>1 DEF Count, At
<1>3. NothingDuplicated
  BY <1>2 DEF Counted, Balanced, NothingDuplicated
<1>4. CountersAddUp
  BY DEF Counted, Recorded, CountersAddUp, Counting
<1>. QED  BY <1>3, <1>4

\* No event is in two places or twice in one: what entered the channel is there,
\* in one worker's hands, or was passed to Submit once (pool.go:66-92, 112-117).
THEOREM NothingDuplicatedCorrect == Spec => []NothingDuplicated
BY CountsAgree, CountedCorrect, PTL

\* The counters of QueueStats account for every event: but for an act whose
\* count is still to come, none is forgotten and none counted twice
\* (pool.go:66-92, 97-117).
THEOREM CountersAddUpCorrect == Spec => []CountersAddUp
BY CountsAgree, CountedCorrect, PTL
=============================================================================
