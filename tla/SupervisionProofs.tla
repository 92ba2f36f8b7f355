-------------------------- MODULE SupervisionProofs --------------------------
(***************************************************************************)
(* What Supervision guarantees for all periods and limits that leave a     *)
(* healthy worker its room (SupervisionAssumption), and any number of      *)
(* illnesses and requests.  The inductive invariant is WorkerInv; that an  *)
(* ill worker is stopped in time has one of its own (OverrunInv), and the  *)
(* limits in the order of LimitsAssumption.                                *)
(***************************************************************************)
EXTENDS Supervision, TLAPS

LEMMA Arithmetic ==
  /\ Grace \in Nat /\ Stale \in Nat /\ NoProgress \in Nat /\ HardLimit \in Nat /\ Delay \in Nat
  /\ Beat \in Nat /\ Boot \in Nat /\ Write \in Nat /\ Unit \in Nat /\ Cycle \in Nat
  /\ Lag \in Nat /\ Top \in Nat
  /\ Lag = Write + Beat + Write
  /\ Cycle + Write < Top /\ Lag < Top
  /\ Beat < Top /\ Write < Top /\ Boot < Top /\ Delay <= Top /\ Grace + 1 <= Top
  /\ Grace >= Boot + Write /\ Stale >= Lag
  /\ NoProgress >= Unit + Lag /\ Unit >= Write
  /\ HardLimit >= Cycle + Write + Lag
  /\ MaxFaults \in Nat /\ MaxRequests \in Nat
BY SupervisionAssumption DEF SupervisionAssumption, Periods, Lag, Top

(* Time adds one to an age, or leaves it at the top *)
LEMMA OlderAge ==
  ASSUME NEW age \in Age
  PROVE  Older(age) \in Age /\ age <= Older(age) /\ Older(age) <= age + 1
BY Arithmetic DEF Older, Age

LEMMA OlderStampsType ==
  ASSUME NEW stamps \in Stamps
  PROVE  /\ OlderStamps(stamps) \in Stamps
         /\ OlderStamps(stamps).status = stamps.status
         /\ stamps.status = "RUNNING" =>
              /\ OlderStamps(stamps).started = Older(stamps.started)
              /\ OlderStamps(stamps).progress = Older(stamps.progress)
BY OlderAge DEF OlderStamps, Stamps

(* What was good a while ago was good one unit more ago a unit later *)
LEMMA OlderWithin ==
  ASSUME NEW stamps \in Stamps, NEW behind \in Int, Within(stamps, behind)
  PROVE  Within(OlderStamps(stamps), behind + 1)
<1> USE Arithmetic DEF Within
<1>1. stamps.started \in Age /\ stamps.progress \in Age
  BY DEF Stamps
<1>2. CASE stamps.status = "RUNNING"
  <2>1. Older(stamps.progress) <= Older(stamps.started)
    BY <1>1, <1>2 DEF Older, Age
  <2> QED
    BY <1>1, <1>2, <2>1, OlderAge, OlderStampsType DEF Age
<1>3. CASE stamps.status # "RUNNING"
  BY <1>3, OlderStampsType
<1> QED
  BY <1>2, <1>3

LEMMA WithinMonotone ==
  ASSUME NEW stamps \in Stamps, NEW a \in Int, NEW b \in Int, a <= b, Within(stamps, a)
  PROVE  Within(stamps, b)
BY Arithmetic DEF Within, Stamps, Age

LEMMA RestingType == Resting \in Stamps
BY Arithmetic DEF Resting, Stamps, Age

LEMMA RestingWithin ==
  ASSUME NEW behind \in Int
  PROVE  Within(Resting, behind)
BY DEF Within, Resting

LEMMA WorkerInvInit == Init => WorkerInv
<1> SUFFICES ASSUME Init PROVE WorkerInv
  OBVIOUS
<1> USE Arithmetic, RestingType DEF Init
<1>1. TypeOK
  BY DEF TypeOK, Unread, Age
<1>2. Shape
  BY DEF Shape, Resting, Unread
<1> QED
  BY <1>1, <1>2 DEF WorkerInv, Healthy

-----------------------------------------------------------------------------
(* The types, action by action. *)

LEMMA TypeStep == TypeOK /\ [Next]_vars => TypeOK'
<1> SUFFICES ASSUME TypeOK, [Next]_vars PROVE TypeOK'
  OBVIOUS
<1> USE Arithmetic, RestingType DEF TypeOK, processVars, requestVars, Goto
<1>1. ASSUME MainSteps PROVE TypeOK'
  <2> USE DEF OnlyMain, Age
  <2>1. CASE EnterLoop
    <3>1. heart' \in [at : {"down", "pause", "write"}, age : Age, stamps : Stamps]
      BY <2>1 DEF EnterLoop
    <3> QED
      BY <2>1, <3>1 DEF EnterLoop
  <2>2. CASE ReadRequest
    BY <2>2 DEF ReadRequest
  <2>3. ASSUME NEW req \in 0..MaxRequests, StartCycle(req), request' \in {0, request} PROVE TypeOK'
    BY <2>3 DEF StartCycle, Stamps
  <2>4. CASE StartScheduled \/ Unlink \/ UnlinkFails
    BY <2>3, <2>4 DEF StartScheduled, Unlink, UnlinkFails
  <2>5. CASE Report
    <3>1. mem' \in Stamps
      BY <2>5 DEF Report, Stamps
    <3> QED
      BY <2>5, <3>1 DEF Report
  <2>6. CASE FinishCycle
    BY <2>6 DEF FinishCycle
  <2>7. CASE EndWrite
    <3>1. file' \in [from : {"missing", "earlier", "worker"}, stamps : Stamps, beat : Age]
      BY <2>7 DEF EndWrite, Replace, Written
    <3>2. main' \in [at : {"down", "boot", "top", "unlink", "work", "write", "sleep"},
                     age : Age, req : 0..MaxRequests]
      BY <2>7 DEF EndWrite
    <3> QED
      BY <2>7, <3>1, <3>2 DEF EndWrite
  <2>8. CASE Wake
    BY <2>8 DEF Wake
  <2> QED
    BY <1>1, <2>1, <2>2, <2>4, <2>5, <2>6, <2>7, <2>8 DEF MainSteps
<1>2. CASE TakePayload
  BY <1>2 DEF TakePayload, OnlyHeart, Age
<1>3. CASE EndBeat
  BY <1>3 DEF EndBeat, OnlyHeart, Replace, Written, Age
<1>4. CASE Launch
  BY <1>4 DEF Launch, Unread, Age
<1>5. CASE Check
  BY <1>5 DEF Check, OnlySupervisor, Age
<1>6. CASE Stop
  BY <1>6 DEF Stop, EndProcess, Age
<1>7. ASSUME NEW illness \in Illnesses, FallIll(illness) PROVE TypeOK'
  BY <1>7 DEF FallIll, EndProcess, Age
<1>8. CASE Queue
  BY <1>8 DEF Queue
<1>9. CASE Tick
  <2> USE <1>9, OlderAge, OlderStampsType DEF Tick
  <2>1. file' \in [from : {"missing", "earlier", "worker"}, stamps : Stamps, beat : Age]
    OBVIOUS
  <2>2. mem' \in Stamps
    OBVIOUS
  <2>3. main' \in [at : {"down", "boot", "top", "unlink", "work", "write", "sleep"},
                   age : Age, req : 0..MaxRequests]
    OBVIOUS
  <2>4. heart' \in [at : {"down", "pause", "write"}, age : Age, stamps : Stamps]
    OBVIOUS
  <2>5. sup' \in [at : {"watch", "stop", "delay"}, age : Age]
    OBVIOUS
  <2>6. launched' \in Age
    BY DEF Age
  <2> QED
    BY <2>1, <2>2, <2>3, <2>4, <2>5, <2>6
<1>10. CASE UNCHANGED vars
  BY <1>10 DEF vars
<1> QED
  BY <1>1, <1>2, <1>3, <1>4, <1>5, <1>6, <1>7, <1>8, <1>9, <1>10
  DEF Next, HeartSteps, SupervisorSteps

-----------------------------------------------------------------------------
(* Where the three programs are, action by action. *)

LEMMA ShapeStep == TypeOK /\ Shape /\ [Next]_vars => Shape'
<1> SUFFICES ASSUME TypeOK, Shape, [Next]_vars PROVE Shape'
  OBVIOUS
<1> USE DEF TypeOK, Shape, processVars, requestVars, Goto, Alive, Working
<1>1. CASE EnterLoop
  BY <1>1 DEF EnterLoop
<1>2. CASE ReadRequest
  BY <1>2 DEF ReadRequest, OnlyMain
<1>3. CASE StartScheduled \/ Unlink \/ UnlinkFails
  BY <1>3 DEF StartScheduled, Unlink, UnlinkFails, StartCycle, OnlyMain
<1>4. CASE Report
  BY <1>4 DEF Report, OnlyMain, Stamps
<1>5. CASE FinishCycle
  BY <1>5 DEF FinishCycle, OnlyMain, Resting
<1>6. CASE EndWrite
  BY <1>6 DEF EndWrite, OnlyMain
<1>7. CASE Wake
  BY <1>7 DEF Wake, OnlyMain
<1>8. CASE TakePayload \/ EndBeat
  BY <1>8 DEF TakePayload, EndBeat, OnlyHeart
<1>9. CASE Launch
  BY <1>9 DEF Launch, Unread, Resting
<1>10. CASE Check
  BY <1>10 DEF Check, OnlySupervisor
<1>11. CASE Stop
  BY <1>11 DEF Stop, EndProcess, Resting
<1>12. ASSUME NEW illness \in Illnesses, FallIll(illness) PROVE Shape'
  BY <1>12 DEF FallIll, EndProcess, Resting, Illnesses
<1>13. CASE Queue
  BY <1>13 DEF Queue
<1>14. CASE Tick
  BY <1>14, OlderStampsType DEF Tick
<1>15. CASE UNCHANGED vars
  BY <1>15 DEF vars
<1> QED
  BY <1>1, <1>2, <1>3, <1>4, <1>5, <1>6, <1>7, <1>8, <1>9, <1>10, <1>11, <1>12, <1>13, <1>14, <1>15
  DEF Next, MainSteps, HeartSteps, SupervisorSteps

-----------------------------------------------------------------------------
(* The clocks of a healthy worker, action by action. *)

(* The ages are numbers *)
LEMMA AgesAreNumbers ==
  TypeOK =>
    /\ main.age \in Nat /\ heart.age \in Nat /\ launched \in Nat /\ file.beat \in Nat
    /\ mem \in Stamps /\ heart.stamps \in Stamps /\ file.stamps \in Stamps
    /\ mem.started \in Nat /\ mem.progress \in Nat
    /\ Behind \in Nat
BY Arithmetic DEF TypeOK, Age, Stamps, Behind

Clocks == WaitsAreBounded /\ FirstStatusIsDue /\ StampsAreRecent

(* A file that is replaced is as recent as the payload it is replaced by; *)
(* the heartbeat's payload has the time of the pause before it to spare.  *)
LEMMA MainClocks ==
  ASSUME WorkerInv, TypeOK', Healthy, MainSteps
  PROVE  Clocks'
<1> USE Arithmetic, AgesAreNumbers
    DEF WorkerInv, Clocks, Healthy, WaitsAreBounded, FirstStatusIsDue, StampsAreRecent, Behind,
        processVars, requestVars, Goto, Alive, Working, OnlyMain
<1>1. CASE EnterLoop
  BY <1>1 DEF EnterLoop, Shape
<1>2. CASE ReadRequest
  BY <1>2 DEF ReadRequest
<1>3. ASSUME NEW req, StartCycle(req), main.at # "boot" PROVE Clocks'
  BY <1>3 DEF StartCycle, Within
<1>4. CASE StartScheduled \/ Unlink \/ UnlinkFails
  BY <1>3, <1>4 DEF StartScheduled, Unlink, UnlinkFails
<1>5. CASE Report
  BY <1>5 DEF Report, CycleIsOver, Within, Stamps
<1>6. CASE FinishCycle
  BY <1>6, RestingWithin DEF FinishCycle, Resting
<1>7. CASE EndWrite
  <2>1. Within(mem, Behind)
    BY WithinMonotone
  <2> QED
    BY <1>7, <2>1 DEF EndWrite, Replace, Written
<1>8. CASE Wake
  BY <1>8 DEF Wake
<1> QED
  BY <1>1, <1>2, <1>4, <1>5, <1>6, <1>7, <1>8 DEF MainSteps

LEMMA HeartClocks ==
  ASSUME WorkerInv, TypeOK', Healthy, HeartSteps
  PROVE  Clocks'
<1> USE Arithmetic, AgesAreNumbers
    DEF WorkerInv, Clocks, Healthy, WaitsAreBounded, FirstStatusIsDue, StampsAreRecent, Behind,
        processVars, requestVars, Alive, OnlyHeart
<1>1. CASE TakePayload
  BY <1>1 DEF TakePayload, Shape
<1>2. CASE EndBeat
  <2>1. Within(heart.stamps, Write)
    BY <1>2, WithinMonotone DEF EndBeat
  <2> QED
    BY <1>2, <2>1 DEF EndBeat, Replace, Written
<1> QED
  BY <1>1, <1>2 DEF HeartSteps

(* A new process has all its waits before it *)
LEMMA LaunchClocks ==
  ASSUME WorkerInv, Launch
  PROVE  Clocks'
BY Arithmetic, RestingWithin
DEF WorkerInv, Shape, Launch, Goto, Clocks, WaitsAreBounded, FirstStatusIsDue, StampsAreRecent, Unread,
    Resting, Within

(* A unit of time passes for the bounds and for what they bound *)
LEMMA TickClocks ==
  ASSUME WorkerInv, TypeOK', Healthy, Tick
  PROVE  Clocks'
<1> USE Arithmetic, AgesAreNumbers DEF WorkerInv, Healthy, Clocks
<1>1. TypeOK /\ ~MainIsDue /\ ~HeartIsDue
  BY DEF Tick, Alive
<1>2. /\ main'.at = main.at /\ heart'.at = heart.at /\ file'.from = file.from
      /\ launched' \in Nat /\ launched' <= launched + 1
  BY <1>1, OlderAge DEF Tick, TypeOK, Age
<1>3. /\ main.at \in {"boot", "write"} => main'.age = main.age + 1
      /\ main.at = "boot" => main.age < Boot
      /\ main.at = "write" => main.age < Write
  BY <1>1 DEF Tick, TypeOK, Older, WaitsAreBounded, MainIsDue
<1>4. /\ heart.at # "down" => heart'.age = heart.age + 1
      /\ heart.at = "pause" => heart.age < Beat
      /\ heart.at = "write" => heart.age < Write
  BY <1>1 DEF Tick, TypeOK, Older, WaitsAreBounded, HeartIsDue
<1>5. WaitsAreBounded'
  BY <1>2, <1>3, <1>4 DEF WaitsAreBounded
<1>6. FirstStatusIsDue'
  BY <1>2, <1>4 DEF FirstStatusIsDue
<1>7. Within(mem', 0)
  <2>1. CASE mem.status = "RUNNING" /\ main.at = "work"
    <3>1. ~(mem.progress >= Unit) /\ ~CycleIsOver
      BY <1>1, <2>1 DEF MainIsDue
    <3>2. mem.progress \in Nat /\ mem.started \in Nat /\ fault = "none"
      OBVIOUS
    <3>3. mem.progress < Unit
      BY <3>1, <3>2
    <3>4. mem.started < Cycle
      BY <3>1, <3>2 DEF CycleIsOver
    <3>5. Within(mem', 1)
      BY OlderWithin DEF Tick, StampsAreRecent
    <3>6. mem' = OlderStamps(mem) /\ mem \in Stamps /\ mem'.status = "RUNNING"
      BY <2>1, OlderStampsType DEF Tick
    <3>7. /\ mem'.progress \in Nat /\ mem'.progress <= mem.progress + 1
          /\ mem'.started \in Nat /\ mem'.started <= mem.started + 1
      BY <2>1, <3>6, OlderStampsType, OlderAge DEF Stamps, Age
    <3> QED
      BY <3>2, <3>3, <3>4, <3>5, <3>6, <3>7 DEF Within
  <2>2. CASE mem.status = "RUNNING" /\ main.at = "write"
    BY <1>3, <2>2, OlderWithin, OlderStampsType, OlderAge DEF Tick, Within, StampsAreRecent, Age, Stamps
  <2>3. CASE mem.status # "RUNNING"
    BY <2>3, OlderStampsType DEF Tick, Within
  <2> QED
    BY <2>1, <2>2, <2>3 DEF Shape
<1>8. main.at = "write" /\ mem'.status = "RUNNING" =>
        mem'.progress <= main'.age /\ mem'.started <= Cycle + main'.age
  BY <1>3, OlderStampsType, OlderAge DEF Tick, StampsAreRecent, Age, Stamps
<1>9. heart.at = "write" => Within(heart'.stamps, heart'.age)
  BY <1>4, OlderWithin DEF Tick, StampsAreRecent, TypeOK
<1>10. file.from = "worker" => heart.at # "down"
  BY DEF Shape
<1>11. heart.at # "down" => Behind' = Behind + 1
  BY <1>2, <1>4 DEF Behind
<1>12. file.from = "worker" => Within(file'.stamps, Behind') /\ file'.beat <= Behind'
  BY <1>10, <1>11, OlderWithin, OlderAge DEF Tick, StampsAreRecent, TypeOK, Age
<1>13. StampsAreRecent'
  BY <1>2, <1>7, <1>8, <1>9, <1>12 DEF StampsAreRecent
<1> QED
  BY <1>5, <1>6, <1>13

(* A healthy worker gives no reason to be stopped *)
LEMMA NoReason ==
  ASSUME WorkerInv, Healthy
  PROVE  ~RestartReason
<1> USE Arithmetic, AgesAreNumbers DEF WorkerInv
<1>1. Healthy => WaitsAreBounded /\ FirstStatusIsDue /\ StampsAreRecent
  OBVIOUS
<1>2. file.from # "worker" => ~(launched > Grace)
  BY <1>1 DEF WaitsAreBounded, FirstStatusIsDue
<1>3. file.from = "worker" => Behind <= Lag
  <2>1. file.from = "worker" => heart.at \in {"pause", "write"}
    BY DEF Shape, Healthy, TypeOK
  <2> QED
    BY <1>1, <2>1 DEF Behind, WaitsAreBounded
<1>4. file.from = "worker" => ~(file.beat > Stale)
  BY <1>1, <1>3 DEF StampsAreRecent
<1>5. file.from = "worker" /\ file.stamps.status = "RUNNING" => ~ProgressProblem(file.stamps)
  <2> SUFFICES ASSUME file.from = "worker", file.stamps.status = "RUNNING"
               PROVE  ~ProgressProblem(file.stamps)
    OBVIOUS
  <2>1. Within(file.stamps, Behind) /\ file.stamps.started \in Nat /\ file.stamps.progress \in Nat
    BY <1>1 DEF StampsAreRecent, Stamps, Age
  <2> QED
    BY <1>3, <2>1 DEF Within, ProgressProblem
<1> QED
  BY <1>2, <1>4, <1>5 DEF RestartReason

LEMMA WorkerInvStep == WorkerInv /\ [Next]_vars => WorkerInv'
<1> SUFFICES ASSUME WorkerInv, [Next]_vars PROVE WorkerInv'
  OBVIOUS
<1>1. TypeOK' /\ Shape'
  BY TypeStep, ShapeStep DEF WorkerInv
<1>2. Healthy' => Clocks'
  <2> SUFFICES ASSUME Healthy' PROVE Clocks'
    OBVIOUS
  <2>1. CASE Launch
    BY <2>1, LaunchClocks
  <2>2. ASSUME ~Launch PROVE Healthy
    BY <2>2 DEF Next, MainSteps, HeartSteps, SupervisorSteps, Healthy, vars, processVars, Alive, Working,
      EnterLoop, ReadRequest, StartScheduled, Unlink, UnlinkFails, StartCycle, Report, FinishCycle, EndWrite,
      Wake, TakePayload, EndBeat, Check, Stop, FallIll, Queue, Tick, EndProcess, Goto, OnlyMain, OnlyHeart,
      OnlySupervisor, Illnesses
  <2>3. CASE ~Launch /\ MainSteps
    BY <1>1, <2>2, <2>3, MainClocks
  <2>4. CASE ~Launch /\ HeartSteps
    BY <1>1, <2>2, <2>4, HeartClocks
  <2>5. CASE ~Launch /\ Tick
    BY <1>1, <2>2, <2>5, TickClocks
  <2>6. ASSUME UNCHANGED <<file, mem, main, heart, launched, fault>>, ~Launch PROVE Clocks'
    BY <2>2, <2>6 DEF WorkerInv, Clocks, WaitsAreBounded, FirstStatusIsDue, StampsAreRecent, Behind, Within
  <2>7. CASE Check \/ Queue \/ UNCHANGED vars
    BY <2>6, <2>7 DEF Check, Queue, vars, OnlySupervisor, processVars, Launch
  <2>8. CASE Stop
    BY <2>8 DEF Stop, EndProcess, Goto, Healthy
  <2>9. ASSUME NEW illness \in Illnesses, FallIll(illness) PROVE Clocks'
    BY <2>9 DEF FallIll, Illnesses, Healthy
  <2> QED
    BY <2>1, <2>3, <2>4, <2>5, <2>7, <2>8, <2>9 DEF Next, SupervisorSteps
<1>3. sup'.at = "stop" => fault' # "none"
  <2> USE DEF WorkerInv
  <2>1. CASE Check
    BY <2>1, NoReason DEF Check, OnlySupervisor, processVars, Shape, Healthy
  <2>2. CASE Launch \/ Stop
    BY <2>2 DEF Launch, Stop
  <2>3. ASSUME NEW illness \in Illnesses, FallIll(illness) PROVE fault' # "none"
    BY <2>3 DEF FallIll, Illnesses
  <2>4. CASE MainSteps
    BY <2>4 DEF MainSteps, EnterLoop, ReadRequest, StartScheduled, Unlink, UnlinkFails, StartCycle, Report,
      FinishCycle, EndWrite, Wake, OnlyMain, processVars
  <2>5. CASE HeartSteps \/ Queue \/ UNCHANGED vars
    BY <2>5 DEF HeartSteps, TakePayload, EndBeat, OnlyHeart, Queue, vars, processVars
  <2>6. CASE Tick
    BY <2>6 DEF Tick, TypeOK
  <2> QED
    BY <2>1, <2>2, <2>3, <2>4, <2>5, <2>6 DEF Next, SupervisorSteps
<1> QED
  BY <1>1, <1>2, <1>3 DEF WorkerInv, Clocks

-----------------------------------------------------------------------------
(* Every variable of the worker, its supervisor and their files keeps its  *)
(* type (live_worker_v8.py, worker_supervisor_v8.py).                      *)
THEOREM SupervisionTypeCorrect == Spec => []TypeOK
<1>1. WorkerInv => TypeOK
  BY DEF WorkerInv
<1> QED
  BY <1>1, WorkerInvInit, WorkerInvStep, PTL DEF Spec

(* Whatever the periods and the limits, as long as each limit leaves room  *)
(* for what it is set against, no healthy worker is ever stopped           *)
(* (_restart_reason, running_progress_problem).                            *)
THEOREM HealthyAreLeftAlone == Spec => []OnlySickAreStopped
<1>1. WorkerInv => OnlySickAreStopped
  BY DEF WorkerInv, OnlySickAreStopped
<1> QED
  BY <1>1, WorkerInvInit, WorkerInvStep, PTL DEF Spec

-----------------------------------------------------------------------------
(* The cycle the file shows. *)

LEMMA ShownStep ==
  ASSUME ShownInv, WorkerInv', [Next]_vars, Healthy'
  PROVE  CycleIsShown'
<1> USE Arithmetic, AgesAreNumbers DEF CycleIsShown, processVars, requestVars, Goto
<1>1. CASE Launch
  BY <1>1 DEF Launch, Resting
<1>2. CASE Stop
  BY <1>2 DEF Stop, EndProcess, Healthy
<1>3. ASSUME NEW illness \in Illnesses, FallIll(illness) PROVE FALSE
  BY <1>3 DEF FallIll, Illnesses, Healthy
<1>4. CASE Check \/ Queue \/ UNCHANGED vars
  BY <1>4 DEF Check, Queue, vars, OnlySupervisor, ShownInv, Healthy
<1>5. CASE MainSteps
  <2> USE DEF OnlyMain, ShownInv, Healthy, Alive, Working
  <2>1. CASE EnterLoop \/ ReadRequest \/ Wake
    BY <2>1 DEF EnterLoop, ReadRequest, Wake, WorkerInv, Shape
  <2>2. CASE StartScheduled \/ Unlink \/ UnlinkFails
    BY <2>2 DEF StartScheduled, Unlink, UnlinkFails, StartCycle, WorkerInv
  <2>3. CASE Report
    BY <2>3 DEF Report, WorkerInv, Stamps, Shape
  <2>4. CASE FinishCycle
    BY <2>4 DEF FinishCycle, Resting
  <2>5. CASE EndWrite
    BY <2>5 DEF EndWrite, Replace, Written
  <2> QED
    BY <1>5, <2>1, <2>2, <2>3, <2>4, <2>5 DEF MainSteps
<1>6. CASE HeartSteps
  <2> USE DEF OnlyHeart, ShownInv, Healthy
  <2>1. CASE TakePayload
    BY <2>1 DEF TakePayload
  <2>2. CASE EndBeat
    BY <2>2 DEF EndBeat, Replace, Written
  <2> QED
    BY <1>6, <2>1, <2>2 DEF HeartSteps
<1>7. CASE Tick
  <2> SUFFICES ASSUME mem'.status = "RUNNING" PROVE CycleIsShown'
    OBVIOUS
  <2>1. Healthy /\ WorkerInv /\ CycleIsShown /\ TypeOK /\ Shape
    BY <1>7 DEF Tick, ShownInv, Healthy, TypeOK, WorkerInv
  <2>2. WaitsAreBounded /\ StampsAreRecent /\ ~HeartIsDue /\ ~MainIsDue
    BY <1>7, <2>1 DEF WorkerInv, Tick, Alive, Healthy
  <2>3. mem.status = "RUNNING" /\ mem.started \in Nat /\ mem'.started = Older(mem.started)
    BY <1>7, <2>1, OlderStampsType DEF Tick
  <2>4. mem.started < Top
    BY <2>2, <2>3 DEF StampsAreRecent, Within
  <2>5. mem'.started = mem.started + 1
    BY <2>3, <2>4 DEF Older
  <2>6. heart.at \in {"pause", "write"} /\ heart'.at = heart.at
    BY <1>7, <2>1, <2>3 DEF Tick, Shape, TypeOK
  <2>7. heart.at = "write" => heart'.age = heart.age + 1
    BY <1>7, <2>1, <2>2, <2>6 DEF Tick, Older, HeartIsDue
  <2>8. heart.at = "write" /\ heart.stamps.status = "RUNNING" =>
          heart'.stamps.status = "RUNNING" /\ heart'.stamps.started = Older(heart.stamps.started)
    BY <1>7, <2>1, OlderStampsType DEF Tick, TypeOK
  <2>9. file.from = "worker" => file.beat < Top
    BY <2>1, <2>2, <2>6 DEF StampsAreRecent, Behind, WaitsAreBounded
  <2>10. /\ file'.from = file.from
         /\ file.from = "worker" => file'.beat = file.beat + 1
    BY <1>7, <2>1, <2>9 DEF Tick, Older, TypeOK
  <2>11. file.from = "worker" /\ file.stamps.status = "RUNNING" =>
          file'.stamps.status = "RUNNING" /\ file'.stamps.started = Older(file.stamps.started)
    BY <1>7, <2>1, OlderStampsType DEF Tick, TypeOK
  <2>12. main.at = "write" => main'.at = "write" /\ main'.age = main.age + 1
    BY <1>7, <2>1, <2>2 DEF Tick, Older, MainIsDue, TypeOK
  <2>13. heart'.at = "write" /\ heart'.age < mem'.started =>
           heart'.stamps.status = "RUNNING" /\ heart'.stamps.started = mem'.started
    <3> SUFFICES ASSUME heart.at = "write", heart'.age < mem'.started
                 PROVE  heart'.stamps.status = "RUNNING" /\ heart'.stamps.started = mem'.started
      BY <2>6
    <3>1. heart.age < mem.started
      BY <2>1, <2>3, <2>5, <2>7
    <3>2. heart.stamps.status = "RUNNING" /\ heart.stamps.started = mem.started
      BY <2>1, <2>3, <3>1
    <3> QED
      BY <2>3, <2>8, <3>2
  <2>14. file'.from = "worker" /\ file'.beat < mem'.started =>
           file'.stamps.status = "RUNNING" /\ file'.stamps.started = mem'.started
    <3> SUFFICES ASSUME file.from = "worker", file'.beat < mem'.started
                 PROVE  file'.stamps.status = "RUNNING" /\ file'.stamps.started = mem'.started
      BY <2>10
    <3>1. file.beat < mem.started
      BY <2>1, <2>3, <2>5, <2>10
    <3>2. file.stamps.status = "RUNNING" /\ file.stamps.started = mem.started
      BY <2>1, <2>3, <3>1
    <3> QED
      BY <2>3, <2>11, <3>2
  <2>15. file'.from # "worker" => main'.at = "write" /\ mem'.started <= main'.age
    BY <2>1, <2>3, <2>5, <2>10, <2>12
  <2> QED
    BY <2>13, <2>14, <2>15
<1> QED
  BY <1>1, <1>2, <1>3, <1>4, <1>5, <1>6, <1>7 DEF Next, SupervisorSteps

(* Whatever the periods and the limits, the cycle the file shows is the    *)
(* one that runs, from two writes and a heartbeat into it (_write_status). *)
THEOREM StatusShowsTheCycle == Spec => []StatusIsOfThisCycle
<1>1. Init => ShownInv
  BY WorkerInvInit DEF ShownInv, Init, Healthy
<1>2. ShownInv /\ [Next]_vars => ShownInv'
  BY WorkerInvStep, ShownStep DEF ShownInv
<1>3. ShownInv => StatusIsOfThisCycle
  <2> SUFFICES ASSUME ShownInv, fault = "none", mem.status = "RUNNING", mem.started > Lag
               PROVE  /\ file.from = "worker" /\ file.stamps.status = "RUNNING"
                      /\ file.stamps.started = mem.started
    BY DEF StatusIsOfThisCycle
  <2> USE Arithmetic, AgesAreNumbers
  <2>1. WorkerInv /\ TypeOK /\ Shape /\ Healthy /\ CycleIsShown
    BY DEF ShownInv, WorkerInv, Healthy, Shape
  <2>2. WaitsAreBounded /\ StampsAreRecent
    BY <2>1 DEF WorkerInv
  <2>3. file.from = "worker"
    BY <2>1, <2>2 DEF CycleIsShown, WaitsAreBounded
  <2>4. file.beat <= Lag
    BY <2>1, <2>2, <2>3 DEF StampsAreRecent, Behind, WaitsAreBounded, Shape, Healthy, TypeOK
  <2> QED
    BY <2>1, <2>3, <2>4 DEF CycleIsShown
<1> QED
  BY <1>1, <1>2, <1>3, PTL DEF Spec

-----------------------------------------------------------------------------
(* A worker that suffers from anything: what the payloads show of the      *)
(* cycle, and what the supervisor makes of it.                             *)

LEMMA Limits ==
  /\ CheckEvery \in Nat /\ NoProgress <= HardLimit /\ HardLimit + CheckEvery < Top
  /\ NoProgress >= Grace /\ NoProgress >= Stale
  /\ HardLimit >= Grace /\ HardLimit >= Stale
BY SupervisionAssumption, LimitsAssumption, Arithmetic DEF SupervisionAssumption, Periods, Top

(* A cycle beyond a limit shows: its payload does, or it is too old.       *)
LEMMA OverdueShows ==
  ASSUME OverrunInv, mem.status = "RUNNING", mem.progress > NoProgress \/ mem.started > HardLimit
  PROVE  RestartReason
<1> USE Arithmetic, Limits, AgesAreNumbers DEF OverrunInv
<1>1. PayloadsShow /\ mem.progress <= mem.started /\ launched \in Nat
  BY DEF PayloadsShow
<1>2. CASE file.from # "worker"
  <2>1. launched > Grace
    BY <1>1, <1>2 DEF PayloadsShow
  <2> QED
    BY <1>2, <2>1 DEF RestartReason
<1>3. CASE file.from = "worker"
  <2>1. Shows(mem, file.stamps, file.beat)
    BY <1>1, <1>3 DEF PayloadsShow
  <2>2. file.beat > Stale \/ (file.stamps.status = "RUNNING" /\ ProgressProblem(file.stamps))
    BY <2>1 DEF Shows, ProgressProblem
  <2> QED
    BY <1>3, <2>2 DEF RestartReason
<1> QED
  BY <1>2, <1>3

(* A payload grows older with the cycle it was taken of. *)
LEMMA OlderShows ==
  ASSUME NEW cycle \in Stamps, NEW stamps \in Stamps, NEW age \in Age, cycle.status = "RUNNING",
         Shows(cycle, stamps, age), cycle.progress < Top, cycle.started < Top
  PROVE  Shows(OlderStamps(cycle), OlderStamps(stamps), Older(age))
<1> USE Arithmetic
<1>1. cycle.progress \in Nat /\ cycle.started \in Nat /\ age \in Nat
  BY DEF Age, Stamps
<1>2. /\ OlderStamps(cycle).progress = cycle.progress + 1
      /\ OlderStamps(cycle).started = cycle.started + 1
  BY <1>1, OlderStampsType DEF Older
<1>3. \A n \in Nat : n < Top /\ Older(age) < n + 1 => age < n
  BY <1>1 DEF Older
<1>4. stamps.status = "RUNNING" =>
        /\ OlderStamps(stamps).status = "RUNNING"
        /\ OlderStamps(stamps).started = Older(stamps.started)
        /\ OlderStamps(stamps).progress = Older(stamps.progress)
  BY OlderStampsType
<1>5. Older(age) < OlderStamps(cycle).started =>
        /\ OlderStamps(stamps).status = "RUNNING"
        /\ OlderStamps(stamps).started = OlderStamps(cycle).started
  <2>1. Older(age) < cycle.started + 1 => age < cycle.started
    BY <1>1, <1>3
  <2>2. Older(cycle.started) = cycle.started + 1
    BY <1>1 DEF Older
  <2> QED
    BY <1>2, <1>4, <2>1, <2>2 DEF Shows
<1>6. Older(age) < OlderStamps(cycle).progress =>
        /\ OlderStamps(stamps).status = "RUNNING"
        /\ OlderStamps(stamps).progress = OlderStamps(cycle).progress
  <2>1. Older(age) < cycle.progress + 1 => age < cycle.progress
    BY <1>1, <1>3
  <2>2. Older(cycle.progress) = cycle.progress + 1
    BY <1>1 DEF Older
  <2> QED
    BY <1>2, <1>4, <2>1, <2>2 DEF Shows
<1> QED
  BY <1>5, <1>6 DEF Shows

(* What the supervisor does not see, and what a resting worker shows. *)
LEMMA NotRunningKeeps ==
  ASSUME OverrunInv, TypeOK', mem'.status # "RUNNING", UNCHANGED sup \/ sup'.age = 0
  PROVE  PayloadsShow' /\ CaughtInTime'
<1>1. PayloadsShow'
  BY DEF PayloadsShow
<1>2. SinceCheck' <= CheckEvery
  BY Limits DEF OverrunInv, CaughtInTime, SinceCheck
<1> QED
  BY <1>1, <1>2 DEF CaughtInTime

LEMMA NothingSeenKeeps ==
  ASSUME OverrunInv, UNCHANGED <<mem, heart, file, launched, sup>>
  PROVE  PayloadsShow' /\ CaughtInTime'
BY DEF OverrunInv, PayloadsShow, CaughtInTime, SinceCheck, Shows

LEMMA OverrunStep == OverrunInv /\ [Next]_vars => OverrunInv'
<1> SUFFICES ASSUME OverrunInv, [Next]_vars PROVE OverrunInv'
  OBVIOUS
<1>1. TypeOK /\ Shape /\ TypeOK' /\ Shape'
  BY TypeStep, ShapeStep DEF OverrunInv
<1> SUFFICES PayloadsShow' /\ CaughtInTime'
  BY <1>1 DEF OverrunInv
<1>2. /\ mem.progress \in Nat /\ mem.started \in Nat /\ sup.age \in Nat /\ main.age \in Nat
      /\ heart.age \in Nat /\ file.beat \in Nat /\ launched \in Nat /\ SinceCheck \in Nat
      /\ mem \in Stamps
  BY <1>1, AgesAreNumbers, Limits DEF TypeOK, Age, SinceCheck
<1>3. /\ PayloadsShow /\ CaughtInTime
  BY DEF OverrunInv
<1> USE Arithmetic, Limits DEF PayloadsShow, processVars, requestVars, Goto
<1>4. CASE Launch \/ Stop
  <2>1. mem'.status # "RUNNING" /\ sup'.age = 0
    BY <1>4 DEF Launch, Stop, EndProcess, Resting
  <2> QED
    BY <1>1, <2>1, NotRunningKeeps
<1>5. ASSUME NEW illness \in Illnesses, FallIll(illness) PROVE PayloadsShow' /\ CaughtInTime'
  <2>1. CASE illness = "dead"
    <3>1. mem'.status # "RUNNING" /\ UNCHANGED sup
      BY <1>5, <2>1 DEF FallIll, EndProcess, Resting
    <3> QED
      BY <1>1, <3>1, NotRunningKeeps
  <2>2. CASE illness # "dead"
    BY <1>5, <2>2, NothingSeenKeeps DEF FallIll
  <2> QED
    BY <2>1, <2>2
<1>6. CASE Queue \/ UNCHANGED vars
  <2>1. UNCHANGED <<mem, heart, file, launched, sup>>
    BY <1>6 DEF Queue, vars
  <2> QED
    BY <2>1, NothingSeenKeeps
<1>7. CASE Check
  <2>1. UNCHANGED <<mem, heart, file, launched>> /\ sup.at = "watch" /\ sup.age >= CheckEvery
    BY <1>7 DEF Check, OnlySupervisor
  <2>2. PayloadsShow'
    BY <1>3, <2>1 DEF Shows
  <2>3. CASE RestartReason
    <3>1. sup'.at = "stop" /\ SinceCheck' = CheckEvery /\ SinceCheck = CheckEvery
      BY <1>2, <1>3, <1>7, <2>1, <2>3 DEF Check, CaughtInTime, SinceCheck
    <3> QED
      BY <1>3, <2>1, <2>2, <3>1 DEF CaughtInTime
  <2>4. CASE ~RestartReason
    <3>1. mem.status = "RUNNING" => mem.progress <= NoProgress /\ mem.started <= HardLimit
      BY <1>2, <2>4, OverdueShows
    <3>2. sup'.at \in {"watch", "delay"} /\ sup'.age = 0
      BY <1>7, <2>4 DEF Check
    <3>3. SinceCheck' \in {0, CheckEvery}
      BY <3>2 DEF SinceCheck
    <3> QED
      BY <1>2, <2>1, <2>2, <3>1, <3>3 DEF CaughtInTime
  <2> QED
    BY <2>3, <2>4
<1>8. CASE MainSteps
  <2> USE DEF OnlyMain
  <2>1. CASE EnterLoop
    BY <1>1, <2>1, NotRunningKeeps DEF EnterLoop, Shape
  <2>2. CASE ReadRequest \/ Wake
    BY <2>2, NothingSeenKeeps DEF ReadRequest, Wake
  <2>3. CASE StartScheduled \/ Unlink \/ UnlinkFails
    <3>1. /\ mem' = [status |-> "RUNNING", started |-> 0, progress |-> 0]
          /\ UNCHANGED <<heart, file, sup, launched>>
      BY <2>3 DEF StartScheduled, Unlink, UnlinkFails, StartCycle
    <3>2. PayloadsShow'
      BY <1>2, <3>1 DEF Shows
    <3> QED
      BY <1>2, <1>3, <3>1, <3>2 DEF CaughtInTime, SinceCheck
  <2>4. CASE Report
    <3>1. /\ mem'.status = mem.status /\ mem'.started = mem.started /\ mem'.progress = 0
          /\ UNCHANGED <<heart, file, sup, launched>>
      BY <1>2, <2>4 DEF Report, Stamps
    <3>2. PayloadsShow'
      BY <1>2, <1>3, <3>1 DEF Shows
    <3> QED
      BY <1>2, <1>3, <3>1, <3>2 DEF CaughtInTime, SinceCheck
  <2>5. CASE FinishCycle
    BY <1>1, <2>5, NotRunningKeeps DEF FinishCycle, Resting
  <2>6. CASE EndWrite
    <3>1. UNCHANGED <<mem, heart, sup, launched>> /\ (file' = Written(mem, main.age) \/ UNCHANGED file)
      BY <2>6 DEF EndWrite, Replace
    <3>2. PayloadsShow'
      BY <1>3, <3>1 DEF Written, Shows
    <3> QED
      BY <1>3, <3>1, <3>2 DEF CaughtInTime, SinceCheck
  <2> QED
    BY <1>8, <2>1, <2>2, <2>3, <2>4, <2>5, <2>6 DEF MainSteps
<1>9. CASE HeartSteps
  <2>1. UNCHANGED <<mem, sup, launched>>
    BY <1>9 DEF HeartSteps, TakePayload, EndBeat, OnlyHeart
  <2>2. CaughtInTime'
    BY <1>3, <2>1 DEF CaughtInTime, SinceCheck
  <2>3. CASE TakePayload
    <3>1. heart'.stamps = mem /\ UNCHANGED file
      BY <2>3 DEF TakePayload
    <3> QED
      BY <1>3, <2>1, <2>2, <3>1 DEF Shows
  <2>4. CASE EndBeat
    <3>1. /\ heart.at = "write" /\ heart'.at = "pause"
          /\ file' = Written(heart.stamps, heart.age) \/ UNCHANGED file
      BY <2>4 DEF EndBeat, Replace
    <3> QED
      BY <1>3, <2>1, <2>2, <3>1 DEF Written, Shows
  <2> QED
    BY <1>9, <2>3, <2>4 DEF HeartSteps
<1>10. CASE Tick
  <2>1. /\ sup.at # "stop" /\ (sup.at = "watch" => ~(sup.age >= CheckEvery))
        /\ sup' = [sup EXCEPT !.age = Older(sup.age)]
    BY <1>10 DEF Tick, SupervisorIsDue
  <2>2. sup.age \in Nat /\ sup'.at = sup.at /\ (sup.at = "watch" => sup'.age = sup.age + 1)
    <3>1. sup.at = "watch" => sup.age < Top
      BY <1>2, <2>1
    <3> QED
      BY <1>1, <1>2, <2>1, <3>1 DEF TypeOK, Older
  <2>3. SinceCheck' <= CheckEvery
    BY <2>1, <2>2 DEF SinceCheck
  <2>4. mem' = OlderStamps(mem) /\ mem \in Stamps /\ mem'.status = mem.status
    <3>1. mem' = OlderStamps(mem)
      BY <1>10 DEF Tick
    <3> QED
      BY <1>2, <3>1, OlderStampsType
  <2> SUFFICES ASSUME mem.status = "RUNNING" PROVE PayloadsShow' /\ CaughtInTime'
    BY <2>3, <2>4 DEF CaughtInTime
  <2>5. sup.at = "watch"
    BY <1>1, <2>1 DEF TypeOK, Shape
  <2>6. /\ mem.progress <= NoProgress + sup.age /\ mem.started <= HardLimit + sup.age
        /\ mem.progress < Top /\ mem.started < Top /\ mem.progress \in Nat /\ mem.started \in Nat
        /\ mem.progress <= mem.started
    <3>1. /\ mem.progress <= NoProgress + sup.age /\ mem.started <= HardLimit + sup.age
          /\ mem.progress <= mem.started
      BY <1>3, <2>5 DEF CaughtInTime, SinceCheck
    <3> QED
      BY <1>2, <2>1, <2>2, <2>5, <3>1
  <2>7. mem'.progress = mem.progress + 1 /\ mem'.started = mem.started + 1
    BY <2>4, <2>6, OlderStampsType DEF Older
  <2>8. CaughtInTime'
    BY <2>2, <2>3, <2>5, <2>6, <2>7 DEF CaughtInTime, SinceCheck
  <2>9. ASSUME heart'.at = "write" PROVE Shows(mem', heart'.stamps, heart'.age)
    <3>1. heart.at = "write" /\ heart.stamps \in Stamps /\ heart.age \in Age
      BY <1>1, <1>10, <2>9 DEF Tick, TypeOK
    <3>2. Shows(mem, heart.stamps, heart.age)
      BY <3>1 DEF OverrunInv
    <3>3. heart'.stamps = OlderStamps(heart.stamps) /\ heart'.age = Older(heart.age)
      BY <1>1, <1>10, <3>1 DEF Tick, TypeOK
    <3> QED
      BY <2>4, <2>6, <3>1, <3>2, <3>3, OlderShows
  <2>10. ASSUME file'.from = "worker" PROVE Shows(mem', file'.stamps, file'.beat)
    <3>1. file.from = "worker" /\ file.stamps \in Stamps /\ file.beat \in Age
      BY <1>1, <1>10, <2>10 DEF Tick, TypeOK
    <3>2. Shows(mem, file.stamps, file.beat)
      BY <3>1 DEF OverrunInv
    <3>3. file'.stamps = OlderStamps(file.stamps) /\ file'.beat = Older(file.beat)
      BY <1>1, <1>10, <3>1 DEF Tick, TypeOK
    <3> QED
      BY <2>4, <2>6, <3>1, <3>2, <3>3, OlderShows
  <2>11. file'.from # "worker" => launched' > Grace \/ mem'.started <= launched'
    <3>1. file'.from # "worker" => file.from # "worker"
      BY <1>1, <1>10 DEF Tick, TypeOK
    <3>2. /\ launched \in Nat
          /\ launched' = IF launched > Grace THEN launched ELSE launched + 1
      BY <1>2, <1>10 DEF Tick
    <3> QED
      BY <2>6, <2>7, <3>1, <3>2 DEF OverrunInv
  <2>12. mem'.progress <= mem'.started
    BY <2>6, <2>7
  <2> QED
    BY <2>8, <2>9, <2>10, <2>11, <2>12
<1> QED
  BY <1>1, <1>4, <1>5, <1>6, <1>7, <1>8, <1>9, <1>10 DEF Next, SupervisorSteps, OverrunInv

(* Whatever happens to a worker, and for all limits of which the shorter   *)
(* ones are those of a silent worker, a cycle beyond its limits is stopped *)
(* at the next check (_restart_reason, running_progress_problem).          *)
THEOREM OverrunsAreCaught == Spec => []OverrunIsBounded
<1> USE Arithmetic, Limits
<1>1. Init => OverrunInv
  BY WorkerInvInit DEF Init, WorkerInv, OverrunInv, PayloadsShow, CaughtInTime, SinceCheck, Resting
<1>2. OverrunInv => OverrunIsBounded
  <2> SUFFICES ASSUME OverrunInv, mem.status = "RUNNING"
               PROVE  /\ mem.progress <= NoProgress + CheckEvery
                      /\ mem.started <= HardLimit + CheckEvery
    BY DEF OverrunIsBounded
  <2>1. /\ mem.progress \in Nat /\ mem.started \in Nat /\ SinceCheck \in Nat
        /\ SinceCheck <= CheckEvery
        /\ mem.progress <= NoProgress + SinceCheck /\ mem.started <= HardLimit + SinceCheck
    BY AgesAreNumbers DEF OverrunInv, CaughtInTime, SinceCheck, TypeOK, Age
  <2> QED
    BY <2>1
<1> QED
  BY <1>1, <1>2, OverrunStep, PTL DEF Spec

(* Every request is later than the last one a cycle was started for, as    *)
(* long as it is in the file or in the worker's hands.                     *)
RequestsAreUnserved ==
  /\ TypeOK /\ served <= queued /\ request <= queued
  /\ request # 0 => request > served
  /\ main.at = "unlink" => served < main.req /\ main.req <= queued

(* A request starts one cycle at most, however often the worker is stopped *)
(* between reading and removing it (_pop_request).                         *)
THEOREM RequestsStartOneCycle == Spec => []RequestServedOnce
<1> USE Arithmetic
<1>1. Init => RequestsAreUnserved
  BY WorkerInvInit DEF WorkerInv, RequestsAreUnserved, Init
<1>2. RequestsAreUnserved /\ [Next]_vars => RequestsAreUnserved'
  <2> SUFFICES ASSUME RequestsAreUnserved, [Next]_vars PROVE RequestsAreUnserved'
    OBVIOUS
  <2>1. TypeOK /\ TypeOK'
    BY TypeStep DEF RequestsAreUnserved
  <2> USE <2>1 DEF RequestsAreUnserved, TypeOK, requestVars, Goto
  <2>2. CASE MainSteps
    <3>1. CASE StartScheduled \/ Unlink \/ UnlinkFails
      <4>1. CASE StartScheduled
        BY <4>1 DEF StartScheduled, StartCycle
      <4>2. CASE Unlink
        BY <4>2 DEF Unlink, StartCycle
      <4>3. CASE UnlinkFails
        BY <4>3 DEF UnlinkFails, StartCycle
      <4> QED
        BY <3>1, <4>1, <4>2, <4>3
    <3>2. CASE ReadRequest
      BY <3>2 DEF ReadRequest
    <3>3. CASE EnterLoop \/ Report \/ FinishCycle \/ EndWrite \/ Wake
      <4>1. main'.at # "unlink" /\ UNCHANGED requestVars
        BY <3>3 DEF EnterLoop, Report, FinishCycle, EndWrite, Wake
      <4> QED
        BY <4>1
    <3> QED
      BY <2>2, <3>1, <3>2, <3>3 DEF MainSteps
  <2>3. CASE HeartSteps \/ Check \/ Tick \/ UNCHANGED vars
    BY <2>3 DEF HeartSteps, TakePayload, EndBeat, Check, Tick, OnlyHeart, OnlySupervisor, vars
  <2>4. CASE Launch \/ Stop \/ \E illness \in Illnesses : FallIll(illness)
    BY <2>4 DEF Launch, Stop, FallIll, EndProcess
  <2>5. CASE Queue
    BY <2>5 DEF Queue
  <2> QED
    BY <2>2, <2>3, <2>4, <2>5 DEF Next, SupervisorSteps
<1>3. RequestsAreUnserved => RequestServedOnce
  BY DEF RequestsAreUnserved, RequestServedOnce
<1> QED
  BY <1>1, <1>2, <1>3, PTL DEF Spec

=============================================================================
