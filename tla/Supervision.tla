----------------------------- MODULE Supervision -----------------------------
(***************************************************************************)
(* The bar worker (live_worker_v8.py) and the supervisor that starts, and  *)
(* stops, it (worker_supervisor_v8.py).  They share one file,              *)
(* worker_status.json: two threads of the worker replace it, the main loop *)
(* and the heartbeat; the supervisor reads it.  The dashboard leaves its   *)
(* manual requests in another, worker_request.json.                        *)
(*                                                                         *)
(* A time stamp is modelled by its age, in units of time that Tick lets    *)
(* pass for everything at once.  The steps of a process take no time but   *)
(* the waits between them do: Tick waits for a process that is due.        *)
(***************************************************************************)
EXTENDS Integers

CONSTANTS
  CheckEvery,   \* CHECK_SECONDS
  Grace,        \* MISSING_STATUS_GRACE_SECONDS
  Stale,        \* HEARTBEAT_STALE_SECONDS
  NoProgress,   \* NO_PROGRESS_TIMEOUT_SECONDS
  HardLimit,    \* CYCLE_HARD_LIMIT_SECONDS
  Delay,        \* RESTART_DELAY_SECONDS
  Beat,         \* HEARTBEAT_SECONDS
  Poll,         \* POLL_SECONDS
  Boot,         \* the longest a healthy worker takes to its main loop
  Write,        \* the longest one write of the status file takes
  Unit,         \* the longest a healthy cycle goes without a report
  Cycle,        \* when a healthy cycle has nothing left to report
  MaxFaults,    \* bound: workers that fall ill
  MaxRequests   \* bound: requests queued

Periods == {CheckEvery, Grace, Stale, NoProgress, HardLimit, Delay, Beat, Poll, Boot, Write,
            Unit, Cycle}

(* how long a stamp of the worker may take to show in the file: the write  *)
(* that brings it can be undone by one that started before it, and the     *)
(* next heartbeat is written after a pause                                 *)
Lag == Write + Beat + Write

(* Each limit leaves room for what a healthy worker may take *)
SupervisionAssumption ==
  /\ HardLimit \in Nat /\ Periods \subseteq 1..HardLimit
  /\ Grace >= Boot + Write
  /\ Stale >= Lag
  /\ NoProgress >= Unit + Lag /\ Unit >= Write
  /\ HardLimit >= Cycle + Write + Lag
  /\ MaxFaults \in Nat /\ MaxRequests \in Nat
ASSUME SupervisionAssumption

(* A process that leaves no trace at all is noticed before one whose cycle *)
(* stands still                                                            *)
ASSUME LimitsAssumption == NoProgress >= Grace /\ NoProgress >= Stale

VARIABLES
  file,       \* worker_status.json
  mem,        \* the worker's status and cycle_progress, under status_lock
  main,       \* the worker's main loop: where it is, for how long, and the request it has read
  heart,      \* the heartbeat thread: the payload it is writing, or its pause
  sup,        \* the supervisor: where it is, for how long
  launched,   \* the age of the process, up to the end of its grace
  fault,      \* what is wrong with the process
  faults,     \* how many processes have fallen ill
  request,    \* worker_request.json, or 0
  queued,     \* how many requests have been queued
  served      \* the last request a cycle was started for

vars == <<file, mem, main, heart, sup, launched, fault, faults, request, queued, served>>

Top == HardLimit + CheckEvery + Lag + 2   \* an age beyond every limit
Age == 0..Top

(* STARTING, ONLINE, DEGRADED and ERROR are one: no cycle is running *)
Stamps == [status : {"RUNNING", "RESTING"}, started : Age, progress : Age]
Resting == [status |-> "RESTING", started |-> 0, progress |-> 0]

(* a payload is a copy of the stamps with heartbeat_at, here how old it is *)
Written(stamps, beat) == [from |-> "worker", stamps |-> stamps, beat |-> beat]
Unread(from) == [from |-> from, stamps |-> Resting, beat |-> 0]

Illnesses == {"stuck", "runaway", "mute", "frozen", "dead"}

TypeOK ==
  /\ file \in [from : {"missing", "earlier", "worker"}, stamps : Stamps, beat : Age]
  /\ mem \in Stamps
  /\ main \in [at : {"down", "boot", "top", "unlink", "work", "write", "sleep"},
               age : Age, req : 0..MaxRequests]
  /\ heart \in [at : {"down", "pause", "write"}, age : Age, stamps : Stamps]
  /\ sup \in [at : {"watch", "stop", "delay"}, age : Age]
  /\ launched \in Age
  /\ fault \in Illnesses \cup {"none"} /\ faults \in 0..MaxFaults
  /\ {request, queued, served} \subseteq 0..MaxRequests

Init ==
  /\ \E from \in {"missing", "earlier"} : file = Unread(from)
  /\ mem = Resting
  /\ main = [at |-> "down", age |-> 0, req |-> 0]
  /\ heart = [at |-> "down", age |-> 0, stamps |-> Resting]
  /\ sup = [at |-> "delay", age |-> Delay]
  /\ launched = 0 /\ fault = "none" /\ faults = 0
  /\ request = 0 /\ queued = 0 /\ served = 0

processVars == <<launched, fault, faults>>
requestVars == <<request, queued, served>>

-----------------------------------------------------------------------------
(* The main loop. *)

Alive == main.at # "down" /\ fault # "frozen"
Working == Alive /\ main.at = "work" /\ fault # "stuck"

Goto(at) == main' = [at |-> at, age |-> 0, req |-> 0]
OnlyMain == UNCHANGED <<heart, sup, processVars>>

(* imports and AutoOrchestratorV8 are done: the heartbeat thread starts,   *)
(* and writes at once                                                      *)
EnterLoop ==
  /\ Alive /\ main.at = "boot"
  /\ Goto("top")
  /\ heart' = [at |-> "pause", age |-> Beat, stamps |-> Resting]
  /\ UNCHANGED <<file, mem, sup, processVars, requestVars>>

(* _pop_request, as far as the file's content *)
ReadRequest ==
  /\ Alive /\ main.at = "top" /\ request # 0
  /\ main' = [at |-> "unlink", age |-> 0, req |-> request]
  /\ UNCHANGED <<file, mem, requestVars>> /\ OnlyMain

(* The cycle starts, and _write_status takes its payload under the lock *)
StartCycle(req) ==
  /\ mem' = [status |-> "RUNNING", started |-> 0, progress |-> 0]
  /\ Goto("write")
  /\ served' = IF req = 0 THEN served ELSE req
  /\ UNCHANGED <<file, queued>> /\ OnlyMain

StartScheduled ==
  /\ Alive /\ main.at = "top" /\ request = 0
  /\ StartCycle(0)
  /\ UNCHANGED request

(* Mutant: the request file is left where it is *)
UnlinkNothing ==
  /\ Alive /\ main.at = "unlink"
  /\ StartCycle(main.req)
  /\ UNCHANGED request

(* The file that is unlinked is the one that is there now *)
Unlink ==
  /\ Alive /\ main.at = "unlink"
  /\ StartCycle(main.req)
  /\ request' = 0

(* WORKER_REQUEST_ERROR: the request waits for the next cycle *)
UnlinkFails ==
  /\ Alive /\ main.at = "unlink" /\ fault = "mute"
  /\ StartCycle(0)
  /\ UNCHANGED request

(* A healthy cycle has only so much to do *)
CycleIsOver == mem.started >= Cycle /\ fault # "runaway"

(* _report_progress, from within full_cycle and between the later stages *)
Report ==
  /\ Working /\ ~CycleIsOver
  /\ mem' = [mem EXCEPT !.progress = 0]
  /\ Goto("write")
  /\ UNCHANGED <<file, requestVars>> /\ OnlyMain

(* The end of a cycle that worked (ONLINE, DEGRADED) or raised (ERROR) *)
FinishCycle ==
  /\ Working /\ fault # "runaway"
  /\ mem' = Resting
  /\ Goto("write")
  /\ UNCHANGED <<file, requestVars>> /\ OnlyMain

(* os.replace, outside the lock: the payload is as old as the write.  A    *)
(* write that fails is reported and forgotten.                             *)
Replace(stamps, age) ==
  \/ file' = Written(stamps, age)
  \/ fault = "mute" /\ UNCHANGED file

EndWrite ==
  /\ Alive /\ main.at = "write"
  /\ Replace(mem, main.age)
  /\ Goto(IF mem.status = "RUNNING" THEN "work" ELSE "sleep")
  /\ UNCHANGED <<mem, requestVars>> /\ OnlyMain

(* _sleep_until_due *)
Wake ==
  /\ Alive /\ main.at = "sleep"
  /\ request # 0 \/ main.age >= Poll
  /\ Goto("top")
  /\ UNCHANGED <<file, mem, requestVars>> /\ OnlyMain

-----------------------------------------------------------------------------
(* The heartbeat thread. *)

OnlyHeart == UNCHANGED <<mem, main, sup, processVars, requestVars>>

(* Mutant: the heartbeat counts as progress *)
TakeRenewed ==
  /\ Alive /\ heart.at = "pause" /\ heart.age >= Beat
  /\ heart' = [at |-> "write", age |-> 0, stamps |-> [mem EXCEPT !.progress = 0]]
  /\ UNCHANGED file /\ OnlyHeart

(* Mutant: the heartbeat renews the payload it finds in the file *)
TakeFromFile ==
  /\ Alive /\ heart.at = "pause" /\ heart.age >= Beat
  /\ heart' = [at |-> "write", age |-> 0, stamps |-> file.stamps]
  /\ UNCHANGED file /\ OnlyHeart

(* _write_status, under the lock *)
TakePayload ==
  /\ Alive /\ heart.at = "pause" /\ heart.age >= Beat
  /\ heart' = [at |-> "write", age |-> 0, stamps |-> mem]
  /\ UNCHANGED file /\ OnlyHeart

EndBeat ==
  /\ Alive /\ heart.at = "write"
  /\ Replace(heart.stamps, heart.age)
  /\ heart' = [at |-> "pause", age |-> 0, stamps |-> Resting]
  /\ OnlyHeart

-----------------------------------------------------------------------------
(* The supervisor. *)

OnlySupervisor == UNCHANGED <<file, mem, main, heart, processVars, requestVars>>

Launch ==
  /\ sup.at = "delay" /\ sup.age >= Delay
  /\ file' = IF file.from = "missing" THEN file ELSE Unread("earlier")
  /\ Goto("boot")
  /\ mem' = Resting
  /\ sup' = [at |-> "watch", age |-> 0]
  /\ launched' = 0 /\ fault' = "none"
  /\ UNCHANGED <<heart, faults, requestVars>>

(* running_progress_problem *)
ProgressProblem(stamps) ==
  \/ stamps.started > HardLimit
  \/ stamps.progress > stamps.started
  \/ stamps.progress > NoProgress

(* Mutant: the file of an earlier process counts, as in the supervisors    *)
(* of the other workers                                                    *)
ReasonWithoutPid ==
  \/ file.from = "missing" /\ launched > Grace
  \/ file.from = "earlier"
  \/ file.from = "worker" /\ file.beat > Stale
  \/ file.from = "worker" /\ file.stamps.status = "RUNNING" /\ ProgressProblem(file.stamps)

(* Mutant: only the progress of the cycle counts, as if only a live worker *)
(* could have a status file                                                *)
ReasonWithoutHeartbeat ==
  \/ file.from # "worker" /\ launched > Grace
  \/ file.from = "worker" /\ file.stamps.status = "RUNNING" /\ ProgressProblem(file.stamps)

(* _restart_reason *)
RestartReason ==
  \/ file.from # "worker" /\ launched > Grace
  \/ file.from = "worker" /\ file.beat > Stale
  \/ file.from = "worker" /\ file.stamps.status = "RUNNING" /\ ProgressProblem(file.stamps)

(* Mutant: an exited worker is waited for *)
CheckReasonOnly ==
  /\ sup.at = "watch" /\ sup.age >= CheckEvery
  /\ sup' = [at |-> IF RestartReason /\ main.at # "down" THEN "stop" ELSE "watch", age |-> 0]
  /\ OnlySupervisor

(* The worker is looked at once it has been read about, so that a worker   *)
(* that has exited is left at the first check without a reason             *)
Check ==
  /\ sup.at = "watch" /\ sup.age >= CheckEvery
  /\ sup' = [at |-> IF RestartReason THEN "stop" ELSE IF main.at = "down" THEN "delay" ELSE "watch",
             age |-> 0]
  /\ OnlySupervisor

EndProcess ==
  /\ Goto("down")
  /\ heart' = [at |-> "down", age |-> 0, stamps |-> Resting]
  /\ mem' = Resting

(* _stop: terminated, or killed if that does not help; what a thread was   *)
(* writing is never moved into place                                       *)
Stop ==
  /\ sup.at = "stop"
  /\ EndProcess
  /\ sup' = [at |-> "delay", age |-> 0]
  /\ UNCHANGED <<file, processVars, requestVars>>

-----------------------------------------------------------------------------
(* What goes wrong in a worker, at most one thing in each process: the     *)
(* cycle is stuck, or reports without end; its disk refuses writes; all of *)
(* it stops; or it exits.                                                  *)
FallIll(illness) ==
  /\ fault = "none" /\ main.at # "down" /\ faults < MaxFaults
  /\ fault' = illness /\ faults' = faults + 1
  /\ illness \in {"stuck", "runaway"} => main.at = "work"
  /\ IF illness = "dead" THEN EndProcess ELSE UNCHANGED <<main, heart, mem>>
  /\ UNCHANGED <<file, sup, launched, requestVars>>

(* _queue_worker_request of the dashboard: a later request replaces an     *)
(* earlier one                                                             *)
Queue ==
  /\ queued < MaxRequests
  /\ queued' = queued + 1 /\ request' = queued + 1
  /\ UNCHANGED <<file, mem, main, heart, sup, processVars, served>>

-----------------------------------------------------------------------------
(* Time passes when nobody is due. *)

MainIsDue ==
  \/ main.at = "boot" /\ main.age >= Boot
  \/ main.at \in {"top", "unlink"}
  \/ main.at = "work" /\ fault # "stuck" /\ (mem.progress >= Unit \/ CycleIsOver)
  \/ main.at = "write" /\ main.age >= Write
  \/ main.at = "sleep" /\ (main.age >= Poll \/ request # 0)

HeartIsDue ==
  \/ heart.at = "pause" /\ heart.age >= Beat
  \/ heart.at = "write" /\ heart.age >= Write

SupervisorIsDue ==
  \/ sup.at = "watch" /\ sup.age >= CheckEvery
  \/ sup.at = "stop"
  \/ sup.at = "delay" /\ sup.age >= Delay

Older(age) == IF age < Top THEN age + 1 ELSE age
OlderStamps(stamps) ==
  IF stamps.status = "RUNNING" THEN [stamps EXCEPT !.started = Older(@), !.progress = Older(@)] ELSE stamps

(* The stamp of a file nobody would read, and the time of a thread that    *)
(* waits for nothing, need no age.                                         *)
Tick ==
  /\ ~SupervisorIsDue
  /\ Alive => ~MainIsDue /\ ~HeartIsDue
  /\ file' = IF file.from # "worker" THEN file
             ELSE [file EXCEPT !.stamps = OlderStamps(@), !.beat = Older(@)]
  /\ mem' = OlderStamps(mem)
  /\ main' = IF main.at \in {"boot", "write", "sleep"} THEN [main EXCEPT !.age = Older(@)] ELSE main
  /\ heart' = IF heart.at = "down" THEN heart
              ELSE [heart EXCEPT !.age = Older(@), !.stamps = OlderStamps(@)]
  /\ sup' = [sup EXCEPT !.age = Older(@)]
  /\ launched' = IF launched > Grace THEN launched ELSE launched + 1
  /\ UNCHANGED <<fault, faults, requestVars>>

-----------------------------------------------------------------------------
MainSteps ==
  \/ EnterLoop \/ ReadRequest \/ StartScheduled \/ Unlink \/ UnlinkFails
  \/ Report \/ FinishCycle \/ EndWrite \/ Wake
HeartSteps == TakePayload \/ EndBeat
SupervisorSteps == Launch \/ Check \/ Stop

Next ==
  \/ MainSteps \/ HeartSteps \/ SupervisorSteps
  \/ \E illness \in Illnesses : FallIll(illness)
  \/ Queue
  \/ Tick

(* Time passes, and what is due is done *)
Fairness ==
  /\ WF_vars(Tick)
  /\ WF_vars(MainSteps) /\ WF_vars(HeartSteps) /\ WF_vars(SupervisorSteps)

Spec == Init /\ [][Next]_vars
FairSpec == Spec /\ Fairness

-----------------------------------------------------------------------------
(* Why a healthy worker is left alone: each wait is bounded, and so is what *)
(* a payload can be behind by the time the file shows it.                  *)

(* The places of the three programs go together *)
Shape ==
  /\ main.at \in {"down", "boot"} <=> heart.at = "down"
  /\ sup.at = "delay" => main.at = "down"
  /\ main.at = "down" /\ fault = "none" => sup.at = "delay"
  /\ main.at = "boot" => file.from # "worker"
  /\ main.at = "work" => mem.status = "RUNNING"
  /\ mem.status = "RUNNING" => main.at \in {"work", "write"}

Healthy == fault = "none" /\ main.at # "down"

WaitsAreBounded ==
  /\ main.at = "boot" => launched <= main.age /\ main.age <= Boot
  /\ main.at = "write" => main.age <= Write
  /\ heart.at = "pause" => heart.age <= Beat
  /\ heart.at = "write" => heart.age <= Write

(* Before the first payload is in place, the heartbeat is about to write it *)
FirstStatusIsDue ==
  file.from # "worker" /\ main.at # "boot" =>
    \/ heart.at = "pause" /\ heart.age >= Beat /\ launched <= Boot
    \/ heart.at = "write" /\ launched <= Boot + heart.age

(* How far the file may be behind at this point of the heartbeat *)
Behind == Write + IF heart.at = "write" THEN Beat + heart.age ELSE heart.age

(* stamps that were good ones no more than so long ago *)
Within(stamps, behind) ==
  stamps.status = "RUNNING" =>
    /\ stamps.progress <= stamps.started
    /\ stamps.progress <= Unit + behind
    /\ stamps.started <= Cycle + Write + behind

StampsAreRecent ==
  /\ Within(mem, 0)
  /\ main.at = "write" /\ mem.status = "RUNNING" =>
       mem.progress <= main.age /\ mem.started <= Cycle + main.age
  /\ heart.at = "write" => Within(heart.stamps, heart.age)
  /\ file.from = "worker" => Within(file.stamps, Behind) /\ file.beat <= Behind

WorkerInv ==
  /\ TypeOK /\ Shape
  /\ Healthy => WaitsAreBounded /\ FirstStatusIsDue /\ StampsAreRecent
  /\ sup.at = "stop" => fault # "none"

(* A payload taken since the cycle began shows that cycle; before the first *)
(* one is in place, the cycle has only just begun                          *)
CycleIsShown ==
  mem.status = "RUNNING" =>
    /\ heart.at = "write" /\ heart.age < mem.started =>
         heart.stamps.status = "RUNNING" /\ heart.stamps.started = mem.started
    /\ file.from = "worker" /\ file.beat < mem.started =>
         file.stamps.status = "RUNNING" /\ file.stamps.started = mem.started
    /\ file.from # "worker" => main.at = "write" /\ mem.started <= main.age

ShownInv == WorkerInv /\ (Healthy => CycleIsShown)

(* Sick or not: a payload younger than the cycle shows the cycle, and one  *)
(* younger than the last report shows that report                          *)
Shows(cycle, stamps, age) ==
  /\ age < cycle.started => stamps.status = "RUNNING" /\ stamps.started = cycle.started
  /\ age < cycle.progress => stamps.status = "RUNNING" /\ stamps.progress = cycle.progress

PayloadsShow ==
  mem.status = "RUNNING" =>
    /\ mem.progress <= mem.started
    /\ heart.at = "write" => Shows(mem, heart.stamps, heart.age)
    /\ file.from = "worker" => Shows(mem, file.stamps, file.beat)
    /\ file.from # "worker" => launched > Grace \/ mem.started <= launched

(* so that what is overdue was not overdue at the last check *)
SinceCheck == IF sup.at = "watch" THEN sup.age ELSE CheckEvery
CaughtInTime ==
  /\ SinceCheck <= CheckEvery
  /\ mem.status = "RUNNING" =>
       mem.progress <= NoProgress + SinceCheck /\ mem.started <= HardLimit + SinceCheck

OverrunInv == TypeOK /\ Shape /\ PayloadsShow /\ CaughtInTime

-----------------------------------------------------------------------------
(* A worker is stopped only when something is wrong with it: not because   *)
(* its predecessor's file is still there, not in a long cycle that makes   *)
(* progress, not because two writes of the status file crossed             *)
(* (_restart_reason, running_progress_problem).                            *)
OnlySickAreStopped == sup.at = "stop" => fault # "none"

(* No cycle outlives a limit by more than the time between two checks,     *)
(* whatever the worker suffers from and however fresh its heartbeat is     *)
(* (running_progress_problem: heartbeats do not renew progress, progress   *)
(* does not renew the ceiling).                                            *)
OverrunIsBounded ==
  main.at # "down" /\ mem.status = "RUNNING" =>
    /\ mem.progress <= NoProgress + CheckEvery
    /\ mem.started <= HardLimit + CheckEvery

(* Once a healthy cycle is older than a heartbeat and two writes, the file *)
(* shows that cycle and no older one, even if an older payload replaced    *)
(* the first one (_write_status).                                          *)
StatusIsOfThisCycle ==
  (fault = "none" /\ mem.status = "RUNNING" /\ mem.started > Lag) =>
    /\ file.from = "worker" /\ file.stamps.status = "RUNNING"
    /\ file.stamps.started = mem.started

(* A request starts one cycle at most, whatever happens to the worker that *)
(* read it (_pop_request).                                                 *)
RequestServedOnce == main.at = "unlink" => main.req > served

(* As long as workers do not fall ill forever, cycle after cycle is begun  *)
(* and ended (main of both programs).                                      *)
CyclesGoOn == []<>(mem.status = "RUNNING") /\ []<>(main.at = "sleep")

(* A worker that will make no progress any more is replaced               *)
(* (_restart_reason).                                                      *)
SickAreReplaced == (fault \notin {"none", "mute"}) ~> (fault = "none")

(* docs/runtime_progress.md: "Heartbeat and main-loop progress writes are  *)
(* serialized through one lock so their atomic temporary-file replacements *)
(* cannot race": a status never replaces one with a later heartbeat        *)
(* (_write_status).                                                        *)
StatusNeverGoesBack ==
  [][ Tick \/ (file.from = "worker" /\ file'.from = "worker" => file'.beat <= file.beat) ]_vars
=============================================================================
