------------------------------ MODULE Sidecar ------------------------------
(***************************************************************************)
(* The three supervisors of the services beside the main worker            *)
(* (tca_supervisor.py, realtime_supervisor.py,                             *)
(* direction_shadow_supervisor.py): each launches one process, looks every *)
(* CHECK_SECONDS at the status file that process writes, stops the process *)
(* when the file says it is sick and launches another.  The realtime one   *)
(* also looks at the quotes and refreshes stale ones over REST.            *)
(*                                                                         *)
(* Time goes from one check to the next.  Ages stop counting at Oldest,    *)
(* which is beyond every limit.  A launched process finds the status file  *)
(* of the one before it; the tca and realtime supervisors judge it by that *)
(* file until it has written its own.                                      *)
(***************************************************************************)
EXTENDS Integers

CONSTANTS
  StaleAfter,          \* STALE_SECONDS, HEARTBEAT_MAX_AGE: of a heartbeat
  StartupGrace,          \* STARTUP_GRACE_SECONDS
  CycleMax,       \* CYCLE_MAX_AGE, IDLE_MAX_AGE
  WarnAge,        \* QUOTE_WARN_SECONDS
  RestartAge,     \* QUOTE_RESTART_SECONDS
  StartChecks,    \* bound: checks a process may take to its first heartbeat, by kind
  MaxFailures       \* bound: processes and streams that fail, REST outages

Kinds == {"tca", "realtime", "direction"}
Oldest == 1 + IF StaleAfter >= CycleMax /\ StaleAfter >= RestartAge THEN StaleAfter
              ELSE IF CycleMax >= RestartAge THEN CycleMax ELSE RestartAge

SidecarAssumption ==
  /\ {StaleAfter, StartupGrace, CycleMax, WarnAge, RestartAge, MaxFailures} \subseteq Nat
  /\ StaleAfter > 0 /\ CycleMax > 0 /\ WarnAge > 0 /\ WarnAge < RestartAge
  /\ StartChecks \in [Kinds -> Nat]
ASSUME SidecarAssumption

VARIABLES
  sidecar,      \* which of the three
  child,        \* the process, the checks it has run, and those it takes to start
  status,       \* the status file: whose it is, age of its heartbeat, its cycle
  tick,         \* a symbol's quote, the stream it comes from, the REST answer
  watcher,      \* the supervisor
  failures

sidecarVars == <<sidecar, child, status, tick, watcher, failures>>

NoStatus == [of |-> "nobody", beat |-> Oldest, phase |-> "IDLE", cycle |-> Oldest]

(* How long a process takes to its first heartbeat is settled when it is   *)
(* launched: nothing in the supervisors bounds it                          *)
Launches == [is : {"starting"}, uptime : {0}, start : 0..StartChecks[sidecar]]

SidecarInit ==
  /\ sidecar \in Kinds
  /\ child \in Launches
  /\ status = NoStatus
  /\ tick \in [age : {Oldest}, symbol : {"valid", "invalid"}, stream : {"flows"}, rest : {"up"}]
  /\ watcher = "sleep"
  /\ failures = 0

Elder(age) == IF age < Oldest THEN age + 1 ELSE Oldest
Quoted == sidecar = "realtime" /\ tick.symbol = "valid" /\ tick.stream = "flows"

-----------------------------------------------------------------------------
(* The process *)

WriteBeat ==
  /\ \/ child.is = "starting" /\ child.uptime >= child.start
     \/ child.is = "stuck"
     \/ child.is = "well" /\ status.beat > 0
  /\ status' = IF child.is = "starting"
               THEN [of |-> "child", beat |-> 0, phase |-> "RUNNING", cycle |-> 0]
               ELSE [status EXCEPT !.beat = 0]
  /\ child' = [child EXCEPT !.is = IF @ = "starting" THEN "well" ELSE @]
  /\ UNCHANGED <<sidecar, tick, watcher, failures>>

(* run_cycle of the direction worker writes its start and its end *)
TurnCycle ==
  /\ sidecar = "direction" /\ child.is = "well"
  /\ status.cycle > 0
  /\ status' = [status EXCEPT !.phase = IF @ = "RUNNING" THEN "IDLE" ELSE "RUNNING",
                              !.beat = 0, !.cycle = 0]
  /\ UNCHANGED <<sidecar, child, tick, watcher, failures>>

QuoteArrives ==
  /\ Quoted /\ child.is = "well" /\ tick.age > 0
  /\ tick' = [tick EXCEPT !.age = 0]
  /\ UNCHANGED <<sidecar, child, status, watcher, failures>>

(* It exits; all of it hangs; or only its cycle does and the thread that   *)
(* writes the heartbeat goes on                                            *)
ChildFails(how) ==
  /\ child.is \in {"starting", "well"} /\ how \in {"gone", "hung", "stuck"}
  /\ how = "stuck" => sidecar = "direction" /\ child.is = "well"
  /\ failures < MaxFailures /\ failures' = failures + 1
  /\ child' = [child EXCEPT !.is = how]
  /\ UNCHANGED <<sidecar, status, tick, watcher>>

(* the exchange falls silent on a symbol, REST answers no more *)
StreamSilent ==
  /\ Quoted
  /\ failures < MaxFailures /\ failures' = failures + 1
  /\ tick' = [tick EXCEPT !.stream = "silent"]
  /\ UNCHANGED <<sidecar, child, status, watcher>>

RestDown ==
  /\ sidecar = "realtime" /\ tick.rest = "up"
  /\ failures < MaxFailures /\ failures' = failures + 1
  /\ tick' = [tick EXCEPT !.rest = "down"]
  /\ UNCHANGED <<sidecar, child, status, watcher>>

RestUp ==
  /\ tick.rest = "down"
  /\ tick' = [tick EXCEPT !.rest = "up"]
  /\ UNCHANGED <<sidecar, child, status, watcher, failures>>

-----------------------------------------------------------------------------
(* The supervisor *)

(* One interval, whether or not a process that starts has written.  A     *)
(* process that is well has written and received within it, and no cycle   *)
(* of it takes longer than its limit                                       *)
SleepToCheck ==
  /\ watcher = "sleep"
  /\ child.is = "starting" => child.uptime < child.start
  /\ child.is = "well" => /\ status.beat = 0 /\ (Quoted => tick.age = 0)
                          /\ sidecar = "direction" => status.cycle < CycleMax
  /\ child.is = "stuck" => status.beat = 0
  /\ watcher' = "check"
  /\ child' = [child EXCEPT !.uptime = Elder(@)]
  /\ status' = [status EXCEPT !.beat = Elder(@), !.cycle = Elder(@)]
  /\ tick' = [tick EXCEPT !.age = Elder(@)]
  /\ UNCHANGED <<sidecar, failures>>

(* tca_supervisor, and the first half of realtime_supervisor *)
HeartbeatStale ==
  IF status.of = "nobody" THEN child.uptime >= StaleAfter ELSE status.beat > StaleAfter

(* mutant: no grace for a process that has not written yet *)
ReasonWithoutGrace == status.of # "child" \/ status.beat > StaleAfter \/ status.cycle > CycleMax

(* direction_shadow_supervisor.restart_reason *)
DirectionReason ==
  /\ child.uptime >= StartupGrace
  /\ status.of # "child" \/ status.beat > StaleAfter \/ status.cycle > CycleMax

Recovered == tick.age >= WarnAge /\ tick.symbol = "valid" /\ tick.rest = "up"
(* an invalid symbol is told from a failure by the answer *)
QuotesLost == tick.age >= RestartAge /\ tick.rest = "down"

Watch(sick) == watcher' = IF child.is = "gone" \/ sick THEN "stop" ELSE "sleep"

CheckTca ==
  /\ sidecar = "tca" /\ watcher = "check"
  /\ Watch(HeartbeatStale)
  /\ UNCHANGED <<sidecar, child, status, tick, failures>>

CheckRealtime ==
  /\ sidecar = "realtime" /\ watcher = "check"
  /\ IF HeartbeatStale \/ status.of = "nobody" \/ child.uptime < WarnAge
     THEN Watch(HeartbeatStale) /\ UNCHANGED tick
     ELSE /\ Watch(QuotesLost)
          /\ tick' = IF Recovered THEN [tick EXCEPT !.age = 0] ELSE tick
  /\ UNCHANGED <<sidecar, child, status, failures>>

CheckDirection ==
  /\ sidecar = "direction" /\ watcher = "check"
  /\ Watch(DirectionReason)
  /\ UNCHANGED <<sidecar, child, status, tick, failures>>

(* _stop, a few seconds, and a new process that subscribes again *)
LaunchSidecar ==
  /\ watcher = "stop"
  /\ watcher' = "sleep"
  /\ child' \in Launches
  /\ status' = [status EXCEPT !.of = IF @ = "child" THEN "previous" ELSE @]
  /\ tick' = [tick EXCEPT !.stream = "flows"]
  /\ UNCHANGED <<sidecar, failures>>

SidecarNext ==
  \/ WriteBeat
  \/ TurnCycle
  \/ QuoteArrives
  \/ \E how \in {"gone", "hung", "stuck"} : ChildFails(how)
  \/ StreamSilent
  \/ RestDown
  \/ RestUp
  \/ SleepToCheck
  \/ CheckTca
  \/ CheckRealtime
  \/ CheckDirection
  \/ LaunchSidecar

(* Supervisors and processes that are well go on; an outage of REST ends   *)
SidecarFairness ==
  /\ WF_sidecarVars(WriteBeat) /\ WF_sidecarVars(TurnCycle) /\ WF_sidecarVars(QuoteArrives)
  /\ WF_sidecarVars(RestUp)
  /\ WF_sidecarVars(SleepToCheck) /\ WF_sidecarVars(LaunchSidecar)
  /\ WF_sidecarVars(CheckTca \/ CheckRealtime \/ CheckDirection)

SidecarSpec == SidecarInit /\ [][SidecarNext]_sidecarVars /\ SidecarFairness

-----------------------------------------------------------------------------
SidecarTypeOK ==
  /\ sidecar \in Kinds
  /\ child \in [is : {"starting", "well", "hung", "stuck", "gone"}, uptime : 0..Oldest,
               start : 0..StartChecks[sidecar]]
  /\ status \in [of : {"nobody", "child", "previous"}, beat : 0..Oldest, phase : {"RUNNING", "IDLE"},
                 cycle : 0..Oldest]
  /\ tick \in [age : 0..Oldest, symbol : {"valid", "invalid"}, stream : {"flows", "silent"},
               rest : {"up", "down"}]
  /\ watcher \in {"sleep", "check", "stop"}
  /\ failures \in 0..MaxFailures
=============================================================================
