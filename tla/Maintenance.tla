------------------------------ MODULE Maintenance ------------------------------
(***************************************************************************)
(* The pause an operator takes before a deploy (ops/prepare_deploy.py):    *)
(* every program that writes a database is stopped by a signal, every      *)
(* database is copied to the persistent volume, and the processes stay     *)
(* stopped while the operator deploys.  A guardian in a session of its own *)
(* continues them when the lease is over, whatever became of the operator. *)
(* A process is known by its pid and its start time: pids are used again.  *)
(*                                                                         *)
(* The clock counts in a unit of which the work budget and the lease are   *)
(* whole numbers.  The sixteen signals of one loop are sent at once as far *)
(* as the clock goes.  The comparison of a start time and the signal that  *)
(* follows it are one step: a pid that is given to another process between *)
(* these two system calls is left out.                                     *)
(***************************************************************************)
EXTENDS Integers, Sequences, FiniteSets

CONSTANTS
  Programs,       \* PROGRAMS; the processes, by the pid they were found under
  Databases,      \* DATABASES, in the order they are captured
  Work,           \* WORK_SECONDS
  Lease,          \* LEASE_SECONDS
  Ceiling,        \* bound: the clock
  MaxWrites,      \* bound: transactions of a database
  MaxDeaths,      \* bound: processes that die
  MaxAttempts     \* bound: times the operator starts the tool

MaintenanceAssumption ==
  /\ Databases \in Seq(STRING)
  /\ Work \in Nat \ {0} /\ Lease \in Nat /\ Work < Lease /\ Ceiling \in Nat
  /\ MaxWrites \in Nat /\ MaxDeaths \in Nat /\ MaxAttempts \in Nat
ASSUME MaintenanceAssumption

VARIABLES
  time,
  process,      \* the process at a pid: when it started, what it does
  version,      \* commits of a database
  operator,     \* the tool: where it is, the processes it found, its deadline
  captured,     \* the copy of a database on the volume
  frozen,       \* history: the databases when the last process stopped
  leases,       \* the guardians that still wait
  deaths,
  attempts

maintenanceVars ==
  <<time, process, version, operator, captured, frozen, leases, deaths, attempts>>

Names == {Databases[i] : i \in DOMAIN Databases}

NoOne == [p \in Programs |-> 0]

AtRest == [at |-> "idle", items |-> NoOne, deadline |-> 0, left |-> Programs, next |-> 1]

MaintenanceInit ==
  /\ time = 0
  /\ process = [p \in Programs |-> [started |-> 1, mode |-> "running"]]
  /\ version = [d \in Names |-> 0]
  /\ operator = AtRest
  /\ captured = [d \in Names |-> 0]
  /\ frozen = [d \in Names |-> 0]
  /\ leases = {}
  /\ deaths = 0
  /\ attempts = 0

-----------------------------------------------------------------------------
(* The deployment *)

(* some program that is not stopped writes *)
Write(d) ==
  /\ \E p \in Programs : process[p].mode = "running"
  /\ version[d] < MaxWrites
  /\ version' = [version EXCEPT ![d] = @ + 1]
  /\ UNCHANGED <<time, process, operator, captured, frozen, leases, deaths, attempts>>

Die(p) ==
  /\ process[p].mode # "gone"
  /\ deaths < MaxDeaths /\ deaths' = deaths + 1
  /\ process' = [process EXCEPT ![p] = [started |-> process[p].started, mode |-> "gone"]]
  /\ UNCHANGED <<time, version, operator, captured, frozen, leases, attempts>>

(* its supervisor starts it again, or its pid goes to another process *)
Relaunch(p) ==
  /\ process[p].mode = "gone"
  /\ process' = [process EXCEPT ![p] = [started |-> process[p].started + 1, mode |-> "running"]]
  /\ UNCHANGED <<time, version, operator, captured, frozen, leases, deaths, attempts>>

(* no tick while signals are sent, nor while a guardian is due *)
Tick ==
  /\ time < Ceiling
  /\ operator.at \notin {"pause", "paused", "abort"}
  /\ \A l \in leases : time < l.until
  /\ time' = time + 1
  /\ UNCHANGED <<process, version, operator, captured, frozen, leases, deaths, attempts>>

-----------------------------------------------------------------------------
(* The tool *)

(* mutant: known by its pid alone *)
SamePid(items, p) == process[p].mode # "gone"

(* the process found under p is still the one at that pid *)
Same(items, p) == process[p].mode # "gone" /\ process[p].started = items[p]

(* resume: SIGCONT to those that are still who they were *)
Resumed(items) ==
  [p \in Programs |-> IF Same(items, p)
                      THEN [started |-> process[p].started, mode |-> "running"]
                      ELSE process[p]]

(* mutant: only the budget is looked at *)
WithinBudget == time < operator.deadline

(* guard *)
AllPaused ==
  /\ time < operator.deadline
  /\ \A p \in Programs : Same(operator.items, p) /\ process[p].mode = "stopped"

(* discover refuses programs that are missing or stopped; then the lease   *)
(* is written and the guardian started                                     *)
Discover ==
  /\ operator.at \in {"idle", "ready"}
  /\ attempts < MaxAttempts /\ attempts' = attempts + 1
  /\ time + Lease <= Ceiling
  /\ \A p \in Programs : process[p].mode = "running"
  /\ LET items == [p \in Programs |-> process[p].started]
     IN  /\ operator' = [at |-> "pause", items |-> items, deadline |-> time + Work,
                         left |-> Programs, next |-> 1]
         /\ leases' = leases \union {[items |-> items, until |-> time + Lease]}
  /\ UNCHANGED <<time, process, version, captured, frozen, deaths>>

PauseOne(p) ==
  /\ operator.at = "pause" /\ p \in operator.left
  /\ IF Same(operator.items, p)
     THEN /\ process' = [process EXCEPT ![p] = [started |-> process[p].started,
                                                mode |-> "stopped"]]
          /\ operator' = [operator EXCEPT !.at = IF operator.left = {p} THEN "paused" ELSE "pause",
                                          !.left = @ \ {p}]
     ELSE /\ operator' = [operator EXCEPT !.at = "abort"]
          /\ UNCHANGED process
  /\ UNCHANGED <<time, version, captured, frozen, leases, deaths, attempts>>

(* a step of the tool that calls guard first *)
Guarded(at, next) ==
  /\ operator.at = at
  /\ operator' = IF AllPaused THEN next ELSE [operator EXCEPT !.at = "abort"]

AllStopped ==
  /\ Guarded("paused", [operator EXCEPT !.at = "guard"])
  /\ frozen' = version
  /\ UNCHANGED <<time, process, version, captured, leases, deaths, attempts>>

BeginCapture ==
  /\ operator.next \in DOMAIN Databases
  /\ Guarded("guard", [operator EXCEPT !.at = "copy"])
  /\ UNCHANGED <<time, process, version, captured, frozen, leases, deaths, attempts>>

(* persist_one *)
Capture ==
  /\ operator.at = "copy"
  /\ LET d == Databases[operator.next]
     IN  captured' = [captured EXCEPT ![d] = version[d]]
  /\ operator' = [operator EXCEPT !.at = "verify"]
  /\ UNCHANGED <<time, process, version, frozen, leases, deaths, attempts>>

(* no room on the volume, counts or checksums that differ *)
CaptureFails ==
  /\ operator.at \in {"copy", "verify"}
  /\ operator' = [operator EXCEPT !.at = "abort"]
  /\ UNCHANGED <<time, process, version, captured, frozen, leases, deaths, attempts>>

Verify ==
  /\ Guarded("verify", [operator EXCEPT !.at = "guard", !.next = @ + 1])
  /\ UNCHANGED <<time, process, version, captured, frozen, leases, deaths, attempts>>

(* the receipt, the last guard, READY_FOR_DEPLOY *)
Ready ==
  /\ operator.next \notin DOMAIN Databases
  /\ Guarded("guard", [operator EXCEPT !.at = "ready"])
  /\ UNCHANGED <<time, process, version, captured, frozen, leases, deaths, attempts>>

AbortResumes ==
  /\ operator.at = "abort"
  /\ process' = Resumed(operator.items)
  /\ operator' = AtRest
  /\ UNCHANGED <<time, version, captured, frozen, leases, deaths, attempts>>

(* the connection is lost and the tool killed with it *)
OperatorDies ==
  /\ operator.at # "idle"
  /\ operator' = AtRest
  /\ UNCHANGED <<time, process, version, captured, frozen, leases, deaths, attempts>>

(* --resume of a lease by hand *)
ManualResume ==
  \E l \in leases :
    /\ process' = Resumed(l.items)
    /\ UNCHANGED <<time, version, operator, captured, frozen, leases, deaths, attempts>>

(* the guardian of a lease that is over; nothing calls it off before *)
GuardianResumes ==
  \E l \in leases :
    /\ time >= l.until
    /\ process' = Resumed(l.items)
    /\ leases' = leases \ {l}
    /\ UNCHANGED <<time, version, operator, captured, frozen, deaths, attempts>>

MaintenanceNext ==
  \/ \E d \in Names : Write(d)
  \/ \E p \in Programs : Die(p)
  \/ \E p \in Programs : Relaunch(p)
  \/ Tick
  \/ Discover
  \/ \E p \in Programs : PauseOne(p)
  \/ AllStopped
  \/ BeginCapture
  \/ Capture
  \/ CaptureFails
  \/ Verify
  \/ Ready
  \/ AbortResumes
  \/ OperatorDies
  \/ ManualResume
  \/ GuardianResumes

MaintenanceSpec == MaintenanceInit /\ [][MaintenanceNext]_maintenanceVars

-----------------------------------------------------------------------------
MaintenanceTypeOK ==
  /\ time \in 0..Ceiling
  /\ process \in [Programs -> [started : Nat, mode : {"running", "stopped", "gone"}]]
  /\ version \in [Names -> Nat] /\ captured \in [Names -> Nat] /\ frozen \in [Names -> Nat]
  /\ operator \in [at : {"idle", "pause", "paused", "guard", "copy", "verify", "abort", "ready"},
                   items : [Programs -> Nat], deadline : Nat, left : SUBSET Programs,
                   next : Nat]
  /\ leases \subseteq [items : [Programs -> Nat], until : Nat]
  /\ deaths \in 0..MaxDeaths /\ attempts \in 0..MaxAttempts

(* READY_FOR_DEPLOY is printed only over copies that are together one      *)
(* instant of all databases, that at which the last program stopped:       *)
(* whoever was continued, died or was replaced in the meantime, by hand or *)
(* by the guardian of an earlier attempt (prepare_deploy.guard).           *)
ReadyIsOneCut ==
  operator.at = "ready" => \A i \in DOMAIN Databases :
                              captured[Databases[i]] = frozen[Databases[i]]

(* No program is left stopped, wherever the operator was cut off: a        *)
(* guardian waits that knows that process, by pid and start time, and whom *)
(* nothing calls off ("A separate guardian resumes the identified          *)
(* processes"; resume passes over a pid that has gone to another process). *)
PausedHaveAGuardian ==
  \A p \in Programs :
    process[p].mode = "stopped" =>
      \E l \in leases : l.items[p] = process[p].started /\ time <= l.until
=============================================================================
