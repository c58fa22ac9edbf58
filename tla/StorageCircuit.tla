--------------------------- MODULE StorageCircuit ---------------------------
(***************************************************************************)
(* The circuit breaker of one storage backend: CircuitBreaker of           *)
(* extraction/filter/circuit_breaker.py and the guards of                  *)
(* engine/storage_circuit.py through which every Memgraph, Qdrant and      *)
(* Redis call goes.                                                        *)
(*                                                                         *)
(* No method of the breaker awaits while it holds the lock, so each is one *)
(* step; the backend call between check_open and record_* is where calls   *)
(* overlap.  A time stamp is kept as its age, counted up to the largest    *)
(* value the code compares it with: no bound on time or on the number of   *)
(* calls is needed.                                                        *)
(***************************************************************************)
EXTENDS Integers, Sequences, FiniteSets

CONSTANTS
  Call,      \* coroutines that use the backend, each one call at a time
  Threshold, \* failure_threshold
  WindowS,   \* window_s
  Cooldown   \* cooldown_s

ASSUME CircuitAssumption ==
  /\ IsFiniteSet(Call)
  /\ Threshold \in Nat \ {0}
  /\ WindowS \in Nat /\ Cooldown \in Nat \ {0}

VARIABLES
  failures,  \* _failures: the age of each failure, oldest first
  opened,    \* the age of _opened_at, NotOpen when it is None
  call,      \* what each coroutine is doing
  gauge      \* the last transition reported by _on_trip or _on_reset

circuitVars == <<failures, opened, call, gauge>>

NotOpen == -1
Open == opened # NotOpen
Running == {c \in Call : call[c] = "running"}

\* Ages stay within the values the breaker compares them with.
CircuitTypeOK ==
  /\ failures \in Seq(0 .. WindowS + 1)
  /\ opened \in NotOpen .. Cooldown
  /\ call \in [Call -> {"idle", "running"}]
  /\ gauge \in {"closed", "opened"}

CircuitInit ==
  /\ failures = <<>>
  /\ opened = NotOpen
  /\ call = [c \in Call |-> "idle"]
  /\ gauge = "closed"

-----------------------------------------------------------------------------

\* popleft while the oldest failure is older than the window.
Expired(fs) == {k \in 1 .. Len(fs) : \A j \in 1 .. k : fs[j] > WindowS}
Prune(fs) == SubSeq(fs, Cardinality(Expired(fs)) + 1, Len(fs))

Reset ==
  /\ failures' = <<>>
  /\ opened' = NotOpen

\* check_open with the circuit closed.  Its answer is "open" all the same when
\* enough failures are left in the window.
GuardClosed(c) ==
  /\ call[c] = "idle"
  /\ ~Open
  /\ failures' = Prune(failures)
  /\ call' = IF Len(failures') >= Threshold THEN call
             ELSE [call EXCEPT ![c] = "running"]
  /\ UNCHANGED <<opened, gauge>>

\* check_open finds that the cooldown is over: the breaker starts afresh.
GuardCooledDown(c) ==
  /\ call[c] = "idle"
  /\ Open /\ opened >= Cooldown
  /\ Reset
  /\ gauge' = "closed"
  /\ call' = [call EXCEPT ![c] = "running"]

\* Mutant: the guard reports the open circuit and runs the call all the same.
GuardOpenRuns(c) ==
  /\ call[c] = "idle"
  /\ Open /\ opened < Cooldown
  /\ call' = [call EXCEPT ![c] = "running"]
  /\ UNCHANGED <<failures, opened, gauge>>

\* Open: guard_hard_fail raises, guard_degrade returns the default.
GuardOpen(c) ==
  /\ call[c] = "idle"
  /\ Open /\ opened < Cooldown
  /\ UNCHANGED circuitVars

\* Mutant: the breaker needs one failure more than its threshold.
RecordFailureLate(c) ==
  LET fs == Prune(Append(failures, 0)) IN
  /\ call[c] = "running"
  /\ call' = [call EXCEPT ![c] = "idle"]
  /\ failures' = fs
  /\ IF Len(fs) > Threshold /\ ~Open
       THEN opened' = 0 /\ gauge' = "opened"
       ELSE UNCHANGED <<opened, gauge>>

\* The backend call raises an Exception.
RecordFailure(c) ==
  LET fs == Prune(Append(failures, 0)) IN
  /\ call[c] = "running"
  /\ call' = [call EXCEPT ![c] = "idle"]
  /\ failures' = fs
  /\ IF Len(fs) >= Threshold /\ ~Open
       THEN opened' = 0 /\ gauge' = "opened"
       ELSE UNCHANGED <<opened, gauge>>

\* The backend call returns, possibly long after other calls tripped the
\* circuit: it closes it at once.
RecordSuccess(c) ==
  /\ call[c] = "running"
  /\ call' = [call EXCEPT ![c] = "idle"]
  /\ gauge' = IF Open THEN "closed" ELSE gauge
  /\ Reset

\* The caller's asyncio.wait_for gives up: CancelledError is no Exception, so
\* neither branch of the guard runs and a hanging backend is not counted.
TimedOut(c) ==
  /\ call[c] = "running"
  /\ call' = [call EXCEPT ![c] = "idle"]
  /\ UNCHANGED <<failures, opened, gauge>>

Tick ==
  /\ failures' = [k \in DOMAIN failures |->
                    IF failures[k] > WindowS THEN failures[k] ELSE failures[k] + 1]
  /\ opened' = IF Open /\ opened < Cooldown THEN opened + 1 ELSE opened
  /\ UNCHANGED <<call, gauge>>

Guard(c) == GuardClosed(c) \/ GuardCooledDown(c) \/ GuardOpen(c)

CircuitNext ==
  \/ \E c \in Call : \/ Guard(c) \/ RecordFailure(c)
                     \/ RecordSuccess(c) \/ TimedOut(c)
  \/ Tick

CircuitSpec == CircuitInit /\ [][CircuitNext]_circuitVars

-----------------------------------------------------------------------------
(* Properties.                                                             *)

\* The circuit never refuses calls without a running cooldown: whenever
\* _opened_at is None there are fewer than failure_threshold failures, so the
\* last line of check_open never answers "open", whatever mix of late
\* failures, late successes and resets came before.
NeverSilentlyOpen == ~Open => Len(failures) < Threshold

\* What an outage costs: no matter how calls overlap, the failures the breaker
\* holds never exceed the threshold by more than the calls that were already
\* under way when it tripped.
FailuresBounded ==
  Open => Len(failures) + Cardinality(Running) < Threshold + Cardinality(Call)

\* The trip and reset events that feed the alert ("any Memgraph/Qdrant circuit
\* open = page") agree with the breaker, whichever of record_failure,
\* record_success and check_open made the transition.
GaugeAgrees == gauge = "opened" <=> Open

=============================================================================
