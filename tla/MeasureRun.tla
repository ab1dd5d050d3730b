----------------------------- MODULE MeasureRun -----------------------------
(***************************************************************************)
(* The measuring part of run() in cargo-budget-report/src/main.rs: for     *)
(* each prepared contract, deploy it (or take a cached id), simulate its   *)
(* exported functions on a pool of scoped threads that share an atomic     *)
(* task counter, join them, and drain what they collected in task order.   *)
(* Every deploy, invoke-build and simulate request goes through the retry  *)
(* loop of run_with_retry.                                                 *)
(*                                                                         *)
(* Requests are answered by a network that may be slow: the answer to an   *)
(* attempt is a step of its own, and `hang' names a function whose         *)
(* requests are never answered (curl and stellar run without a time        *)
(* limit).                                                                 *)
(***************************************************************************)
EXTENDS Naturals, Sequences

CONSTANTS
  NFunctions,      \* exported functions per prepared contract, a sequence
  Concurrency,     \* --concurrency
  MaxAttempts,     \* RetryConfig.max_attempts
  Transports,      \* the transports a run may use, of "live", "record", "replay"
  Network,         \* the network the run deploys to
  DefaultNetwork,  \* the network of DEFAULT_RPC_URL
  MayHang,         \* <<contract, task>> pairs whose requests may go unanswered
  NoTask           \* no such pair

ASSUME NFunctionsAssumption ==
  /\ NFunctions \in Seq(Nat \ {0})
  /\ NFunctions # <<>>
ASSUME ConcurrencyAssumption == Concurrency \in Nat
ASSUME MaxAttemptsAssumption == MaxAttempts \in Nat \ {0}
ASSUME TransportsAssumption == Transports \subseteq {"live", "record", "replay"}

\* worker_count: at least one thread, no more than there are tasks.
WorkerCount(n) ==
  LET wanted == IF Concurrency = 0 THEN 1 ELSE Concurrency
      useful == IF n = 0 THEN 1 ELSE n
  IN  IF wanted < useful THEN wanted ELSE useful

Worker == 1 .. (IF Concurrency = 0 THEN 1 ELSE Concurrency)
Main == 0
Thread == Worker \cup {Main}

Metrics == "Metrics"   \* Ok(SimulationOutcome::Metrics)
Failed  == "Failed"    \* Ok(SimulationOutcome::Failed), any SimulationFailure
Err     == "Err"       \* Err(CommandFailed): the RPC request itself gave up
Outcome == {Metrics, Failed, Err}

VARIABLES
  transport,   \* the transport of this run
  hang,        \* the function that is never answered, or NoTask
  phase,       \* where the main thread is
  contract,    \* the contract at hand
  bound,       \* the shared transport's `network' field is Some
  next_task,   \* the atomic counter the workers claim tasks from
  pc,          \* where each thread is
  task,        \* the index a worker has claimed
  op,          \* the request a thread is making
  attempt,     \* the retry loop's counter for that request
  outcome,     \* what simulate_function returned
  holder,      \* the worker that holds transport_guard, or Main if none
  collected,   \* the results, in completion order
  remaining,   \* the positions of `collected' the drain loop has not visited
  drained,     \* how many it has visited
  reports      \* what the run reports

config == <<transport, hang>>
pool == <<next_task, task, holder, collected>>
draining == <<remaining, drained, reports>>
retry == <<op, attempt>>
vars == <<config, phase, contract, bound, pool, pc, retry, outcome, draining>>

Contracts == 1 .. Len(NFunctions)
Tasks(c) == 0 .. NFunctions[c] - 1
Active == 1 .. WorkerCount(NFunctions[contract])
Serialized == transport \in {"record", "replay"}
Busy(w) == pc[w] \in {"claimed", "request", "backoff", "push"}
Calling(w) == pc[w] \in {"request", "backoff"}

\* LiveTransport::rpc_url as seen from a worker: a live worker makes its own
\* transport, whose `network' field nobody sets; the shared one has it after a
\* deploy of this run.
Endpoint == IF Serialized /\ bound THEN Network ELSE DefaultNetwork

\* A replay answers from its fixture, where nothing is transient.
Answers == IF transport = "replay" THEN {"ok", "permanent"}
                                   ELSE {"ok", "transient", "permanent"}

Init ==
  /\ transport \in Transports
  /\ hang \in (IF transport = "replay" THEN {NoTask} ELSE MayHang \cup {NoTask})
  /\ phase = "deploy"
  /\ contract = 1
  /\ bound = FALSE
  /\ next_task = 0
  /\ pc = [t \in Thread |-> IF t = Main THEN "idle" ELSE "exited"]
  /\ task = [w \in Worker |-> 0]
  /\ op = [t \in Thread |-> IF t = Main THEN "deploy" ELSE "invoke"]
  /\ attempt = [t \in Thread |-> 0]
  /\ outcome = [w \in Worker |-> Failed]
  /\ holder = Main
  /\ collected = <<>>
  /\ remaining = {}
  /\ drained = 0
  /\ reports = <<>>

----------------------------------------------------------------------------
(* run_with_retry, for the request thread t is making. *)

StartCall(t, o) ==
  /\ op' = [op EXCEPT ![t] = o]
  /\ attempt' = [attempt EXCEPT ![t] = 0]

\* The answer makes the loop go round again, after a backoff.
TriesAgain(t, answer) == answer = "transient" /\ attempt[t] + 1 < MaxAttempts

\* The loop gives up: a permanent failure at once, a transient one at the end.
GivesUp(t, answer) ==
  answer = "permanent" \/ (answer = "transient" /\ ~TriesAgain(t, answer))

\* Fault: the attempts are not counted.
BackOffUncounted(t, answer) ==
  /\ TriesAgain(t, answer)
  /\ pc' = [pc EXCEPT ![t] = "backoff"]
  /\ UNCHANGED <<retry, outcome>>

\* The attempt is counted and the thread sleeps.
BackOff(t, answer) ==
  /\ TriesAgain(t, answer)
  /\ attempt' = [attempt EXCEPT ![t] = @ + 1]
  /\ pc' = [pc EXCEPT ![t] = "backoff"]
  /\ UNCHANGED <<op, outcome>>

\* backoff_sleep returns and the next attempt is sent.
Wake(t) ==
  /\ pc[t] = "backoff"
  /\ pc' = [pc EXCEPT ![t] = "request"]
  /\ UNCHANGED <<config, phase, contract, bound, pool, retry, outcome, draining>>

----------------------------------------------------------------------------
(* The main thread: deploy, spawn, join, drain. *)

\* The deploy cache has an id for this wasm.
ReuseDeployment ==
  /\ phase = "deploy" /\ pc[Main] = "idle"
  /\ pc' = [pc EXCEPT ![Main] = "deployed"]
  /\ UNCHANGED <<config, phase, contract, bound, pool, retry, outcome, draining>>

\* deploy_contract sets the network, then enters its retry loop.
BeginDeploy ==
  /\ phase = "deploy" /\ pc[Main] = "idle"
  /\ pc' = [pc EXCEPT ![Main] = "request"]
  /\ bound' = (transport # "replay")
  /\ StartCall(Main, "deploy")
  /\ UNCHANGED <<config, phase, contract, pool, outcome, draining>>

\* A deploy that gives up ends the run, and with it what was reported so far.
DeployAnswered(answer) ==
  /\ phase = "deploy" /\ pc[Main] = "request"
  /\ \/ /\ answer = "ok"
        /\ pc' = [pc EXCEPT ![Main] = "deployed"]
        /\ UNCHANGED <<phase, retry, outcome>>
     \/ /\ BackOff(Main, answer)
        /\ UNCHANGED phase
     \/ /\ GivesUp(Main, answer)
        /\ phase' = "failed"
        /\ UNCHANGED <<pc, retry, outcome>>
  /\ UNCHANGED <<config, contract, bound, pool, draining>>

\* The arguments of a function cannot be resolved from budget.toml: the run ends
\* although the contract was deployed.
RejectTasks ==
  /\ phase = "deploy" /\ pc[Main] = "deployed"
  /\ phase' = "failed"
  /\ UNCHANGED <<config, contract, bound, pool, pc, retry, outcome, draining>>

\* thread::scope spawns the pool on the list of tasks.
SpawnWorkers ==
  /\ phase = "deploy" /\ pc[Main] = "deployed"
  /\ phase' = "simulate"
  /\ next_task' = 0
  /\ collected' = <<>>
  /\ pc' = [t \in Thread |-> IF t = Main THEN "joining"
                             ELSE IF t \in Active THEN "idle" ELSE "exited"]
  /\ UNCHANGED <<config, contract, bound, task, holder, retry, outcome, draining>>

\* Every worker has joined: the results are taken out of the mutex.
Join ==
  /\ phase = "simulate"
  /\ \A w \in Active : pc[w] = "exited"
  /\ phase' = "drain"
  /\ pc' = [pc EXCEPT ![Main] = "idle"]
  /\ remaining' = DOMAIN collected
  /\ drained' = 0
  /\ UNCHANGED <<config, contract, bound, pool, retry, outcome, reports>>

\* Fault: the results are not sorted.
FirstInCompletionOrder(j) == \A m \in remaining : j <= m

\* sort_by_key(index) is stable: j comes first among the unvisited positions.
FirstInTaskOrder(j) ==
  \A m \in remaining : \/ collected[j].task < collected[m].task
                       \/ collected[j].task = collected[m].task /\ j <= m

Drain ==
  /\ phase = "drain"
  /\ \E j \in remaining :
       /\ FirstInTaskOrder(j)
       /\ reports' = Append(reports, [contract |-> contract,
                                      task     |-> collected[j].task,
                                      outcome  |-> collected[j].outcome])
       /\ remaining' = remaining \ {j}
  /\ drained' = drained + 1
  /\ UNCHANGED <<config, phase, contract, bound, pool, pc, retry, outcome>>

\* The drain loop is over: the next contract, or the end of the loop.
NextContract ==
  /\ phase = "drain"
  /\ remaining = {}
  /\ IF contract < Len(NFunctions)
     THEN /\ contract' = contract + 1
          /\ phase' = "deploy"
          /\ drained' = 0
     ELSE /\ phase' = "done"
          /\ UNCHANGED <<contract, drained>>
  /\ UNCHANGED <<config, bound, pool, pc, retry, outcome, remaining, reports>>

----------------------------------------------------------------------------
(* A worker's loop. *)

\* Fault: a load and a store, between which another worker's increment is lost.
LoadThenStore == next_task' \in {next_task, next_task + 1}

\* next_task.fetch_add(1): read and increment are one step.
FetchAdd == next_task' = next_task + 1

\* fetch_add, then leave the loop when the index is past the tasks.
Claim(w) ==
  /\ pc[w] = "idle"
  /\ FetchAdd
  /\ IF next_task >= NFunctions[contract]
     THEN /\ pc' = [pc EXCEPT ![w] = "exited"]
          /\ UNCHANGED task
     ELSE /\ pc' = [pc EXCEPT ![w] = "claimed"]
          /\ task' = [task EXCEPT ![w] = next_task]
  /\ UNCHANGED <<config, phase, contract, bound, holder, collected, retry, outcome, draining>>

\* Fault: the shared transport is used without its mutex.
TakeWithoutWaiting(w) == holder' = w

\* Fault: live workers use the shared transport as well.
TakeAlways(w) == holder = Main /\ holder' = w

\* A run that records or replays locks the shared transport for the whole of
\* simulate_function; a live worker has a transport of its own.
TakeTransport(w) ==
  IF Serialized THEN holder = Main /\ holder' = w ELSE UNCHANGED holder

BeginSimulate(w) ==
  /\ pc[w] = "claimed"
  /\ TakeTransport(w)
  /\ pc' = [pc EXCEPT ![w] = "request"]
  /\ StartCall(w, "invoke")
  /\ UNCHANGED <<config, phase, contract, bound, next_task, task, collected, outcome, draining>>

\* Fault: an Err ends the worker instead of being collected.
ReturnsOrStops(w, o) ==
  /\ outcome' = [outcome EXCEPT ![w] = o]
  /\ pc' = [pc EXCEPT ![w] = IF o = Err THEN "exited" ELSE "push"]
  /\ holder' = IF holder = w THEN Main ELSE holder
  /\ UNCHANGED retry

\* simulate_function returns o, and with it the guard is dropped.
Returns(w, o) ==
  /\ outcome' = [outcome EXCEPT ![w] = o]
  /\ pc' = [pc EXCEPT ![w] = "push"]
  /\ holder' = IF holder = w THEN Main ELSE holder
  /\ UNCHANGED retry

\* build_invoke_xdr: an error is a failure of this function, not of the run.
InvokeAnswered(w, answer) ==
  /\ pc[w] = "request" /\ op[w] = "invoke"
  /\ \/ /\ answer = "ok"
        /\ StartCall(w, "rpc")
        /\ UNCHANGED <<pc, outcome, holder>>
     \/ BackOff(w, answer) /\ UNCHANGED holder
     \/ GivesUp(w, answer) /\ Returns(w, Failed)
  /\ UNCHANGED <<config, phase, contract, bound, next_task, task, collected, draining>>

\* simulate_transaction: a response holds metrics, an `error' field or
\* something undecodable; giving up is an Err.
SimulateAnswered(w, answer) ==
  /\ pc[w] = "request" /\ op[w] = "rpc"
  /\ \/ answer = "ok" /\ \E o \in {Metrics, Failed} : Returns(w, o)
     \/ BackOff(w, answer) /\ UNCHANGED holder
     \/ GivesUp(w, answer) /\ Returns(w, Err)
  /\ UNCHANGED <<config, phase, contract, bound, next_task, task, collected, draining>>

\* collected.lock().push((index, outcome)); the loop body's locals end with it.
Push(w) ==
  /\ pc[w] = "push"
  /\ collected' = Append(collected, [task |-> task[w], outcome |-> outcome[w]])
  /\ pc' = [pc EXCEPT ![w] = "idle"]
  /\ task' = [task EXCEPT ![w] = 0]
  /\ outcome' = [outcome EXCEPT ![w] = Failed]
  /\ StartCall(w, "invoke")
  /\ UNCHANGED <<config, phase, contract, bound, next_task, holder, draining>>

----------------------------------------------------------------------------
MainStep ==
  \/ ReuseDeployment
  \/ BeginDeploy
  \/ \E a \in Answers : DeployAnswered(a)
  \/ Wake(Main)
  \/ RejectTasks
  \/ SpawnWorkers
  \/ Join
  \/ Drain
  \/ NextContract

WorkerStep(w) ==
  \/ Claim(w)
  \/ BeginSimulate(w)
  \/ Wake(w)
  \/ \E a \in Answers : InvokeAnswered(w, a)
  \/ \E a \in Answers : SimulateAnswered(w, a)
  \/ Push(w)

Finished == phase \in {"done", "failed"}

\* The process exits or goes on to render the report: nothing more happens here.
Terminating == Finished /\ UNCHANGED vars

Next ==
  \/ MainStep
  \/ \E w \in Worker : WorkerStep(w)
  \/ Terminating

\* Worker w waits for an answer that never comes.
Hanging(w) == /\ pc[w] = "request"
              /\ hang = <<contract, task[w]>>

\* The scheduler runs every thread that can run, a free mutex is granted, and
\* requests are answered, except those of the function that hangs.  A mutex that
\* others keep taking may be granted late (std's Mutex promises no order).
Fairness ==
  /\ WF_vars(MainStep)
  /\ \A w \in Worker : WF_vars(WorkerStep(w) /\ ~Hanging(w))

Spec == Init /\ [][Next]_vars /\ Fairness

----------------------------------------------------------------------------
(* Safety. *)

PC == {"idle", "deployed", "joining", "claimed", "request", "backoff", "push", "exited"}
Op == {"deploy", "invoke", "rpc"}
Result == [task : Nat, outcome : Outcome]
Entry == [contract : Contracts, task : Nat, outcome : Outcome]

\* Every variable keeps its type; an attempt is counted below max_attempts.
TypeOK ==
  /\ transport \in Transports
  /\ hang \in MayHang \cup {NoTask}
  /\ phase \in {"deploy", "simulate", "drain", "done", "failed"}
  /\ contract \in Contracts
  /\ bound \in BOOLEAN
  /\ next_task \in Nat
  /\ pc \in [Thread -> PC]
  /\ task \in [Worker -> Nat]
  /\ op \in [Thread -> Op]
  /\ attempt \in [Thread -> 0 .. MaxAttempts - 1]
  /\ outcome \in [Worker -> Outcome]
  /\ holder \in Thread
  /\ collected \in Seq(Result)
  /\ remaining \subseteq Nat
  /\ drained \in Nat
  /\ reports \in Seq(Entry)

\* No function is simulated twice: it is in the hands of one worker or in one
\* place of `collected', although the workers share nothing but the counter.
SimulatedOnce ==
  phase = "simulate" =>
    /\ \A v, w \in Worker : Busy(v) /\ Busy(w) /\ task[v] = task[w] => v = w
    /\ \A i, j \in DOMAIN collected : collected[i].task = collected[j].task => i = j
    /\ \A w \in Worker, j \in DOMAIN collected : Busy(w) => task[w] # collected[j].task

\* No function is forgotten: when the last worker has left its loop, whatever
\* failed on the way, there is a result for each function of the contract.
NoneForgotten ==
  phase = "drain" =>
    \A t \in Tasks(contract) : \E j \in DOMAIN collected : collected[j].task = t

\* A recording or replaying transport has one user at a time, from the first
\* invoke-build attempt to the answer of the simulate request, backoffs included.
OneUserOfSharedTransport ==
  Serialized =>
    \A v, w \in Worker : Calling(v) /\ Calling(w) => v = w

\* The simulate request goes to the network the contract was deployed to
\* (docs/src/reference.md, the `network' key of budget.toml: "Target network
\* for deploy/simulate").
SimulatesOnTargetNetwork ==
  transport # "replay" =>
    \A w \in Worker : pc[w] = "request" /\ op[w] = "rpc" => Endpoint = Network

----------------------------------------------------------------------------
(* Refinement and liveness. *)

Sequential == INSTANCE SequentialRun WITH
  measured <- drained,
  log      <- reports,
  status   <- IF Finished THEN phase ELSE "running"

\* The report is that of a sequential run, whatever the workers' interleaving
\* (the drain loop of run(): "drain in task order, not completion order").
ReportsSequentially == Sequential!Spec

\* When every request is answered, the run ends: no worker waits for a mutex or
\* a backoff for ever, and the main thread is not left waiting in the join.
Terminates == hang = NoTask => <>Finished

Collected(t) == \E j \in DOMAIN collected : collected[j].task = t

\* Live workers own their transports, so a function that is never answered
\* holds up one worker only: the rest of its contract is still simulated.
NoHeadOfLineBlocking ==
  \A c \in Contracts : \A t \in Tasks(c) :
    (transport = "live" /\ hang # NoTask /\ WorkerCount(NFunctions[c]) > 1
       /\ phase = "simulate" /\ contract = c /\ hang # <<c, t>>)
      ~> Collected(t)
============================================================================
