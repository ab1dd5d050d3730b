-------------------------- MODULE MeasureRun_proofs --------------------------
(***************************************************************************)
(* Proofs about MeasureRun, for every number of contracts, functions,      *)
(* workers and attempts: its types, that the pool neither repeats nor      *)
(* forgets a function, that a shared transport has one user, and that the  *)
(* run implements SequentialRun.                                           *)
(***************************************************************************)
EXTENDS MeasureRun, TLAPS

InHand(t) == \E w \in Worker : Busy(w) /\ task[w] = t

\* The pool while it runs: what is in hand or collected was claimed, what was
\* claimed is in hand or collected, and a worker leaves only when all is claimed.
PoolInv ==
  /\ \A w \in Worker : pc[w] \notin {"deployed", "joining"}
  /\ phase # "simulate" => \A w \in Worker : pc[w] = "exited"
  /\ phase = "simulate" =>
       /\ drained = 0
       /\ \A w \in Worker : w \notin Active => pc[w] = "exited"
       /\ \A w \in Worker : Busy(w) => task[w] < next_task /\ task[w] \in Tasks(contract)
       /\ \A j \in DOMAIN collected : collected[j].task < next_task
                                      /\ collected[j].task \in Tasks(contract)
       /\ \A t \in Tasks(contract) : t < next_task => InHand(t) \/ Collected(t)
       /\ \A w \in Active : pc[w] = "exited" => next_task >= NFunctions[contract]

\* The mutex is held exactly while its holder is inside simulate_function.
GuardInv == \A w \in Worker : /\ holder = w => Serialized
                              /\ Serialized => (holder = w <=> Calling(w))

\* The drain loop has visited exactly the results with the smallest indexes.
DrainInv ==
  /\ phase = "deploy" => drained = 0
  /\ phase = "drain" =>
       /\ \A i, j \in DOMAIN collected : collected[i].task = collected[j].task => i = j
       /\ \A j \in DOMAIN collected : collected[j].task \in Tasks(contract)
       /\ \A t \in Tasks(contract) : Collected(t)
       /\ drained <= NFunctions[contract]
       /\ remaining = {j \in DOMAIN collected : collected[j].task >= drained}

IInv == TypeOK /\ PoolInv /\ SimulatedOnce /\ GuardInv /\ DrainInv

----------------------------------------------------------------------------

USE DEF Main, Thread, config, pool, draining, retry

\* Facts about sequences, stated once for the steps that append and drain.
LEMMA SeqElement ==
  ASSUME NEW S, NEW s \in Seq(S), NEW j \in DOMAIN s
  PROVE  s[j] \in S
  OBVIOUS

LEMMA AppendFacts ==
  ASSUME NEW S, NEW s \in Seq(S), NEW e \in S
  PROVE  /\ Append(s, e) \in Seq(S)
         /\ DOMAIN Append(s, e) = DOMAIN s \cup {Len(s) + 1}
         /\ Len(s) + 1 \notin DOMAIN s
         /\ Append(s, e)[Len(s) + 1] = e
         /\ \A j \in DOMAIN s : Append(s, e)[j] = s[j]
  OBVIOUS

\* worker_count lies between one and the number of threads the run may have.
LEMMA WorkerCountBounds ==
  ASSUME NEW n \in Nat
  PROVE  /\ WorkerCount(n) \in Nat \ {0}
         /\ 1 .. WorkerCount(n) \subseteq Worker
         /\ 1 \in 1 .. WorkerCount(n)
  BY ConcurrencyAssumption DEF WorkerCount, Worker

\* The number of functions of a contract is a positive natural number.
LEMMA NFunctionsType ==
  ASSUME NEW c \in Contracts
  PROVE  NFunctions[c] \in Nat \ {0}
  BY NFunctionsAssumption DEF Contracts

LEMMA LenType == Len(NFunctions) \in Nat \ {0}
  BY NFunctionsAssumption

LEMMA WorkerType == Worker \subseteq Nat \ {0}
  BY ConcurrencyAssumption DEF Worker

LEMMA OutcomeType == Metrics \in Outcome /\ Failed \in Outcome /\ Err \in Outcome
  BY DEF Outcome

LEMMA ActiveType ==
  ASSUME contract \in Contracts
  PROVE  Active \subseteq Worker /\ Active # {}
  BY NFunctionsType, WorkerCountBounds DEF Active

LEMMA InitIInv == Init => IInv
  <1> SUFFICES ASSUME Init PROVE IInv
    OBVIOUS
  <1> USE WorkerType DEF Init
  <1>1. TypeOK
    <2>1. contract \in Contracts
      BY LenType DEF Contracts
    <2>2. /\ attempt \in [Thread -> 0 .. MaxAttempts - 1]
          /\ outcome \in [Worker -> Outcome]
      BY MaxAttemptsAssumption, OutcomeType
    <2>3. collected \in Seq(Result) /\ reports \in Seq(Entry)
      OBVIOUS
    <2>4. /\ transport \in Transports
          /\ hang \in MayHang \cup {NoTask}
      OBVIOUS
    <2>5. /\ pc \in [Thread -> PC]
          /\ op \in [Thread -> Op]
          /\ task \in [Worker -> Nat]
          /\ holder \in Thread
      BY DEF PC, Op
    <2> QED
      BY <2>1, <2>2, <2>3, <2>4, <2>5 DEF TypeOK
  <1>2. PoolInv
    BY DEF PoolInv
  <1>3. SimulatedOnce /\ DrainInv
    BY DEF SimulatedOnce, DrainInv
  <1>4. GuardInv
    BY DEF GuardInv, Calling
  <1> QED
    BY <1>1, <1>2, <1>3, <1>4 DEF IInv

\* Every step keeps the types.
LEMMA TypeOKStep == IInv /\ [Next]_vars => TypeOK'
  <1> SUFFICES ASSUME TypeOK, DrainInv, [Next]_vars PROVE TypeOK'
    BY DEF IInv
  <1> USE WorkerType, MaxAttemptsAssumption, OutcomeType DEF TypeOK
  <1>1. CASE ReuseDeployment
    BY <1>1 DEF ReuseDeployment, PC
  <1>2. CASE BeginDeploy
    BY <1>2 DEF BeginDeploy, StartCall, PC, Op
  <1>3. ASSUME NEW a \in Answers, DeployAnswered(a) PROVE TypeOK'
    BY <1>3 DEF DeployAnswered, BackOff, TriesAgain, PC
  <1>4. ASSUME NEW t \in Thread, Wake(t) PROVE TypeOK'
    BY <1>4 DEF Wake, PC
  <1>5. CASE RejectTasks
    BY <1>5 DEF RejectTasks
  <1>6. CASE SpawnWorkers
    BY <1>6 DEF SpawnWorkers, PC
  <1>7. CASE Join
    BY <1>7 DEF Join, PC
  <1>8. CASE Drain
    <2>1. PICK j \in remaining :
            reports' = Append(reports, [contract |-> contract,
                                        task     |-> collected[j].task,
                                        outcome  |-> collected[j].outcome])
            /\ remaining' = remaining \ {j}
      BY <1>8 DEF Drain
    <2>2. j \in DOMAIN collected
      BY <1>8 DEF Drain, DrainInv
    <2>3. collected[j] \in Result
      BY <2>2, SeqElement
    <2>4. [contract |-> contract, task |-> collected[j].task,
           outcome |-> collected[j].outcome] \in Entry
      BY <2>3 DEF Result, Entry
    <2>5. reports' \in Seq(Entry)
      BY <2>1, <2>4, AppendFacts
    <2> QED
      BY SMTT(30), <1>8, <2>1, <2>5 DEF Drain
  <1>9. CASE NextContract
    <2>1. contract' \in Contracts
      BY <1>9, LenType DEF NextContract, Contracts
    <2>2. /\ drained' \in Nat
          /\ phase' \in {"deploy", "simulate", "drain", "done", "failed"}
      BY <1>9 DEF NextContract
    <2>3. UNCHANGED <<config, bound, pool, pc, retry, outcome, remaining, reports>>
      BY <1>9 DEF NextContract
    <2> QED
      BY <2>1, <2>2, <2>3
  <1>10. ASSUME NEW w \in Worker, WorkerStep(w) PROVE TypeOK'
    <2>1. CASE Claim(w)
      <3>1. next_task' \in Nat
        BY <2>1 DEF Claim, FetchAdd
      <3>2. pc' \in [Thread -> PC] /\ task' \in [Worker -> Nat]
        BY SMTT(30), <2>1 DEF Claim, PC
      <3>3. UNCHANGED <<config, phase, contract, bound, holder, collected, retry, outcome, draining>>
        BY <2>1 DEF Claim
      <3> QED
        BY <3>1, <3>2, <3>3
    <2>2. CASE BeginSimulate(w)
      BY <2>2 DEF BeginSimulate, TakeTransport, StartCall, PC, Op
    <2>3. CASE Wake(w)
      BY <2>3, <1>4
    <2>4. ASSUME NEW a \in Answers, InvokeAnswered(w, a) PROVE TypeOK'
      <3>1. pc' \in [Thread -> PC]
        BY <2>4 DEF InvokeAnswered, BackOff, Returns, PC
      <3>2. op' \in [Thread -> Op]
        BY <2>4 DEF InvokeAnswered, BackOff, Returns, StartCall, Op
      <3>3. attempt' \in [Thread -> 0 .. MaxAttempts - 1]
        BY SMTT(30), <2>4 DEF InvokeAnswered, BackOff, Returns, TriesAgain, StartCall
      <3>4. outcome' \in [Worker -> Outcome]
        BY <2>4 DEF InvokeAnswered, BackOff, Returns
      <3>5. holder' \in Thread
        BY <2>4 DEF InvokeAnswered, Returns
      <3>6. UNCHANGED <<config, phase, contract, bound, next_task, task, collected, draining>>
        BY <2>4 DEF InvokeAnswered
      <3> QED
        BY <3>1, <3>2, <3>3, <3>4, <3>5, <3>6
    <2>5. ASSUME NEW a \in Answers, SimulateAnswered(w, a) PROVE TypeOK'
      <3>1. pc' \in [Thread -> PC]
        BY <2>5 DEF SimulateAnswered, BackOff, Returns, PC
      <3>2. op' \in [Thread -> Op]
        BY <2>5 DEF SimulateAnswered, BackOff, Returns
      <3>3. attempt' \in [Thread -> 0 .. MaxAttempts - 1]
        BY SMTT(30), <2>5 DEF SimulateAnswered, BackOff, Returns, TriesAgain
      <3>4. outcome' \in [Worker -> Outcome]
        BY SMTT(30), <2>5 DEF SimulateAnswered, BackOff, Returns
      <3>5. holder' \in Thread
        BY <2>5 DEF SimulateAnswered, Returns
      <3>6. UNCHANGED <<config, phase, contract, bound, next_task, task, collected, draining>>
        BY <2>5 DEF SimulateAnswered
      <3> QED
        BY <3>1, <3>2, <3>3, <3>4, <3>5, <3>6
    <2>6. CASE Push(w)
      <3>1. [task |-> task[w], outcome |-> outcome[w]] \in Result
        BY DEF Result
      <3>2. collected' \in Seq(Result)
        BY <2>6, <3>1, AppendFacts DEF Push
      <3> QED
        BY <2>6, <3>2 DEF Push, StartCall, PC, Op
    <2> QED
      BY <1>10, <2>1, <2>2, <2>3, <2>4, <2>5, <2>6 DEF WorkerStep
  <1>11. CASE UNCHANGED vars
    BY <1>11 DEF vars
  <1> QED
    BY <1>1, <1>2, <1>3, <1>4, <1>5, <1>6, <1>7, <1>8, <1>9, <1>10, <1>11
       DEF Next, MainStep, Terminating
----------------------------------------------------------------------------
\* A step that leaves the workers alone outside the simulate phase keeps them out.
LEMMA PoolIdle ==
  ASSUME PoolInv, phase # "simulate", phase' # "simulate",
         \A w \in Worker : pc'[w] = pc[w]
  PROVE  (PoolInv /\ SimulatedOnce)'
  BY DEF PoolInv, SimulatedOnce

\* A step of one worker that neither claims, finishes nor leaves: it is as busy
\* as before, with the same function.
LEMMA PoolBusy ==
  ASSUME PoolInv, SimulatedOnce, NEW w \in Worker, TypeOK,
         Busy(w), pc' \in [Thread -> PC], Busy(w)',
         \A v \in Worker : v # w => pc'[v] = pc[v],
         UNCHANGED <<phase, contract, next_task, task, collected, drained>>
  PROVE  (PoolInv /\ SimulatedOnce)'
  <1>1. \A v \in Worker : Busy(v)' <=> Busy(v)
    BY DEF Busy
  <1>2. \A v \in Worker : pc'[v] = "exited" <=> pc[v] = "exited"
    BY DEF Busy
  <1>3. \A v \in Worker : pc'[v] \notin {"deployed", "joining"}
    BY DEF PoolInv, Busy
  <1>4. \A t : InHand(t)' <=> InHand(t)
    BY <1>1 DEF InHand
  <1>5. \A t : Collected(t)' <=> Collected(t)
    BY DEF Collected
  <1>6. PoolInv'
    <2>1. phase = "simulate"
      BY DEF PoolInv, Busy
    <2>2. Active' = Active /\ Active \subseteq Worker /\ Tasks(contract)' = Tasks(contract)
      BY ActiveType DEF Active, Tasks, TypeOK
    <2> QED
      BY <1>1, <1>2, <1>3, <1>4, <1>5, <2>1, <2>2 DEF PoolInv
  <1>7. SimulatedOnce'
    BY <1>1 DEF SimulatedOnce
  <1> QED
    BY <1>6, <1>7

\* A claim hands out the next index, which nobody had.
LEMMA PoolClaim ==
  ASSUME PoolInv, SimulatedOnce, TypeOK, NEW w \in Worker, Claim(w)
  PROVE  (PoolInv /\ SimulatedOnce)'
  <1> USE WorkerType, NFunctionsType
  <1> DEFINE n == NFunctions[contract]
  <1>1. phase = "simulate" /\ phase' = "simulate" /\ ~Busy(w) /\ w \in Active
    BY DEF Claim, PoolInv, Busy
  <1>2. contract' = contract /\ n \in Nat /\ next_task \in Nat /\ collected' = collected
        /\ next_task' = next_task + 1 /\ drained' = drained
    BY DEF Claim, FetchAdd, TypeOK
  <1>3. \A v \in Worker : v # w => pc'[v] = pc[v] /\ task'[v] = task[v]
                                   /\ (Busy(v)' <=> Busy(v))
    BY DEF Claim, TypeOK, Busy
  <1>4. \A t : Collected(t)' <=> Collected(t)
    BY <1>2 DEF Collected
  <1>5. \A t : InHand(t) => InHand(t)'
    BY <1>1, <1>3 DEF InHand
  <1>6. /\ Active' = Active /\ Tasks(contract)' = Tasks(contract)
        /\ Active \subseteq Worker
    BY <1>2, ActiveType DEF Active, Tasks, TypeOK
  <1>7. \A j \in DOMAIN collected : collected[j].task < next_task
    BY <1>1 DEF PoolInv
  <1>8. \A v \in Worker : Busy(v) => task[v] < next_task /\ task[v] \in Tasks(contract)
    BY <1>1 DEF PoolInv
  <1>9. \A v \in Worker : task[v] \in Nat
    BY DEF TypeOK
  <1>10. CASE next_task >= n
    <2>1. pc' = [pc EXCEPT ![w] = "exited"] /\ task' = task
      BY <1>10 DEF Claim
    <2>2. pc'[w] = "exited" /\ ~Busy(w)'
      BY <2>1 DEF TypeOK, Busy
    <2>3. PoolInv'
      BY <1>1, <1>2, <1>3, <1>4, <1>5, <1>6, <1>10, <2>1, <2>2 DEF PoolInv, Tasks
    <2>4. SimulatedOnce'
      BY <1>1, <1>2, <1>3, <2>1, <2>2 DEF SimulatedOnce
    <2> QED
      BY <2>3, <2>4
  <1>11. CASE ~(next_task >= n)
    <2>1. pc' = [pc EXCEPT ![w] = "claimed"] /\ task' = [task EXCEPT ![w] = next_task]
      BY <1>11 DEF Claim
    <2>2. pc'[w] = "claimed" /\ Busy(w)' /\ task'[w] = next_task
      BY <2>1 DEF TypeOK, Busy
    <2>3. next_task \in Tasks(contract)
      BY <1>2, <1>11 DEF Tasks
    <2>4. \A t : t = next_task => InHand(t)'
      BY <2>2 DEF InHand
    <2>5. \A t \in Tasks(contract) : t < next_task' => InHand(t)' \/ Collected(t)'
      <3> SUFFICES ASSUME NEW t \in Tasks(contract), t < next_task'
                   PROVE  InHand(t)' \/ Collected(t)'
        OBVIOUS
      <3>1. t = next_task \/ t < next_task
        BY <1>2 DEF Tasks
      <3>2. t < next_task => InHand(t) \/ Collected(t)
        BY <1>1 DEF PoolInv
      <3> QED
        BY <3>1, <3>2, <2>4, <1>4, <1>5
    <2>6. \A v \in Worker : Busy(v)' => task'[v] < next_task' /\ task'[v] \in Tasks(contract)
      BY <1>2, <1>3, <1>8, <1>9, <2>2, <2>3
    <2>7. \A j \in DOMAIN collected : collected[j].task < next_task'
                                      /\ collected[j].task \in Tasks(contract)
      BY <1>1, <1>2 DEF PoolInv, Tasks
    <2>8. \A v \in Active : pc'[v] = "exited" => next_task' >= n
      BY <1>1, <1>2, <1>3, <1>6, <2>2 DEF PoolInv
    <2>9. /\ \A v \in Worker : pc'[v] \notin {"deployed", "joining"}
          /\ \A v \in Worker : v \notin Active => pc'[v] = "exited"
          /\ drained = 0
      BY <1>1, <1>3, <2>2 DEF PoolInv
    <2>10. PoolInv'
      BY <1>1, <1>2, <1>6, <2>5, <2>6, <2>7, <2>8, <2>9 DEF PoolInv
    <2>11. \A u, v \in Worker : Busy(u)' /\ Busy(v)' /\ task'[u] = task'[v] => u = v
      BY <1>1, <1>2, <1>3, <1>8, <1>9, <2>2 DEF SimulatedOnce
    <2>12. \A v \in Worker, j \in DOMAIN collected : Busy(v)' => task'[v] # collected[j].task
      BY <1>1, <1>2, <1>3, <1>7, <2>2 DEF SimulatedOnce
    <2>13. SimulatedOnce'
      BY <1>1, <1>2, <2>11, <2>12 DEF SimulatedOnce
    <2> QED
      BY <2>10, <2>13
  <1> QED
    BY <1>10, <1>11

\* A push moves one function from a worker's hands to the results.
LEMMA PoolPush ==
  ASSUME PoolInv, SimulatedOnce, TypeOK, NEW w \in Worker, Push(w)
  PROVE  (PoolInv /\ SimulatedOnce)'
  <1> USE WorkerType
  <1> DEFINE e == [task |-> task[w], outcome |-> outcome[w]]
             k == Len(collected) + 1
  <1>1. phase = "simulate" /\ phase' = "simulate" /\ Busy(w) /\ w \in Active
    BY DEF Push, PoolInv, Busy
  <1>2. contract' = contract /\ next_task' = next_task /\ drained' = drained
        /\ Active' = Active /\ Tasks(contract)' = Tasks(contract)
        /\ Active \subseteq Worker
    BY ActiveType DEF Push, Active, Tasks, TypeOK
  <1>3. \A v \in Worker : v # w => pc'[v] = pc[v] /\ task'[v] = task[v]
                                   /\ (Busy(v)' <=> Busy(v))
    BY DEF Push, TypeOK, Busy
  <1>4. pc'[w] = "idle" /\ ~Busy(w)'
    BY DEF Push, TypeOK, Busy
  <1>5. /\ e \in Result
        /\ collected' = Append(collected, e)
    BY DEF Push, TypeOK, Result
  <1>6. /\ DOMAIN collected' = DOMAIN collected \cup {k}
        /\ k \notin DOMAIN collected
        /\ collected'[k] = e
        /\ \A j \in DOMAIN collected : collected'[j] = collected[j]
    <2>1. collected \in Seq(Result)
      BY DEF TypeOK
    <2> QED
      BY <1>5, <2>1, AppendFacts
  <1>7. \A t : Collected(t)' <=> Collected(t) \/ t = task[w]
    BY <1>6 DEF Collected
  <1>8. \A t : InHand(t) => InHand(t)' \/ t = task[w]
    BY <1>3 DEF InHand
  <1>9. \A j \in DOMAIN collected' : collected'[j].task < next_task
                                     /\ collected'[j].task \in Tasks(contract)
    BY <1>1, <1>6 DEF PoolInv
  <1>10. \A v \in Worker : Busy(v)' => task'[v] < next_task /\ task'[v] \in Tasks(contract)
    BY <1>1, <1>3, <1>4 DEF PoolInv
  <1>11. \A t \in Tasks(contract) : t < next_task => InHand(t)' \/ Collected(t)'
    BY <1>1, <1>7, <1>8 DEF PoolInv
  <1>12. /\ \A v \in Worker : pc'[v] \notin {"deployed", "joining"}
         /\ \A v \in Worker : v \notin Active => pc'[v] = "exited"
         /\ \A v \in Active : pc'[v] = "exited" => next_task >= NFunctions[contract]
         /\ drained = 0
    BY <1>1, <1>2, <1>3, <1>4 DEF PoolInv
  <1>13. PoolInv'
    BY <1>1, <1>2, <1>9, <1>10, <1>11, <1>12 DEF PoolInv
  <1>14. \A j \in DOMAIN collected : collected[j].task # task[w]
    BY <1>1 DEF SimulatedOnce
  <1>15. \A i, j \in DOMAIN collected' : collected'[i].task = collected'[j].task => i = j
    BY <1>1, <1>6, <1>14 DEF SimulatedOnce
  <1>16. \A v \in Worker, j \in DOMAIN collected' : Busy(v)' => task'[v] # collected'[j].task
    BY <1>1, <1>3, <1>4, <1>6 DEF SimulatedOnce
  <1>17. \A u, v \in Worker : Busy(u)' /\ Busy(v)' /\ task'[u] = task'[v] => u = v
    BY <1>1, <1>3, <1>4 DEF SimulatedOnce
  <1>18. SimulatedOnce'
    BY <1>15, <1>16, <1>17 DEF SimulatedOnce
  <1> QED
    BY <1>13, <1>18

\* Every step keeps the pool's invariant.
LEMMA PoolStep == IInv /\ [Next]_vars => (PoolInv /\ SimulatedOnce)'
  <1> SUFFICES ASSUME TypeOK, PoolInv, SimulatedOnce, DrainInv, [Next]_vars
               PROVE  (PoolInv /\ SimulatedOnce)'
    BY DEF IInv
  <1> USE WorkerType
  <1>1. ASSUME phase # "simulate", phase' # "simulate",
               pc' = pc \/ \E v : pc' = [pc EXCEPT ![Main] = v]
        PROVE  (PoolInv /\ SimulatedOnce)'
    <2>1. \A w \in Worker : pc'[w] = pc[w]
      BY <1>1 DEF TypeOK
    <2> QED
      BY <1>1, <2>1, PoolIdle
  <1>2. CASE ReuseDeployment
    BY <1>1, <1>2 DEF ReuseDeployment
  <1>3. CASE BeginDeploy
    BY <1>1, <1>3 DEF BeginDeploy
  <1>4. ASSUME NEW a \in Answers, DeployAnswered(a) PROVE (PoolInv /\ SimulatedOnce)'
    BY <1>1, <1>4 DEF DeployAnswered, BackOff
  <1>5. CASE Wake(Main)
    <2>1. CASE phase # "simulate"
      BY <1>1, <1>5, <2>1 DEF Wake
    <2>2. CASE phase = "simulate"
      <3>1. \A w \in Worker : pc'[w] = pc[w]
        BY <1>5 DEF Wake, TypeOK
      <3>2. UNCHANGED <<phase, contract, next_task, task, collected, drained>>
        BY <1>5 DEF Wake
      <3>3. \A w \in Worker : Busy(w)' <=> Busy(w)
        BY <3>1 DEF Busy
      <3>4. Active' = Active /\ Active \subseteq Worker /\ Tasks(contract)' = Tasks(contract)
        BY <3>2, ActiveType DEF Active, Tasks, TypeOK
      <3>5. \A t : (InHand(t)' <=> InHand(t)) /\ (Collected(t)' <=> Collected(t))
        BY <3>2, <3>3 DEF InHand, Collected
      <3>6. PoolInv'
        BY <2>2, <3>1, <3>2, <3>3, <3>4, <3>5 DEF PoolInv
      <3>7. SimulatedOnce'
        BY <3>2, <3>3 DEF SimulatedOnce
      <3> QED
        BY <3>6, <3>7
    <2> QED
      BY <2>1, <2>2
  <1>6. CASE RejectTasks
    BY <1>1, <1>6 DEF RejectTasks
  <1>7. CASE SpawnWorkers
    <2>1. /\ phase' = "simulate" /\ next_task' = 0 /\ collected' = <<>>
          /\ contract' = contract /\ drained' = 0
      BY <1>7 DEF SpawnWorkers, DrainInv
    <2>2. Active' = Active /\ Active \subseteq Worker
      BY <2>1, ActiveType DEF Active, TypeOK
    <2>3. \A w \in Worker : pc'[w] = IF w \in Active THEN "idle" ELSE "exited"
      BY <1>7 DEF SpawnWorkers
    <2>4. \A w \in Worker : ~Busy(w)'
      BY <2>3 DEF Busy
    <2>5. \A t \in Tasks(contract)' : ~(t < next_task')
      BY <2>1 DEF Tasks
    <2>6. PoolInv'
      BY <2>1, <2>2, <2>3, <2>4, <2>5 DEF PoolInv
    <2>7. SimulatedOnce'
      BY <2>1, <2>4 DEF SimulatedOnce
    <2> QED
      BY <2>6, <2>7
  <1>8. CASE Join
    <2>1. \A w \in Worker : pc'[w] = "exited"
      BY <1>8 DEF Join, PoolInv, TypeOK
    <2>2. phase' = "drain"
      BY <1>8 DEF Join
    <2> QED
      BY <2>1, <2>2 DEF PoolInv, SimulatedOnce
  <1>9. CASE Drain
    BY <1>1, <1>9 DEF Drain
  <1>10. CASE NextContract
    BY <1>1, <1>10 DEF NextContract
  <1>11. ASSUME NEW w \in Worker, WorkerStep(w) PROVE (PoolInv /\ SimulatedOnce)'
    <2>1. CASE Claim(w)
      BY <2>1, PoolClaim
    <2>2. CASE Push(w)
      BY <2>2, PoolPush
    <2>3. ASSUME Busy(w), UNCHANGED <<phase, contract, next_task, task, collected, drained>>,
                 NEW p \in {"request", "backoff", "push"},
                 pc' = pc \/ pc' = [pc EXCEPT ![w] = p]
          PROVE  (PoolInv /\ SimulatedOnce)'
      <3>1. /\ pc' \in [Thread -> PC] /\ Busy(w)'
            /\ \A v \in Worker : v # w => pc'[v] = pc[v]
        BY <2>3 DEF TypeOK, Busy, PC
      <3> QED
        BY <2>3, <3>1, PoolBusy
    <2>4. CASE BeginSimulate(w)
      BY <2>3, <2>4 DEF BeginSimulate, Busy
    <2>5. CASE Wake(w)
      BY <2>3, <2>5 DEF Wake, Busy
    <2>6. ASSUME NEW a \in Answers, InvokeAnswered(w, a) PROVE (PoolInv /\ SimulatedOnce)'
      BY <2>3, <2>6 DEF InvokeAnswered, BackOff, Returns, Busy
    <2>7. ASSUME NEW a \in Answers, SimulateAnswered(w, a) PROVE (PoolInv /\ SimulatedOnce)'
      BY <2>3, <2>7 DEF SimulateAnswered, BackOff, Returns, Busy
    <2> QED
      BY <1>11, <2>1, <2>2, <2>4, <2>5, <2>6, <2>7 DEF WorkerStep
  <1>12. CASE UNCHANGED vars
    BY <1>12 DEF vars, PoolInv, SimulatedOnce, Busy, InHand, Collected, Active, Tasks
  <1> QED
    BY <1>2, <1>3, <1>4, <1>5, <1>6, <1>7, <1>8, <1>9, <1>10, <1>11, <1>12
       DEF Next, MainStep, Terminating

----------------------------------------------------------------------------
\* Every step keeps the mutex in the hands of the worker that is calling.
LEMMA GuardStep == IInv /\ [Next]_vars => GuardInv'
  <1> SUFFICES ASSUME TypeOK, PoolInv, GuardInv, [Next]_vars PROVE GuardInv'
    BY DEF IInv
  <1> USE WorkerType
  <1>1. transport' = transport /\ (Serialized' <=> Serialized)
    BY DEF Next, MainStep, WorkerStep, Terminating, vars, ReuseDeployment, BeginDeploy,
           DeployAnswered, Wake, RejectTasks, SpawnWorkers, Join, Drain, NextContract,
           Claim, BeginSimulate, InvokeAnswered, SimulateAnswered, Push, Serialized
  <1>2. ASSUME holder' = holder, \A w \in Worker : Calling(w)' <=> Calling(w)
        PROVE  GuardInv'
    BY <1>1, <1>2 DEF GuardInv
  <1>3. ASSUME holder' = holder, pc' = pc \/ \E v : pc' = [pc EXCEPT ![Main] = v]
        PROVE  GuardInv'
    <2>1. \A w \in Worker : pc'[w] = pc[w]
      BY <1>3 DEF TypeOK
    <2> QED
      BY <1>2, <1>3, <2>1 DEF Calling
  <1>4. CASE ReuseDeployment \/ BeginDeploy \/ RejectTasks \/ Join \/ Drain
             \/ NextContract \/ Wake(Main) \/ UNCHANGED vars
    BY <1>3, <1>4 DEF ReuseDeployment, BeginDeploy, RejectTasks, Join, Drain, NextContract,
                      Wake, vars
  <1>5. ASSUME NEW a \in Answers, DeployAnswered(a) PROVE GuardInv'
    BY <1>3, <1>5 DEF DeployAnswered, BackOff
  <1>6. CASE SpawnWorkers
    <2>1. \A w \in Worker : ~Calling(w) /\ ~Calling(w)'
      BY <1>6 DEF SpawnWorkers, PoolInv, Calling
    <2> QED
      BY <1>2, <1>6, <2>1 DEF SpawnWorkers
  <1>7. ASSUME NEW w \in Worker, WorkerStep(w) PROVE GuardInv'
    <2>1. ASSUME holder' = holder, NEW p, pc' = pc \/ pc' = [pc EXCEPT ![w] = p],
                 Calling(w) <=> p \in {"request", "backoff"}
          PROVE  GuardInv'
      <3>1. \A v \in Worker : Calling(v)' <=> Calling(v)
        BY <2>1 DEF TypeOK, Calling
      <3> QED
        BY <1>2, <2>1, <3>1
    <2>2. CASE Claim(w) \/ Push(w)
      BY <2>1, <2>2 DEF Claim, Push, Calling
    <2>3. CASE Wake(w)
      BY <2>1, <2>3 DEF Wake, Calling
    <2>4. CASE BeginSimulate(w)
      <3>1. /\ Calling(w)' /\ ~Calling(w)
            /\ \A v \in Worker : v # w => (Calling(v)' <=> Calling(v))
        BY <2>4 DEF BeginSimulate, TypeOK, Calling
      <3>2. CASE Serialized
        <4>1. holder = Main /\ holder' = w
          BY <2>4, <3>2 DEF BeginSimulate, TakeTransport
        <4> QED
          BY <1>1, <3>1, <3>2, <4>1 DEF GuardInv
      <3>3. CASE ~Serialized
        <4>1. holder' = holder
          BY <2>4, <3>3 DEF BeginSimulate, TakeTransport
        <4> QED
          BY <1>1, <3>1, <3>3, <4>1 DEF GuardInv
      <3> QED
        BY <3>2, <3>3
    <2>5. ASSUME NEW o, Calling(w), Returns(w, o) PROVE GuardInv'
      <3>1. /\ ~Calling(w)'
            /\ \A v \in Worker : v # w => (Calling(v)' <=> Calling(v))
        BY <2>5 DEF Returns, TypeOK, Calling
      <3>2. holder' = IF holder = w THEN Main ELSE holder
        BY <2>5 DEF Returns
      <3> QED
        BY <1>1, <2>5, <3>1, <3>2 DEF GuardInv
    <2>6. ASSUME NEW a \in Answers, InvokeAnswered(w, a) PROVE GuardInv'
      BY <2>1, <2>5, <2>6 DEF InvokeAnswered, BackOff, Calling
    <2>7. ASSUME NEW a \in Answers, SimulateAnswered(w, a) PROVE GuardInv'
      BY <2>1, <2>5, <2>7 DEF SimulateAnswered, BackOff, Calling
    <2> QED
      BY <1>7, <2>2, <2>3, <2>4, <2>6, <2>7 DEF WorkerStep
  <1> QED
    BY <1>4, <1>5, <1>6, <1>7 DEF Next, MainStep, Terminating

----------------------------------------------------------------------------
\* Workers run in the simulate phase only, and leave the drain loop alone.
LEMMA WorkersSimulate ==
  ASSUME PoolInv, NEW w \in Worker, WorkerStep(w)
  PROVE  phase = "simulate" /\ UNCHANGED <<phase, contract, draining>>
  <1>1. phase = "simulate"
    BY DEF WorkerStep, PoolInv, Claim, BeginSimulate, Wake, InvokeAnswered, SimulateAnswered,
           Push
  <1>2. UNCHANGED <<phase, contract, draining>>
    BY DEF WorkerStep, Claim, BeginSimulate, Wake, InvokeAnswered, SimulateAnswered, Push
  <1> QED
    BY <1>1, <1>2

\* While results are left or due, the first in task order is the next function's.
LEMMA FirstIsNext ==
  ASSUME TypeOK, DrainInv, phase = "drain"
  PROVE  /\ remaining # {} <=> drained < NFunctions[contract]
         /\ \A j \in remaining : FirstInTaskOrder(j) => collected[j].task = drained
  <1> DEFINE n == NFunctions[contract]
  <1>1. n \in Nat /\ drained \in Nat
    BY NFunctionsType DEF TypeOK
  <1>2. \A j \in remaining : collected[j].task \in 0 .. n - 1 /\ collected[j].task >= drained
    BY DEF DrainInv, Tasks
  <1>3. ASSUME drained < n
        PROVE  \E k \in remaining : collected[k].task = drained
    <2>1. drained \in Tasks(contract)
      BY <1>1, <1>3 DEF Tasks
    <2>2. PICK k \in DOMAIN collected : collected[k].task = drained
      BY <2>1 DEF DrainInv, Collected
    <2> QED
      BY <1>1, <2>2 DEF DrainInv
  <1>4. remaining # {} => drained < n
    BY <1>1, <1>2
  <1>5. ASSUME NEW j \in remaining, FirstInTaskOrder(j)
        PROVE  collected[j].task = drained
    <2>1. PICK k \in remaining : collected[k].task = drained
      BY <1>3, <1>4
    <2>2. collected[j].task <= collected[k].task
      BY <1>2, <1>5, <2>1 DEF FirstInTaskOrder
    <2> QED
      BY <1>1, <1>2, <2>1, <2>2
  <1> QED
    BY <1>3, <1>4, <1>5

\* Every step keeps what the drain loop has visited.
LEMMA DrainStep == IInv /\ [Next]_vars => DrainInv'
  <1> SUFFICES ASSUME TypeOK, PoolInv, SimulatedOnce, DrainInv, [Next]_vars
               PROVE  DrainInv'
    BY DEF IInv
  <1>1. ASSUME phase' \notin {"deploy", "drain"} PROVE DrainInv'
    BY <1>1 DEF DrainInv
  <1>2. ASSUME UNCHANGED <<phase, contract, collected, draining>> PROVE DrainInv'
    BY <1>2 DEF DrainInv, Collected, Tasks
  <1>3. CASE ReuseDeployment \/ BeginDeploy \/ Wake(Main) \/ UNCHANGED vars
    BY <1>2, <1>3 DEF ReuseDeployment, BeginDeploy, Wake, vars
  <1>4. ASSUME NEW a \in Answers, DeployAnswered(a) PROVE DrainInv'
    BY <1>1, <1>2, <1>4 DEF DeployAnswered
  <1>5. CASE RejectTasks \/ SpawnWorkers
    BY <1>1, <1>5 DEF RejectTasks, SpawnWorkers
  <1>6. CASE Join
    <2>1. /\ phase = "simulate" /\ phase' = "drain" /\ drained' = 0
          /\ contract' = contract /\ collected' = collected
          /\ remaining' = DOMAIN collected
      BY <1>6 DEF Join
    <2>2. \A w \in Worker : pc[w] = "exited"
      BY <1>6, <2>1 DEF Join, PoolInv
    <2>3. next_task >= NFunctions[contract]
      BY <2>1, <2>2, ActiveType DEF PoolInv, TypeOK
    <2>4. \A t \in Tasks(contract) : Collected(t)
      <3> SUFFICES ASSUME NEW t \in Tasks(contract) PROVE Collected(t)
        OBVIOUS
      <3>1. t < next_task
        BY <2>3, NFunctionsType DEF Tasks, TypeOK
      <3>2. ~InHand(t)
        BY <2>2 DEF InHand, Busy
      <3> QED
        BY <2>1, <3>1, <3>2 DEF PoolInv
    <2>5. \A j \in DOMAIN collected : collected[j].task \in Tasks(contract)
      BY <2>1 DEF PoolInv
    <2>6. \A i, j \in DOMAIN collected : collected[i].task = collected[j].task => i = j
      BY <2>1 DEF SimulatedOnce
    <2>7. remaining' = {j \in DOMAIN collected : collected[j].task >= 0}
      BY <2>1, <2>5 DEF Tasks
    <2>8. 0 <= NFunctions[contract]
      BY NFunctionsType DEF TypeOK
    <2> QED
      BY <2>1, <2>4, <2>5, <2>6, <2>7, <2>8 DEF DrainInv, Collected, Tasks
  <1>7. CASE Drain
    <2>1. PICK j \in remaining : FirstInTaskOrder(j) /\ remaining' = remaining \ {j}
      BY <1>7 DEF Drain
    <2>2. /\ phase = "drain" /\ phase' = "drain" /\ drained' = drained + 1
          /\ contract' = contract /\ collected' = collected
      BY <1>7 DEF Drain
    <2>3. collected[j].task = drained /\ drained < NFunctions[contract]
      BY <2>1, <2>2, FirstIsNext
    <2>4. \A k \in DOMAIN collected : collected[k].task \in Nat
      BY <2>2 DEF DrainInv, Tasks
    <2>5. drained \in Nat /\ NFunctions[contract] \in Nat
      BY NFunctionsType DEF TypeOK
    <2>6. \A k \in DOMAIN collected :
            k \in remaining' <=> collected[k].task >= drained + 1
      BY <2>1, <2>2, <2>3, <2>4, <2>5 DEF DrainInv
    <2>7. remaining' = {k \in DOMAIN collected : collected[k].task >= drained + 1}
      BY <2>1, <2>2, <2>6 DEF DrainInv
    <2> QED
      BY <2>2, <2>3, <2>5, <2>7 DEF DrainInv, Collected, Tasks
  <1>8. CASE NextContract
    BY <1>8 DEF NextContract, DrainInv
  <1>9. ASSUME NEW w \in Worker, WorkerStep(w) PROVE DrainInv'
    BY <1>1, <1>9, WorkersSimulate
  <1> QED
    BY <1>3, <1>4, <1>5, <1>6, <1>7, <1>8, <1>9 DEF Next, MainStep, Terminating

\* The inductive invariant holds in every reachable state.
LEMMA Invariant == Spec => []IInv
  <1>1. IInv /\ [Next]_vars => IInv'
    BY TypeOKStep, PoolStep, GuardStep, DrainStep DEF IInv
  <1> QED
    BY InitIInv, <1>1, PTL DEF Spec

----------------------------------------------------------------------------
\* The variables keep their types, and no request is attempted more than
\* max_attempts times (the retry loop of run_with_retry).
THEOREM TypeCorrect == Spec => []TypeOK
  <1>1. IInv => TypeOK
    BY DEF IInv
  <1> QED
    BY <1>1, Invariant, PTL

\* No function is simulated twice, for any number of workers and functions (the
\* fetch_add of the worker loop).
THEOREM NoFunctionTwice == Spec => []SimulatedOnce
  <1>1. IInv => SimulatedOnce
    BY DEF IInv
  <1> QED
    BY <1>1, Invariant, PTL

\* When the workers have joined, every function has a result, whatever failed
\* (the worker loop collects an Err and goes on).
THEOREM NoFunctionForgotten == Spec => []NoneForgotten
  <1>1. IInv => NoneForgotten
    BY DEF IInv, DrainInv, NoneForgotten, Collected
  <1> QED
    BY <1>1, Invariant, PTL

\* A recording or replaying transport is used by one worker at a time, over the
\* whole of simulate_function (transport_guard in the worker loop).
THEOREM SharedTransportExclusive == Spec => []OneUserOfSharedTransport
  <1>1. IInv => OneUserOfSharedTransport
    BY DEF IInv, GuardInv, OneUserOfSharedTransport
  <1> QED
    BY <1>1, Invariant, PTL

\* The concurrent run reports what a sequential run reports, in the same order
\* (the sort before the drain loop).
THEOREM Refinement == Spec => ReportsSequentially
  <1>1. Init => Sequential!Init
    BY DEF Init, Sequential!Init, Finished
  <1>2. IInv /\ [Next]_vars => [Sequential!Next]_(Sequential!vars)
    <2> SUFFICES ASSUME TypeOK, PoolInv, DrainInv, [Next]_vars
                 PROVE  Sequential!Next \/ UNCHANGED Sequential!vars
      BY DEF IInv
    <2>1. ASSUME UNCHANGED <<phase, contract, drained, reports>>
          PROVE  UNCHANGED Sequential!vars
      BY <2>1 DEF Sequential!vars, Finished
    <2>2. ASSUME phase = "deploy", phase' = "failed", UNCHANGED <<contract, drained, reports>>
          PROVE  Sequential!Next
      BY <2>2 DEF DrainInv, Finished, Sequential!Next, Sequential!DeployFails
    <2>3. ASSUME ~Finished, phase' \in {"deploy", "simulate", "drain"},
                 UNCHANGED <<contract, drained, reports>>
          PROVE  UNCHANGED Sequential!vars
      BY <2>3 DEF Finished, Sequential!vars
    <2>4. CASE ReuseDeployment \/ BeginDeploy \/ Wake(Main) \/ UNCHANGED vars
      BY <2>1, <2>4 DEF ReuseDeployment, BeginDeploy, Wake, vars
    <2>5. ASSUME NEW a \in Answers, DeployAnswered(a)
          PROVE  Sequential!Next \/ UNCHANGED Sequential!vars
      BY <2>1, <2>2, <2>5 DEF DeployAnswered
    <2>6. CASE RejectTasks
      BY <2>2, <2>6 DEF RejectTasks
    <2>7. CASE SpawnWorkers
      BY <2>3, <2>7 DEF SpawnWorkers, Finished
    <2>8. CASE Join
      <3>1. \A w \in Worker : pc[w] = "exited"
        BY <2>8 DEF Join, PoolInv
      <3>2. drained = 0
        BY <2>8 DEF Join, PoolInv
      <3> QED
        BY <2>3, <2>8, <3>2 DEF Join, Finished
    <2>9. CASE Drain
      <3>1. PICK j \in remaining :
              /\ FirstInTaskOrder(j)
              /\ reports' = Append(reports, [contract |-> contract,
                                             task     |-> collected[j].task,
                                             outcome  |-> collected[j].outcome])
        BY <2>9 DEF Drain
      <3>2. /\ phase = "drain" /\ phase' = "drain" /\ drained' = drained + 1
            /\ contract' = contract
        BY <2>9 DEF Drain
      <3>3. collected[j].task = drained /\ drained < NFunctions[contract]
        BY <3>1, <3>2, FirstIsNext
      <3>4. collected[j] \in Result
        BY <3>1, <3>2, SeqElement DEF TypeOK, DrainInv
      <3>5. collected[j].outcome \in Outcome
        BY <3>4 DEF Result
      <3>6. Sequential!Measure
        BY <3>1, <3>2, <3>3, <3>5 DEF Sequential!Measure, Finished
      <3> QED
        BY <3>6 DEF Sequential!Next
    <2>10. CASE NextContract
      <3>1. phase = "drain" /\ reports' = reports
        BY <2>10 DEF NextContract
      <3>2. drained = NFunctions[contract]
        BY <2>10, <3>1, FirstIsNext, NFunctionsType DEF NextContract, DrainInv, TypeOK
      <3>3. Sequential!NextContract
        BY <2>10, <3>1, <3>2 DEF NextContract, Sequential!NextContract, Finished
      <3> QED
        BY <3>3 DEF Sequential!Next
    <2>11. ASSUME NEW w \in Worker, WorkerStep(w)
           PROVE  UNCHANGED Sequential!vars
      BY <2>1, <2>11, WorkersSimulate
    <2> QED
      BY <2>4, <2>5, <2>6, <2>7, <2>8, <2>9, <2>10, <2>11 DEF Next, MainStep, Terminating
  <1> QED
    BY <1>1, <1>2, Invariant, PTL DEF Spec, ReportsSequentially, Sequential!Spec
=============================================================================
