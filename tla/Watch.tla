------------------------------- MODULE Watch -------------------------------
(***************************************************************************)
(* Watch mode (watch.rs): one thread waits for file events on an unbounded *)
(* channel, debounces them, and builds, deploys and simulates the packages *)
(* one after the other, while sources are edited, its own builds write     *)
(* under target/ and the watcher may report errors.                        *)
(*                                                                         *)
(* The thread tests `running' before it sets it and clears it before it    *)
(* comes back, so the branch that sets `pending' is never taken: what      *)
(* coalesces edits is the channel and the debounce.  Both flags are left   *)
(* out.  A package is measured by one simulation here.                     *)
(***************************************************************************)
EXTENDS Naturals, Sequences, FiniteSets

CONSTANTS
  Packages,   \* the cdylib packages in the order of cargo metadata
  MaxEdits,   \* bound on the edits made while the tool watches
  MaxErrors   \* bound on the errors the watcher reports

Package == {Packages[i] : i \in DOMAIN Packages}
Version == 0..MaxEdits
Event == {"source", "excluded", "error"}

ASSUME PackagesAssumption ==
  /\ Packages \in Seq(Package)
  /\ Packages # <<>>
  /\ \A i, j \in DOMAIN Packages : Packages[i] = Packages[j] => i = j
ASSUME BoundsAssumption == MaxEdits \in Nat /\ MaxErrors \in Nat

VARIABLES
  code,        \* code[p]: the edit that last changed the sources of p
  edits,       \* edits so far
  errors,      \* watcher errors so far
  queue,       \* the channel of the watcher
  pc,          \* start, build, deploy, simulate, end, wait, debounce
  at,          \* the position of the package at hand
  wasm,        \* wasm[p]: the version under target/
  current,     \* measurements of the pass under way
  has_errors,  \* a package of the pass was skipped or failed
  prev,        \* prev_measurements: what was last shown
  passes,      \* history: passes begun, counted up to TooMany
  failed       \* history: the last pass ended in an error

loop == <<pc, at, wasm, current, has_errors, prev, passes, failed>>
vars == <<code, edits, errors, queue, loop>>

\* One pass more than edits can ask for.
TooMany == MaxEdits + 2

Nothing == [p \in {} |-> 0]
Here == Packages[at]

Init ==
  /\ code = [p \in Package |-> 0]
  /\ edits = 0
  /\ errors = 0
  /\ queue = <<>>
  /\ pc = "start"
  /\ at = 1
  /\ wasm = [p \in Package |-> 0]
  /\ current = Nothing
  /\ has_errors = FALSE
  /\ prev = Nothing
  /\ passes = 0
  /\ failed = FALSE

----------------------------------------------------------------------------
(* The world. *)

\* A source file is saved, and the watcher sends an event.
Edit(p) ==
  /\ edits < MaxEdits
  /\ edits' = edits + 1
  /\ code' = [code EXCEPT ![p] = edits + 1]
  /\ queue' = Append(queue, "source")
  /\ UNCHANGED <<errors, loop>>

WatcherError ==
  /\ errors < MaxErrors
  /\ errors' = errors + 1
  /\ queue' = Append(queue, "error")
  /\ UNCHANGED <<code, edits, loop>>

----------------------------------------------------------------------------
(* Waiting. *)

\* The kind of event, and is_excluded.
Relevant(e) == e = "source"

\* recv_timeout(1s), in the loop of five minutes, which starts again.
Receive ==
  /\ pc = "wait"
  /\ queue # <<>>
  /\ queue' = Tail(queue)
  /\ pc' = IF Relevant(Head(queue)) THEN "debounce" ELSE "wait"
  /\ UNCHANGED <<code, edits, errors, at, wasm, current, has_errors, prev,
                 passes, failed>>

\* The debounce drops every event; an error ends it.
Absorb ==
  /\ pc = "debounce"
  /\ queue # <<>>
  /\ queue' = Tail(queue)
  /\ pc' = IF Head(queue) = "error" THEN "start" ELSE "debounce"
  /\ UNCHANGED <<code, edits, errors, at, wasm, current, has_errors, prev,
                 passes, failed>>

\* Past its deadline recv_timeout still takes what is queued: the debounce ends
\* on an empty channel.
WindowEnds ==
  /\ pc = "debounce"
  /\ queue = <<>>
  /\ pc' = "start"
  /\ UNCHANGED <<code, edits, errors, queue, at, wasm, current, has_errors,
                 prev, passes, failed>>

----------------------------------------------------------------------------
(* A pass. *)

StartPass ==
  /\ pc = "start"
  /\ pc' = "build"
  /\ at' = 1
  /\ current' = Nothing
  /\ has_errors' = FALSE
  /\ passes' = IF passes = TooMany THEN passes ELSE passes + 1
  /\ UNCHANGED <<code, edits, errors, queue, wasm, prev, failed>>

\* Fault: a failed pass is taken for a change.
RetryPass ==
  /\ pc' = "debounce"
  /\ failed' = TRUE
  /\ UNCHANGED <<at, wasm, current, has_errors, prev, passes>>

\* run_measurement_pass returns an error: the watcher stays active.
FailPass ==
  /\ pc' = "wait"
  /\ failed' = TRUE
  /\ UNCHANGED <<at, wasm, current, has_errors, prev, passes>>

\* The build reads the sources and writes under target/.
BuildPackage ==
  /\ pc = "build"
  /\ pc' = "deploy"
  /\ wasm' = [wasm EXCEPT ![Here] = code[Here]]
  /\ queue' = Append(queue, "excluded")
  /\ UNCHANGED <<code, edits, errors, at, current, has_errors, prev, passes,
                 failed>>

BuildFails ==
  /\ pc = "build"
  /\ FailPass
  /\ queue' = Append(queue, "excluded")
  /\ UNCHANGED <<code, edits, errors>>

Advance ==
  /\ pc' = IF at = Len(Packages) THEN "end" ELSE "build"
  /\ at' = IF at = Len(Packages) THEN at ELSE at + 1

\* No wasm file, or nothing exported.
SkipPackage ==
  /\ pc = "deploy"
  /\ has_errors' = TRUE
  /\ Advance
  /\ UNCHANGED <<code, edits, errors, queue, wasm, current, prev, passes, failed>>

\* There is no deploy cache here.
Deploy ==
  /\ pc = "deploy"
  /\ pc' = "simulate"
  /\ UNCHANGED <<code, edits, errors, queue, at, wasm, current, has_errors, prev, passes,
                 failed>>

DeployFails ==
  /\ pc = "deploy"
  /\ FailPass
  /\ UNCHANGED <<code, edits, errors, queue>>

Simulate ==
  /\ pc = "simulate"
  /\ current' = [p \in DOMAIN current \cup {Here} |->
                   IF p = Here THEN wasm[p] ELSE current[p]]
  /\ Advance
  /\ UNCHANGED <<code, edits, errors, queue, wasm, has_errors, prev, passes,
                 failed>>

SimulateFails ==
  /\ pc = "simulate"
  /\ has_errors' = TRUE
  /\ Advance
  /\ UNCHANGED <<code, edits, errors, queue, wasm, current, prev, passes, failed>>

\* simulate_function(..)?: the transport gave up.
TransportFails ==
  /\ pc = "simulate"
  /\ FailPass
  /\ UNCHANGED <<code, edits, errors, queue>>

\* Fault: what was queued during the pass is taken for its own output.
EndPassAndDrain ==
  /\ pc = "end"
  /\ pc' = "wait"
  /\ prev' = current
  /\ failed' = FALSE
  /\ queue' = <<>>
  /\ UNCHANGED <<code, edits, errors, at, wasm, current, has_errors, passes>>

\* The delta and the table are printed and become the previous ones.
EndPass ==
  /\ pc = "end"
  /\ pc' = "wait"
  /\ prev' = current
  /\ failed' = FALSE
  /\ UNCHANGED <<code, edits, errors, queue, at, wasm, current, has_errors,
                 passes>>

Work == StartPass \/ BuildPackage \/ Deploy \/ Simulate \/ EndPass
Fail == BuildFails \/ SkipPackage \/ DeployFails \/ SimulateFails \/ TransportFails
Loop == Receive \/ Absorb \/ WindowEnds \/ Work \/ Fail

Next ==
  \/ \E p \in Package : Edit(p)
  \/ WatcherError
  \/ Loop

\* The thread runs whenever it can: what it waits for is the channel, the
\* debounce window, and commands, which are assumed to end.
Spec == Init /\ [][Next]_vars /\ WF_vars(Loop)

----------------------------------------------------------------------------
(* Properties. *)

Measured == UNION {[S -> Version] : S \in SUBSET Package}

\* Every variable has its type.
TypeOK ==
  /\ code \in [Package -> Version]
  /\ edits \in Version
  /\ errors \in 0..MaxErrors
  /\ queue \in Seq(Event)
  /\ pc \in {"start", "build", "deploy", "simulate", "end", "wait", "debounce"}
  /\ at \in DOMAIN Packages
  /\ wasm \in [Package -> Version]
  /\ current \in Measured
  /\ has_errors \in BOOLEAN
  /\ prev \in Measured
  /\ passes \in 0..TooMany
  /\ failed \in BOOLEAN

Queued(e) == \E i \in DOMAIN queue : queue[i] = e

\* While the tool waits and no saved edit is waiting for it, the numbers on the
\* screen are those of the sources as they are, unless it has said that the
\* last pass failed or that some simulations did: no edit that fell into a
\* build, a debounce or a pass is lost (watch_loop, watch.rs).
ShownIsCurrent ==
  pc = "wait" /\ ~Queued("source") /\ ~failed =>
    /\ \A p \in DOMAIN prev : prev[p] = code[p]
    /\ has_errors \/ DOMAIN prev = Package

\* No pass is begun without an edit of its own to answer for, apart from the
\* first: target/ events and watcher errors never retrigger one (is_excluded).
PassesAnswerEdits == passes <= edits + 1

\* Edits and passes answer one another: no edit is lost while the tool waits,
\* and no pass is begun for anything else (watch_loop).
EditsAnswered == ShownIsCurrent /\ PassesAnswerEdits

\* Once nobody edits any more, the tool comes to rest with an empty channel.
Settles == <>[](pc = "wait" /\ queue = <<>>)
=============================================================================
