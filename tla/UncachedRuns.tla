---------------------------- MODULE UncachedRuns ----------------------------
(***************************************************************************)
(* What the deploy cache promises (deploy_cache.rs): that nobody can tell  *)
(* it is there.  Runs that share a workspace each build its packages and   *)
(* measure one after the other, every one of them on a contract of the     *)
(* build, the network and the account of that very run, as if each run     *)
(* deployed all of them itself.  There is no cache here, no file, no       *)
(* fixture, and nothing that one run leaves to another but the sources.    *)
(***************************************************************************)
EXTENDS Naturals, Sequences

CONSTANTS
  Packages,     \* the cdylib packages in the order of cargo metadata
  BuildsOf,     \* BuildsOf[p]: the wasm contents package p may have
  Run,          \* processes that run the tool in this workspace
  Invocations   \* the command lines in use

Package == {Packages[k] : k \in DOMAIN Packages}

VARIABLES
  code,      \* what each package would be built to now
  inv,       \* the command lines of the runs that are under way
  builds,    \* what each of them that has built is made of
  measured   \* the contracts each of these has measured on so far, in order

vars == <<code, inv, builds, measured>>

With(f, r, x) == [q \in DOMAIN f \cup {r} |-> IF q = r THEN x ELSE f[q]]
Without(f, r) == [q \in DOMAIN f \ {r} |-> f[q]]

Init ==
  /\ code \in [Package -> UNION {BuildsOf[p] : p \in Package}]
  /\ \A p \in Package : code[p] \in BuildsOf[p]
  /\ inv = <<>> /\ builds = <<>> /\ measured = <<>>

\* Sources are edited while no run is under way.
Edit(p) ==
  /\ DOMAIN inv = {}
  /\ \E b \in BuildsOf[p] \ {code[p]} : code' = [code EXCEPT ![p] = b]
  /\ UNCHANGED <<inv, builds, measured>>

Start(r, i) ==
  /\ r \notin DOMAIN inv
  /\ inv' = With(inv, r, i)
  /\ UNCHANGED <<code, builds, measured>>

BuildAll(r) ==
  /\ r \in DOMAIN inv \ DOMAIN builds
  /\ builds' = With(builds, r, code)
  /\ measured' = With(measured, r, <<>>)
  /\ UNCHANGED <<code, inv>>

\* A contract of this run's own: its build, where it was told to go.
Own(r, p) ==
  [build |-> builds[r][p], target |-> inv[r].target, source |-> inv[r].source]

Measure(r) ==
  /\ r \in DOMAIN builds /\ Len(measured[r]) < Len(Packages)
  /\ measured' = [measured EXCEPT ![r] = Append(@, Own(r, Packages[Len(@) + 1]))]
  /\ UNCHANGED <<code, inv, builds>>

\* A run completes, fails or is killed.
End(r) ==
  /\ r \in DOMAIN inv
  /\ inv' = Without(inv, r) /\ builds' = Without(builds, r) /\ measured' = Without(measured, r)
  /\ UNCHANGED code

Next ==
  \/ \E p \in Package : Edit(p)
  \/ \E r \in Run :
       \/ \E i \in Invocations : Start(r, i)
       \/ BuildAll(r)
       \/ Measure(r)
       \/ End(r)

Spec == Init /\ [][Next]_vars
=============================================================================
