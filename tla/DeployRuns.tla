----------------------------- MODULE DeployRuns -----------------------------
(***************************************************************************)
(* The deploy cache of cargo-budget-report (deploy_cache.rs) over many     *)
(* runs: processes that share one workspace build its packages, load       *)
(* .budget-cache.toml, hash each wasm, reuse or deploy a contract for it,  *)
(* and save the cache when every package is measured.  A run may abort or  *)
(* be killed between any two steps, and two runs may be under way at once: *)
(* a save empties the file before it fills it, and another run may load or *)
(* save in between.  A run may also record its responses in a fixture, or  *)
(* replay one.                                                             *)
(*                                                                         *)
(* A deployed contract is identified by what was deployed: the wasm, the   *)
(* network it really went to, and the account.  A cache is the set of its  *)
(* entries, since two entries that answer one query are interchangeable    *)
(* here and a torn file is read as any part of what was being written.     *)
(***************************************************************************)
EXTENDS Naturals, Sequences, FiniteSets

CONSTANTS
  Packages,         \* the cdylib packages in the order of cargo metadata
  BuildsOf,         \* BuildsOf[p]: the wasm contents package p may have
  Run,              \* processes that run the tool in this workspace
  Invocations,      \* the command lines in use
  EditsDuringRuns,  \* whether sources may be edited while a run is under way
  None              \* no contract, no fixture

Package == {Packages[i] : i \in DOMAIN Packages}
Build == UNION {BuildsOf[p] : p \in Package}

\* `network' is the label of --network or budget.toml, `target' the network the
\* requests go to: with --rpc-url these are two things.
Invocation ==
  [transport : {"live", "record", "replay"}, network : STRING, target : STRING,
   source : STRING, cache : BOOLEAN]

ASSUME PackagesAssumption ==
  /\ Packages \in Seq(Package)
  /\ Packages # <<>>
  /\ \A i, j \in DOMAIN Packages : Packages[i] = Packages[j] => i = j
ASSUME BuildsAssumption == \A p \in Package : BuildsOf[p] # {}
ASSUME InvocationsAssumption == Invocations \subseteq Invocation /\ Invocations # {}
ASSUME EditsAssumption == EditsDuringRuns \in BOOLEAN

Network == {i.network : i \in Invocations}
Target == {i.target : i \in Invocations}
Source == {i.source : i \in Invocations}
Id == [build : Build, target : Target, source : Source]
Entry == [package : Package, build : Build, network : Network, source : Source, id : Id]
Tape == [Package -> Id \cup {None}]
Blank == [p \in Package |-> None]

VARIABLES
  code,      \* what each package would be built to now
  wasm,      \* the wasm file of each package under target/
  disk,      \* the entries that can be read from .budget-cache.toml
  empty,     \* whether that file has no text, or is missing
  overlapped,\* history: whether two saves have been under way at once
  fixture,   \* the fixture file, or None
  phase,     \* where each process is
  inv,       \* its command line
  at,        \* the position of the package at hand
  mem,       \* DeployCache.file
  dirty,     \* DeployCache.dirty
  hash,      \* wasm_sha of the package at hand
  tape,      \* what a record run has captured, or a replay run serves
  measured,  \* the contract each package of the run is measured on
  settled,   \* history: the (network, source) pairs whose last save still holds
  base       \* history: `settled' when the process loaded the cache

files == <<code, wasm, disk, empty, overlapped, fixture>>
process == <<phase, inv, at, mem, dirty, hash, tape, measured>>
vars == <<files, process, settled, base>>

Idle == \A r \in Run : phase[r] = "idle"
Here(r) == Packages[at[r]]
Key(r) == <<inv[r].network, inv[r].source>>

AnyInvocation == CHOOSE i \in Invocations : TRUE
AnyBuild == CHOOSE b \in Build : TRUE

Init ==
  /\ code \in [Package -> Build]
  /\ \A p \in Package : code[p] \in BuildsOf[p]
  /\ wasm = code
  /\ disk = {}
  /\ empty = TRUE
  /\ overlapped = FALSE
  /\ fixture = None
  /\ phase = [r \in Run |-> "idle"]
  /\ inv = [r \in Run |-> AnyInvocation]
  /\ at = [r \in Run |-> 1]
  /\ mem = [r \in Run |-> {}]
  /\ dirty = [r \in Run |-> FALSE]
  /\ hash = [r \in Run |-> AnyBuild]
  /\ tape = [r \in Run |-> Blank]
  /\ measured = [r \in Run |-> Blank]
  /\ settled = {}
  /\ base = [r \in Run |-> {}]

----------------------------------------------------------------------------
(* deploy_cache.rs *)

\* Fault: a contract of the same package is good enough.
HitsByPackage(r, e) ==
  /\ e.package = Here(r)
  /\ e.network = inv[r].network
  /\ e.source = inv[r].source

\* Fault: the network is not compared.
HitsOnAnyNetwork(r, e) ==
  /\ e.build = wasm[Here(r)]
  /\ e.source = inv[r].source

\* DeployCache::get compares the hash, the network and the source.
Hits(r, e) ==
  /\ e.build = wasm[Here(r)]
  /\ e.network = inv[r].network
  /\ e.source = inv[r].source

\* Fault: put keeps the old entry.
SupersededNever(r, e) == FALSE

\* Fault: put drops every entry of the package.
SupersededByPackage(r, e) == e.package = Here(r)

\* DeployCache::put drops the entry of this package, network and source.
Superseded(r, e) ==
  /\ e.package = Here(r)
  /\ e.network = inv[r].network
  /\ e.source = inv[r].source

NewEntry(r, id) ==
  [package |-> Here(r), build |-> hash[r], network |-> inv[r].network,
   source |-> inv[r].source, id |-> id]

Put(r, id) ==
  /\ mem' = [mem EXCEPT ![r] = {e \in @ : ~Superseded(r, e)} \cup {NewEntry(r, id)}]
  /\ dirty' = [dirty EXCEPT ![r] = TRUE]

----------------------------------------------------------------------------
(* The workspace. *)

\* Someone changes the source of a package.
Edit(p) ==
  /\ EditsDuringRuns \/ Idle
  /\ \E b \in BuildsOf[p] \ {code[p]} : code' = [code EXCEPT ![p] = b]
  /\ settled' = {}
  /\ UNCHANGED <<wasm, disk, empty, overlapped, fixture, process, base>>

----------------------------------------------------------------------------
(* A run. *)

\* The transport is made: a replay loads its fixture, a recorder starts empty.
Start(r, i) ==
  /\ phase[r] = "idle"
  /\ i.transport = "replay" => fixture # None
  /\ phase' = [phase EXCEPT ![r] = "build"]
  /\ inv' = [inv EXCEPT ![r] = i]
  /\ tape' = [tape EXCEPT ![r] = IF i.transport = "replay" THEN fixture ELSE Blank]
  /\ UNCHANGED <<files, at, mem, dirty, hash, measured, settled, base>>

\* cargo build of every package, before the first network call.
BuildAll(r) ==
  /\ phase[r] = "build"
  /\ wasm' = code
  /\ phase' = [phase EXCEPT ![r] = "load"]
  /\ UNCHANGED <<code, disk, empty, overlapped, fixture>>
  /\ UNCHANGED <<inv, at, mem, dirty, hash, tape, measured, settled, base>>

Saving == {r \in Run : phase[r] = "save"}

\* What can be read of a file that r is writing: fs::write starts at the front of
\* whatever is there, and of a text in part the complete entries are read, or none.
Parts(r) == SUBSET (mem[r] \cup disk)

\* DeployCache::load, perhaps in the middle of another run's save.
Load(r) ==
  /\ phase[r] = "load"
  /\ \E entries \in {disk} \cup UNION {Parts(q) : q \in Saving} :
       mem' = [mem EXCEPT ![r] = entries]
  /\ base' = [base EXCEPT ![r] = IF Saving = {} THEN settled ELSE {}]
  /\ phase' = [phase EXCEPT ![r] = "lookup"]
  /\ UNCHANGED <<files, inv, at, dirty, hash, tape, measured, settled>>

\* The package at hand will be measured on contract id; on to the next.
MeasureOn(r, id) ==
  /\ measured' = [measured EXCEPT ![r][Here(r)] = id]
  /\ at' = [at EXCEPT ![r] = @ + 1]
  /\ phase' = [phase EXCEPT ![r] = "lookup"]

\* wasm_hash, then a cached id that is trusted.
Reuse(r) ==
  /\ phase[r] = "lookup" /\ at[r] \in DOMAIN Packages
  /\ inv[r].cache
  /\ \E e \in mem[r] : Hits(r, e) /\ MeasureOn(r, e.id)
  /\ hash' = [hash EXCEPT ![r] = wasm[Here(r)]]
  /\ UNCHANGED <<files, inv, mem, dirty, tape, settled, base>>

\* wasm_hash, then a miss, or a cache that is not to be used.
Miss(r) ==
  /\ phase[r] = "lookup" /\ at[r] \in DOMAIN Packages
  /\ inv[r].cache => \A e \in mem[r] : ~Hits(r, e)
  /\ hash' = [hash EXCEPT ![r] = wasm[Here(r)]]
  /\ phase' = [phase EXCEPT ![r] = "deploy"]
  /\ UNCHANGED <<files, inv, at, mem, dirty, tape, measured, settled, base>>

\* The id the transport returns: a replay serves what was recorded for the
\* package, whatever its wasm is now; otherwise the wasm file is deployed.
DeployedId(r) ==
  IF inv[r].transport = "replay"
  THEN tape[r][Here(r)]
  ELSE [build |-> wasm[Here(r)], target |-> inv[r].target, source |-> inv[r].source]

\* deploy_contract succeeds, and put remembers the id.
Deploy(r) ==
  /\ phase[r] = "deploy"
  /\ DeployedId(r) # None
  /\ Put(r, DeployedId(r))
  /\ MeasureOn(r, DeployedId(r))
  /\ tape' = [tape EXCEPT ![r][Here(r)] =
                IF inv[r].transport = "record" THEN DeployedId(r) ELSE @]
  /\ UNCHANGED <<files, inv, hash, settled, base>>

\* A process that ends forgets everything.
Ends(r) ==
  /\ phase' = [phase EXCEPT ![r] = "idle"]
  /\ inv' = [inv EXCEPT ![r] = AnyInvocation]
  /\ at' = [at EXCEPT ![r] = 1]
  /\ mem' = [mem EXCEPT ![r] = {}]
  /\ dirty' = [dirty EXCEPT ![r] = FALSE]
  /\ hash' = [hash EXCEPT ![r] = AnyBuild]
  /\ tape' = [tape EXCEPT ![r] = Blank]
  /\ measured' = [measured EXCEPT ![r] = Blank]
  /\ base' = [base EXCEPT ![r] = {}]

AllMeasured(r) == phase[r] = "lookup" /\ at[r] > Len(Packages)

\* After the cache: save the fixture of a record run, or render the report.
Continue(r) ==
  IF inv[r].transport = "record"
  THEN /\ phase' = [phase EXCEPT ![r] = "record"]
       /\ UNCHANGED <<inv, at, mem, dirty, hash, tape, measured, base>>
  ELSE Ends(r)

\* Nothing was put, or the file cannot be opened: it stays as it is.  An error is
\* a warning, and the run goes on.
SaveNothing(r) ==
  /\ AllMeasured(r)
  /\ Continue(r)
  /\ UNCHANGED <<files, settled>>

\* DeployCache::save: fs::write truncates the file.
SaveTruncates(r) ==
  /\ AllMeasured(r)
  /\ dirty[r]
  /\ disk' = {}
  /\ empty' = TRUE
  /\ overlapped' = (overlapped \/ Saving # {})
  /\ settled' = {}
  /\ phase' = [phase EXCEPT ![r] = "save"]
  /\ UNCHANGED <<code, wasm, fixture, inv, at, mem, dirty, hash, tape, measured, base>>

\* It fills the file it emptied with this run's view of it.
Save(r) ==
  /\ phase[r] = "save"
  /\ empty
  /\ disk' = mem[r]
  /\ empty' = FALSE
  /\ settled' = base[r] \cup {Key(r)}
  /\ Continue(r)
  /\ UNCHANGED <<code, wasm, overlapped, fixture>>

\* The write fails half way, the process dies in it, or another save has filled
\* the file meanwhile and is overwritten up to where this text ends.
TornSave(r) ==
  /\ phase[r] = "save"
  /\ disk' \in Parts(r)
  /\ empty' = FALSE
  /\ settled' = {}
  /\ Continue(r)
  /\ UNCHANGED <<code, wasm, overlapped, fixture>>

\* FixtureFile::save: a torn file does not parse.
SaveFixture(r) ==
  /\ phase[r] = "record"
  /\ fixture' \in {tape[r], None}
  /\ Ends(r)
  /\ UNCHANGED <<code, wasm, disk, empty, overlapped, settled>>

\* A build or a deploy fails, budget.toml does not name a function's arguments,
\* or the process is killed: the run ends and saves nothing.
Abort(r) ==
  /\ phase[r] # "idle"
  /\ Ends(r)
  /\ UNCHANGED <<files, settled>>

RunStep(r) ==
  \/ \E i \in Invocations : Start(r, i)
  \/ BuildAll(r)
  \/ Load(r)
  \/ Reuse(r)
  \/ Miss(r)
  \/ Deploy(r)
  \/ SaveNothing(r)
  \/ SaveTruncates(r)
  \/ Save(r)
  \/ TornSave(r)
  \/ SaveFixture(r)
  \/ Abort(r)

Next == (\E p \in Package : Edit(p)) \/ (\E r \in Run : RunStep(r))

Spec == Init /\ [][Next]_vars

----------------------------------------------------------------------------
(* Safety. *)

\* Every variable keeps its type, and while no two saves have overlapped a cache in
\* memory or on disk holds one entry at most for a package, a network and a source,
\* and whoever saves has an empty file to itself (DeployCache::put, save).
OneEntryPerPackage(entries) ==
  \A e, f \in entries :
    e.package = f.package /\ e.network = f.network /\ e.source = f.source => e = f

FilesOK ==
  /\ code \in [Package -> Build]
  /\ wasm \in [Package -> Build]
  /\ disk \subseteq Entry
  /\ empty \in BOOLEAN /\ (empty => disk = {})
  /\ overlapped \in BOOLEAN
  /\ fixture \in Tape \cup {None}
  /\ settled \subseteq Network \X Source

Phase == {"idle", "build", "load", "lookup", "deploy", "save", "record"}

ProcessOK ==
  /\ phase \in [Run -> Phase]
  /\ inv \in [Run -> Invocations]
  /\ at \in [Run -> 1 .. Len(Packages) + 1]
  /\ mem \in [Run -> SUBSET Entry]
  /\ dirty \in [Run -> BOOLEAN]
  /\ hash \in [Run -> Build]
  /\ tape \in [Run -> Tape]
  /\ measured \in [Run -> Tape]
  /\ base \in [Run -> SUBSET (Network \X Source)]
  /\ \A r \in Run : phase[r] = "deploy" => at[r] \in DOMAIN Packages

TidyOK ==
  ~overlapped => /\ OneEntryPerPackage(disk)
                 /\ \A r \in Run : OneEntryPerPackage(mem[r])
                 /\ \A r, q \in Saving : empty /\ r = q

TypeOK == FilesOK /\ ProcessOK /\ TidyOK

Measured(r) == {p \in Package : measured[r][p] # None}

\* A run that talks to the network measures each package on a contract that has
\* the wasm the package has now, even if it was deployed by an earlier run, and
\* whatever became of the cache in between (deploy_cache.rs: "a stale contract id
\* silently measuring the previous build is worse than no cache").
MeasuresThisBuild ==
  \A r \in Run : inv[r].transport # "replay" =>
    \A p \in Measured(r) : measured[r][p].build = wasm[p]

\* It measures on the network and with the account it was told to
\* (docs/src/developer_guide.md: "a cache hit can only ever reuse an id for a
\* byte-identical build on the same network and account").
MeasuresOnThisNetwork ==
  \A r \in Run : inv[r].transport # "replay" =>
    \A p \in Measured(r) : /\ measured[r][p].target = inv[r].target
                           /\ measured[r][p].source = inv[r].source

\* Once a run has saved its cache, and until a source is edited, a save is cut short
\* or mixed with another, or one is made from an older cache, no run on that network
\* and account that loads while nobody is saving deploys anything (README.md: "An
\* unchanged build is not redeployed").
UnchangedNotRedeployed ==
  \A r \in Run : phase[r] = "deploy" /\ inv[r].cache => Key(r) \notin base[r]

----------------------------------------------------------------------------
(* Refinement. *)

Active == {r \in Run : phase[r] # "idle"}
Built == {r \in Active : phase[r] # "build"}

Uncached == INSTANCE UncachedRuns WITH
  inv <- [r \in Active |-> inv[r]],
  builds <- [r \in Built |-> wasm],
  measured <- [r \in Built |-> [k \in 1..(at[r] - 1) |-> measured[r][Packages[k]]]]

\* Nobody can tell that there is a cache: whatever it holds, and whatever runs
\* did to it, every run measures what a run under --no-deploy-cache would, package
\* by package, on contracts of its own build, network and account
\* (deploy_cache.rs: get, put, load and save; the deploy loop of run).
ImplementsUncached == Uncached!Spec
============================================================================
