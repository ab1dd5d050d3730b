---------------------------- MODULE MCDeployRuns ----------------------------
(***************************************************************************)
(* Two processes in one workspace, on two networks.  A package of two      *)
(* builds is enough for a cache with an entry for each network and saves   *)
(* that mix builds; a second package is for the replays, whose cache never *)
(* holds more than one entry for each.                                     *)
(***************************************************************************)
EXTENDS DeployRuns, TLC

MCPackage == <<"amm">>
MCPackages == <<"amm", "host">>
MCBuildsOf == [p \in {"amm", "host"} |-> IF p = "amm" THEN {"amm0", "amm1"} ELSE {"host0"}]

On(transport, network, cache) ==
  [transport |-> transport, network |-> network, target |-> network,
   source |-> "alice", cache |-> cache]

\* Two networks, each reached by its own label, the second without the cache too.
MCHonest ==
  {On("live", "testnet", TRUE), On("live", "futurenet", TRUE), On("record", "futurenet", FALSE)}

\* A replay next to the run it was recorded from.
MCReplays == {On("record", "testnet", TRUE), On("replay", "testnet", TRUE)}

Symmetry == Permutations(Run)

\* What the steps and properties can depend on when no run is a replay: a fixture
\* is written and never read, and neither is a tape, a hash but to put it, the wasm
\* files before a build, and a cache before it is loaded or after it is saved.
Live(r) ==
  <<phase[r], inv[r], at[r], measured[r],
    IF phase[r] \in {"lookup", "deploy", "save"} THEN <<mem[r], dirty[r], base[r]>> ELSE <<>>,
    IF phase[r] = "deploy" THEN hash[r] ELSE "">>

LiveState ==
  <<code, IF Built = {} THEN code ELSE wasm, disk, empty, overlapped, settled,
    [r \in Run |-> Live(r)]>>
============================================================================
