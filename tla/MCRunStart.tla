----------------------------- MODULE MCRunStart -----------------------------
(***************************************************************************)
(* Command lines: the networks with and without an override and consent,   *)
(* and, around one ordinary run, every other flag alone or in the pairs    *)
(* that meet.  Machines: an ordinary one, and each thing that can be wrong *)
(* with it alone.                                                          *)
(***************************************************************************)
EXTENDS RunStart

MCPassphrases == {"Public", "Test", "Future", "Standalone", "Private"}

Ordinary == [
  init |-> FALSE, force |-> FALSE, markdown |-> FALSE, from |-> FALSE,
  baseline |-> [m \in {"derive", "record", "check"} |-> FALSE],
  json |-> FALSE, csv |-> FALSE, record |-> FALSE, replay |-> FALSE,
  watch |-> FALSE, quiet |-> FALSE, allow_mainnet |-> FALSE,
  network |-> None, source |-> "bob", rpc |-> None, phrase |-> None,
  tolerance |-> None, attempts |-> None, secret |-> None]

Modes(S) == [m \in {"derive", "record", "check"} |-> m \in S]

Networked ==
  {[Ordinary EXCEPT !.network = n, !.rpc = o[1], !.phrase = o[2],
                    !.allow_mainnet = c, !.watch = w] :
     n \in {None, "testnet", "mainnet", "mynet", "Test"},
     o \in {<<None, None>>, <<None, "Public">>, <<"url", "Public">>, <<"url", "Standalone">>},
     c \in BOOLEAN, w \in BOOLEAN}

Tuned ==
  {[Ordinary EXCEPT !.network = n, !.tolerance = t, !.attempts = a] :
     n \in {None, "futurenet"}, t \in {None, "5%", "-5%"}, a \in {None, 0, 1}}

Modal ==
  {[Ordinary EXCEPT !.init = TRUE, !.force = f] : f \in BOOLEAN}
  \cup {[Ordinary EXCEPT !.baseline = Modes(S), !.watch = w] :
          S \in SUBSET {"derive", "record", "check"}, w \in BOOLEAN}
  \cup {[Ordinary EXCEPT !.markdown = TRUE, !.from = f] : f \in BOOLEAN}
  \cup {[Ordinary EXCEPT !.record = r, !.replay = p, !.network = "testnet", !.watch = w] :
          r \in BOOLEAN, p \in BOOLEAN, w \in BOOLEAN}
  \cup {[Ordinary EXCEPT !.json = TRUE, !.csv = c] : c \in BOOLEAN}
  \cup {[Ordinary EXCEPT !.rpc = "url"], [Ordinary EXCEPT !.source = None],
         [Ordinary EXCEPT !.secret = "invalid"], [Ordinary EXCEPT !.quiet = TRUE]}

MCInvocations == Networked \cup Tuned \cup Modal

Key(raw, number) == [raw |-> raw, number |-> number]
MCContents == {
  NoFile, File("malformed", Defaults), File("denied", Defaults),
  File("keys", [Defaults EXCEPT !.network = "mynet", !.attempts = 0]),
  File("keys", [Template EXCEPT !.attempts = 2, !.tolerance = Key("0.05", TRUE)]),
  File("keys", [Template EXCEPT !.tolerance = Key("-5%", FALSE)]),
  File("keys", [Defaults EXCEPT !.source = "carol", !.tolerance = Key("-5%", TRUE)])}

Measured == [k \in ReleaseSettings |-> "measured"]
Machine == [
  tty |-> TRUE, stellar |-> "works", rustup |-> "works", curl |-> "works",
  cargo |-> TRUE, fixture |-> TRUE, report |-> "wrapped", manifest |-> Measured,
  roots |-> <<>>]

MCWorlds ==
  {Machine,
   [Machine EXCEPT !.tty = FALSE],
   [Machine EXCEPT !.cargo = FALSE],
   [Machine EXCEPT !.fixture = FALSE],
   [Machine EXCEPT !.manifest = [k \in {"lto", "debug"} |->
                                   IF k = "lto" THEN "measured" ELSE "other"]]}
  \cup {[Machine EXCEPT !.stellar = s] : s \in {"missing", "failing"}}
  \cup {[Machine EXCEPT !.rustup = s] : s \in {"missing", "failing", "no target"}}
  \cup {[Machine EXCEPT !.curl = s] : s \in {"missing", "failing"}}
  \cup {[Machine EXCEPT !.report = r] : r \in {"missing", "not json", "bare", "version 2"}}
  \cup {[Machine EXCEPT !.roots = r] :
          r \in {<<[a \in {"testnet"} |-> "Public"]>>,
                 <<[a \in {"mynet"} |-> "Test"]>>,
                 <<[a \in {"testnet", "mainnet"} |-> "blank"],
                   [a \in {"testnet", "mainnet"} |-> IF a = "testnet" THEN "Private" ELSE "Test"]>>}}

=============================================================================
