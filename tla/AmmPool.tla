------------------------------ MODULE AmmPool ------------------------------
(***************************************************************************)
(* The constant-product pool of amm-pool-contract, the contract the        *)
(* macros' tests measure: two reserves, the shares in them, and the        *)
(* tracked balances.  A call either completes, returns an error of the     *)
(* contract, or traps, in which case the host undoes what it stored.       *)
(*                                                                         *)
(* Amounts are not negative and nobody burns more shares than there are:   *)
(* the contract checks neither and leaves both to its callers.             *)
(***************************************************************************)
EXTENDS Integers

CONSTANTS
  MaxInt,   \* i128::MAX; a result beyond it traps (overflow-checks = true)
  Amounts,  \* the amounts callers pass
  Minimums  \* the minimal outputs callers ask for

ASSUME MaxIntAssumption == MaxInt \in Nat
ASSUME AmountsAssumption == Amounts \subseteq Nat /\ Minimums \subseteq Nat

Token == {"a", "b"}
Other(t) == IF t = "a" THEN "b" ELSE "a"

Completed == "completed"
AlreadyInitialized == "AlreadyInitialized"
SlippageExceeded == "SlippageExceeded"
Overflow == "overflow"
DivideByZero == "divide by zero"
MissingKey == "missing key"
Traps == {Overflow, DivideByZero, MissingKey}
Results == {Completed, AlreadyInitialized, SlippageExceeded} \cup Traps

VARIABLES
  initialized,  \* whether RESERVE_A, RESERVE_B and TOTAL_SHARES are stored
  reserve,      \* RESERVE_A and RESERVE_B
  shares,       \* TOTAL_SHARES
  balance,      \* BAL_A and BAL_B, read as 0 when absent
  lpBalance,    \* LP_BAL, read as 0 when absent
  result        \* what the last call ended with

books == <<reserve, shares, balance, lpBalance>>
vars == <<initialized, books, result>>

Init ==
  /\ initialized = FALSE
  /\ reserve = [t \in Token |-> 0]
  /\ shares = 0
  /\ balance = [t \in Token |-> 0]
  /\ lpBalance = 0
  /\ result = Completed

----------------------------------------------------------------------------
(* The arithmetic of pool_logic.rs.  On natural numbers \div truncates as  *)
(* Rust's / does.                                                          *)

Min2(m, n) == IF m <= n THEN m ELSE n
Fits(n) == n <= MaxInt

\* Mutant: the square root is rounded up.
IsqrtUp(n) == CHOOSE r \in 0 .. n : n <= r * r /\ (r = 0 \/ (r - 1) * (r - 1) < n)

\* i128::isqrt, the largest number whose square is at most n.
Isqrt(n) == CHOOSE r \in 0 .. n : r * r <= n /\ n < (r + 1) * (r + 1)

\* Mutant: a skewed deposit mints the larger of the two ratios.
SharesOfLarger(a, b) ==
  IF shares = 0 THEN Isqrt(a * b)
  ELSE LET fromA == (a * shares) \div reserve["a"]
           fromB == (b * shares) \div reserve["b"]
       IN  IF fromA <= fromB THEN fromB ELSE fromA

CalculateShares(a, b) ==
  IF shares = 0 THEN Isqrt(a * b)
  ELSE Min2((a * shares) \div reserve["a"], (b * shares) \div reserve["b"])

\* Mutant: the output is rounded up.
OutRoundedUp(t, in) ==
  (reserve[Other(t)] * in + reserve[t] + in - 1) \div (reserve[t] + in)

CalculateAmountOut(t, in) == (reserve[Other(t)] * in) \div (reserve[t] + in)

CalculateWithdraw(t, burnt) == (reserve[t] * burnt) \div shares

----------------------------------------------------------------------------
(* The calls.  The reserves and the tracked balances move together.        *)

Move(paid) ==
  /\ reserve' = [t \in Token |-> reserve[t] + paid[t]]
  /\ balance' = [t \in Token |-> balance[t] + paid[t]]

Mint(n) ==
  /\ shares' = shares + n
  /\ lpBalance' = lpBalance + n

Complete ==
  /\ result' = Completed
  /\ UNCHANGED initialized

\* The host undoes what a failed call stored.  Where both traps are possible the
\* model names the division.
FailWith(r) ==
  /\ result' = r
  /\ UNCHANGED <<initialized, books>>

\* Mutant: the guard on RESERVE_A is gone.
InitializeAgain ==
  /\ initialized' = TRUE
  /\ reserve' = [t \in Token |-> 0]
  /\ shares' = 0
  /\ result' = Completed
  /\ UNCHANGED <<balance, lpBalance>>

Initialize ==
  /\ ~ initialized
  /\ initialized' = TRUE
  /\ reserve' = [t \in Token |-> 0]
  /\ shares' = 0
  /\ result' = Completed
  /\ UNCHANGED <<balance, lpBalance>>

Reinitialize == initialized /\ FailWith(AlreadyInitialized)

\* unwrap() of a reserve: deposit, swap or withdraw before initialize.
Uninitialized == ~ initialized /\ FailWith(MissingKey)

\* Mutant: the sums wrap, only the products are checked.
DepositProductsFit(a, b) ==
  IF shares = 0 THEN Fits(a * b) ELSE Fits(a * shares) /\ Fits(b * shares)

DepositFits(a, b) ==
  /\ shares = 0 => Fits(a * b)
  /\ shares # 0 => Fits(a * shares) /\ Fits(b * shares)
  /\ Fits(reserve["a"] + a)
  /\ Fits(reserve["b"] + b)
  /\ Fits(shares + CalculateShares(a, b))

DepositDivides == shares = 0 \/ \A t \in Token : reserve[t] # 0

Deposit(a, b) ==
  /\ initialized
  /\ DepositDivides
  /\ DepositFits(a, b)
  /\ Move([t \in Token |-> IF t = "a" THEN a ELSE b])
  /\ Mint(CalculateShares(a, b))
  /\ Complete

DepositTraps(a, b) ==
  /\ initialized
  /\ \/ ~ DepositDivides /\ FailWith(DivideByZero)
     \/ DepositDivides /\ ~ DepositFits(a, b) /\ FailWith(Overflow)

SwapFits(t, in) ==
  /\ Fits(reserve[Other(t)] * in)
  /\ Fits(reserve[t] + in)

\* `t' is the token that comes in.
Swap(t, in, least) ==
  /\ initialized
  /\ SwapFits(t, in)
  /\ reserve[t] + in # 0
  /\ LET out == CalculateAmountOut(t, in)
     IN  /\ out >= least
         /\ Move([u \in Token |-> IF u = t THEN in ELSE - out])
  /\ UNCHANGED <<shares, lpBalance>>
  /\ Complete

SwapFails(t, in, least) ==
  /\ initialized
  /\ \/ ~ SwapFits(t, in) /\ FailWith(Overflow)
     \/ SwapFits(t, in) /\ reserve[t] + in = 0 /\ FailWith(DivideByZero)
     \/ /\ SwapFits(t, in) /\ reserve[t] + in # 0
        /\ CalculateAmountOut(t, in) < least
        /\ FailWith(SlippageExceeded)

WithdrawFits(burnt) == \A t \in Token : Fits(reserve[t] * burnt)

Withdraw(burnt, least) ==
  /\ initialized
  /\ WithdrawFits(burnt)
  /\ shares # 0 /\ burnt <= shares
  /\ \A t \in Token : CalculateWithdraw(t, burnt) >= least[t]
  /\ Move([t \in Token |-> - CalculateWithdraw(t, burnt)])
  /\ Mint(- burnt)
  /\ Complete

WithdrawFails(burnt, least) ==
  /\ initialized
  /\ \/ shares = 0 /\ FailWith(DivideByZero)
     \/ /\ shares # 0 /\ burnt <= shares
        /\ ~ WithdrawFits(burnt) /\ FailWith(Overflow)
     \/ /\ shares # 0 /\ burnt <= shares /\ WithdrawFits(burnt)
        /\ \E t \in Token : CalculateWithdraw(t, burnt) < least[t]
        /\ FailWith(SlippageExceeded)

Next ==
  \/ Initialize \/ Reinitialize \/ Uninitialized
  \/ \E a, b \in Amounts : Deposit(a, b) \/ DepositTraps(a, b)
  \/ \E t \in Token, in \in Amounts, least \in Minimums :
       Swap(t, in, least) \/ SwapFails(t, in, least)
  \/ \E burnt \in Amounts, least \in [Token -> Minimums] :
       Withdraw(burnt, least) \/ WithdrawFails(burnt, least)

Spec == Init /\ [][Next]_vars

----------------------------------------------------------------------------
\* What is stored is never negative and never beyond i128, and an
\* uninitialized pool holds nothing.
TypeOK ==
  /\ initialized \in BOOLEAN
  /\ reserve \in [Token -> 0 .. MaxInt]
  /\ shares \in 0 .. MaxInt
  /\ balance \in [Token -> Int]
  /\ lpBalance \in Int
  /\ result \in Results
  /\ ~ initialized => shares = 0 /\ \A t \in Token : reserve[t] = 0

\* Deposit, swap and withdraw each rewrite reserves and tracked balances by
\* formulas of their own, and initialize resets only the reserves: after any
\* sequence of calls the two still agree.
BooksAgree == balance = reserve /\ lpBalance = shares

\* The shares never claim more than the pool holds: their number is at most the
\* geometric mean of the reserves that the first deposit minted it from, however
\* deposits, swaps and withdrawals have truncated since.
SharesBacked == shares * shares <= reserve["a"] * reserve["b"]

\* A pool in which shares are outstanding divides by nothing that is zero: of the
\* arithmetic traps only overflow is left.
DividesSafely == shares # 0 => result # DivideByZero

\* One share's part of the constant product never falls: no rounding of a
\* deposit, a swap or a withdrawal takes from those who keep their shares
\* (pool_logic.rs:52 "cannot dilute", :72 "favours the pool").
ShareValueNeverFalls ==
  [][shares # 0 =>
       (reserve["a"] * reserve["b"]) * (shares' * shares')
         <= (reserve["a"]' * reserve["b"]') * (shares * shares)]_vars
============================================================================
