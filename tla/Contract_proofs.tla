--------------------------- MODULE Contract_proofs ---------------------------
(* What AmmPool, BudgetTest and Instrument promise: the contract under     *)
(* test, for every width of the integers and all amounts, the tests with a *)
(* budget attribute, for all attributes and all values of the world, and   *)
(* what the attributes make of a body, for all bodies of any height.       *)
EXTENDS AmmPool, BudgetTest, Instrument, SequenceTheorems, WellFoundedInduction, TLAPS

----------------------------------------------------------------------------
(* Arithmetic.                                                             *)

(* A larger factor on either side makes a larger product.                  *)
LEMMA ProductMonotone ==
  ASSUME NEW x \in Nat, NEW y \in Nat, NEW u \in Nat, NEW v \in Nat, x <= y, u <= v
  PROVE  x * u <= y * v
<1>1. x * u <= y * u
  BY SMT
<1>2. y * u <= y * v
  BY SMT
<1> QED
  BY <1>1, <1>2, SMT

(* A positive factor cancels.                                              *)
LEMMA Cancel ==
  ASSUME NEW p \in Nat \ {0}, NEW x \in Nat, NEW y \in Nat, p * x <= p * y
  PROVE  x <= y
<1>1. SUFFICES ASSUME y + 1 <= x PROVE FALSE
  BY SMT
<1>2. p * (y + 1) <= p * x
  BY <1>1, ProductMonotone, SMT
<1> QED
  BY <1>2, SMT

(* Division truncates: the quotient times the divisor is at most the       *)
(* dividend.                                                               *)
LEMMA Truncates ==
  ASSUME NEW m \in Nat, NEW n \in Nat \ {0}
  PROVE  m \div n \in Nat /\ (m \div n) * n <= m
  BY SMT

(* A set of naturals that is not empty has a least element.                *)
LEMMA LeastNatural ==
  ASSUME NEW T \in SUBSET Nat, T # {}
  PROVE  \E r \in T : \A k \in T : r <= k
<1>1. PICK r \in T : \A k \in T : ~ (<<k, r>> \in OpToRel(<, Nat))
  BY NatLessThanWellFounded, WFMin, Zenon
<1>2. \A k \in T : k < r => <<k, r>> \in OpToRel(<, Nat)
  BY Zenon DEF OpToRel
<1>3. \A k \in T : ~ (k < r)
  BY <1>1, <1>2, Zenon
<1> QED
  BY <1>3, SMT

(* The integer square root exists: it is the least number the square of    *)
(* whose successor is beyond n.                                            *)
LEMMA IsqrtSquare ==
  ASSUME NEW n \in Nat
  PROVE  Isqrt(n) \in Nat /\ Isqrt(n) * Isqrt(n) <= n
<1> DEFINE Beyond == {r \in Nat : n < (r + 1) * (r + 1)}
<1>1. n \in Beyond
  BY SMT
<1>2. PICK r \in Beyond : \A k \in Beyond : r <= k
  BY <1>1, LeastNatural
<1>3. r \in Nat /\ n < (r + 1) * (r + 1)
  OBVIOUS
<1>4. r * r <= n
  <2>1. CASE r = 0
    BY <2>1, SMT
  <2>2. CASE r # 0
    <3>1. r - 1 \in Nat /\ ~ (r <= r - 1)
      BY <1>3, <2>2, SMT
    <3>2. r - 1 \notin Beyond
      BY <3>1, <1>2
    <3>3. ~ (n < ((r - 1) + 1) * ((r - 1) + 1))
      BY <3>1, <3>2
    <3>4. (r - 1) + 1 = r
      BY <1>3, SMT
    <3> HIDE DEF Beyond
    <3> QED
      BY <3>3, <3>4, <1>3, SMT
  <2> QED
    BY <2>1, <2>2
<1>5. r <= n
  <2>1. CASE r = 0
    BY <2>1, SMT
  <2>2. CASE r # 0
    <3>1. 1 * r <= r * r
      BY <1>3, <2>2, ProductMonotone, SMT
    <3> HIDE DEF Beyond
    <3> QED
      BY <3>1, <1>3, <1>4, SMT
  <2> QED
    BY <2>1, <2>2
<1>6. r \in 0 .. n
  BY <1>3, <1>5, SMT
<1> HIDE DEF Beyond
<1>7. Isqrt(n) \in 0 .. n /\ Isqrt(n) * Isqrt(n) <= n
  BY <1>3, <1>4, <1>6 DEF Isqrt
<1> QED
  BY <1>7, SMT

----------------------------------------------------------------------------
(* One share's part of the product, as a relation of the pool before, with *)
(* reserves ra and rb and s shares, to the pool after.                     *)

NotDiluted(ra, rb, s, ra2, rb2, s2) == (ra * rb) * (s2 * s2) <= (ra2 * rb2) * (s * s)

(* If neither reserve per share falls, neither does their product.         *)
LEMMA PerShare ==
  ASSUME NEW ra \in Nat, NEW rb \in Nat, NEW s \in Nat,
         NEW ra2 \in Nat, NEW rb2 \in Nat, NEW s2 \in Nat,
         ra * s2 <= ra2 * s, rb * s2 <= rb2 * s
  PROVE  NotDiluted(ra, rb, s, ra2, rb2, s2)
<1>1. (ra * s2) * (rb * s2) <= (ra2 * s) * (rb2 * s)
  <2>1. /\ ra * s2 \in Nat /\ ra2 * s \in Nat
        /\ rb * s2 \in Nat /\ rb2 * s \in Nat
    BY SMT
  <2> QED
    BY <2>1, ProductMonotone
<1>2. (ra * s2) * (rb * s2) = (ra * rb) * (s2 * s2)
  BY SMT
<1>3. (ra2 * s) * (rb2 * s) = (ra2 * rb2) * (s * s)
  BY SMT
<1> QED
  BY <1>1, <1>2, <1>3 DEF NotDiluted

(* A pool that is backed and not diluted is still backed.                  *)
LEMMA StaysBacked ==
  ASSUME NEW ra \in Nat, NEW rb \in Nat, NEW s \in Nat \ {0},
         NEW ra2 \in Nat, NEW rb2 \in Nat, NEW s2 \in Nat,
         s * s <= ra * rb, NotDiluted(ra, rb, s, ra2, rb2, s2)
  PROVE  s2 * s2 <= ra2 * rb2
<1>1. /\ s * s \in Nat \ {0} /\ s2 * s2 \in Nat
      /\ ra * rb \in Nat /\ ra2 * rb2 \in Nat
  BY SMT
<1>2. (s * s) * (s2 * s2) <= (ra * rb) * (s2 * s2)
  BY <1>1, ProductMonotone, SMT
<1>3. (s * s) * (s2 * s2) <= (s * s) * (ra2 * rb2)
  <2>1. (ra2 * rb2) * (s * s) = (s * s) * (ra2 * rb2)
    BY <1>1, SMT
  <2>2. (ra * rb) * (s2 * s2) \in Nat /\ (s * s) * (ra2 * rb2) \in Nat
    BY <1>1, SMT
  <2>3. (s * s) * (s2 * s2) \in Nat
    BY <1>1, SMT
  <2>4. (ra * rb) * (s2 * s2) <= (s * s) * (ra2 * rb2)
    BY <2>1 DEF NotDiluted
  <2> HIDE DEF NotDiluted
  <2>5. \A x, y, z \in Nat : x <= y /\ y <= z => x <= z
    BY SMT
  <2> QED
    BY <1>2, <2>2, <2>3, <2>4, <2>5
<1> QED
  BY <1>1, <1>3, Cancel

(* Shares whose value neither reserve could give more for were minted.     *)
LEMMA DepositKeeps ==
  ASSUME NEW r \in Nat \ {0}, NEW s \in Nat, NEW amount \in Nat, NEW n \in Nat,
         n <= (amount * s) \div r
  PROVE  r * (s + n) <= (r + amount) * s
<1>1. amount * s \in Nat
  BY SMT
<1>2. ((amount * s) \div r) \in Nat /\ ((amount * s) \div r) * r <= amount * s
  BY <1>1, Truncates
<1>3. n * r <= ((amount * s) \div r) * r
  BY <1>2, ProductMonotone, SMT
<1>4. n * r <= amount * s
  BY <1>1, <1>2, <1>3, SMT
<1> QED
  BY <1>4, SMT

(* What a withdrawal pays is at most its part of the reserve.              *)
LEMMA WithdrawKeeps ==
  ASSUME NEW r \in Nat, NEW s \in Nat \ {0}, NEW n \in 0 .. s
  PROVE  LET paid == (r * n) \div s
         IN  paid \in 0 .. r /\ r * (s - n) <= (r - paid) * s
<1> DEFINE paid == (r * n) \div s
<1>1. n \in Nat /\ n <= s /\ r * n \in Nat
  BY SMT
<1>2. paid \in Nat /\ paid * s <= r * n
  BY <1>1, Truncates
<1> HIDE DEF paid
<1>3. r * n <= r * s
  BY <1>1, ProductMonotone, SMT
<1>4. s * paid <= s * r
  BY <1>1, <1>2, <1>3, SMT
<1>5. paid <= r
  BY <1>2, <1>4, Cancel
<1>6. r * (s - n) = r * s - r * n /\ (r - paid) * s = r * s - paid * s
  BY <1>1, <1>2, SMT
<1>7. paid \in 0 .. r /\ r * (s - n) <= (r - paid) * s
  BY <1>1, <1>2, <1>5, <1>6, SMT
<1> QED
  BY <1>7 DEF paid

(* What a swap pays leaves at least the product there was.                 *)
LEMMA SwapKeeps ==
  ASSUME NEW inReserve \in Nat, NEW outReserve \in Nat, NEW in \in Nat,
         inReserve + in # 0
  PROVE  LET out == (outReserve * in) \div (inReserve + in)
         IN  /\ out \in 0 .. outReserve
             /\ inReserve * outReserve <= (inReserve + in) * (outReserve - out)
<1> DEFINE total == inReserve + in
           out == (outReserve * in) \div total
<1>1. total \in Nat \ {0} /\ in <= total /\ outReserve * in \in Nat
  BY SMT
<1>2. out \in Nat /\ out * total <= outReserve * in
  BY <1>1, Truncates
<1> HIDE DEF out
<1>3. outReserve * in <= outReserve * total
  <2> HIDE DEF total
  <2> QED
    BY <1>1, ProductMonotone, SMT
<1>4. total * out <= total * outReserve
  <2> HIDE DEF total
  <2> QED
    BY <1>1, <1>2, <1>3, SMT
<1>5. out <= outReserve
  <2> HIDE DEF total
  <2> QED
    BY <1>1, <1>2, <1>4, Cancel
<1>6. total * (outReserve - out) = total * outReserve - total * out
  <2> HIDE DEF total
  <2> QED
    BY <1>1, <1>2, SMT
<1>7. total * outReserve = inReserve * outReserve + outReserve * in
  BY SMT
<1>8. inReserve * outReserve <= total * (outReserve - out)
  <2>1. total * out <= outReserve * in
    <3> HIDE DEF total
    <3> QED
      BY <1>1, <1>2, SMT
  <2> HIDE DEF total
  <2> QED
    BY <1>1, <1>2, <1>6, <1>7, <2>1, SMT
<1>9. out \in 0 .. outReserve
  BY <1>2, <1>5, SMT
<1> QED
  BY <1>8, <1>9 DEF out, total

----------------------------------------------------------------------------
(* The invariant: none of its parts is inductive alone.  That reserves stay *)
(* in range needs the pricing lemmas, that nothing divides by zero needs    *)
(* SharesBacked, and SharesBacked needs that no call dilutes.               *)

IInv == TypeOK /\ BooksAgree /\ SharesBacked /\ DividesSafely

StepKeepsValue ==
  shares # 0 => NotDiluted(reserve["a"], reserve["b"], shares,
                           reserve'["a"], reserve'["b"], shares')

(* The books as numbers.                                                   *)
LEMMA Numbers ==
  ASSUME TypeOK
  PROVE  /\ reserve["a"] \in Nat /\ reserve["b"] \in Nat /\ shares \in Nat
         /\ \A t \in Token : reserve[t] \in Nat /\ reserve[t] <= MaxInt
         /\ shares <= MaxInt
         /\ DOMAIN reserve = Token /\ DOMAIN balance = Token
<1>1. reserve \in [Token -> 0 .. MaxInt] /\ shares \in 0 .. MaxInt
      /\ balance \in [Token -> Int]
  BY DEF TypeOK
<1>2. \A t \in Token : reserve[t] \in 0 .. MaxInt
  BY <1>1
<1>3. "a" \in Token /\ "b" \in Token
  BY DEF Token
<1> QED
  BY <1>1, <1>2, <1>3, MaxIntAssumption, SMT

(* Outstanding shares mean that neither reserve is empty.                  *)
LEMMA ReservesWithShares ==
  ASSUME TypeOK, SharesBacked, shares # 0
  PROVE  \A t \in Token : reserve[t] # 0
<1>1. reserve["a"] \in Nat /\ reserve["b"] \in Nat /\ shares \in Nat \ {0}
  BY Numbers
<1>2. 1 <= shares * shares
  BY <1>1, SMT
<1>3. 1 <= reserve["a"] * reserve["b"]
  BY <1>1, <1>2, SMT DEF SharesBacked
<1>4. reserve["a"] # 0 /\ reserve["b"] # 0
  BY <1>1, <1>3, SMT
<1> QED
  BY <1>4 DEF Token

(* A failed call leaves the books and the invariant as they are.  Of the    *)
(* failures only a division by zero is restricted.                          *)
LEMMA FailureStep ==
  ASSUME IInv, NEW r \in Results, FailWith(r), shares # 0 => r # DivideByZero
  PROVE  IInv' /\ UNCHANGED <<reserve, shares>>
<1>1. UNCHANGED <<initialized, reserve, shares, balance, lpBalance>> /\ result' = r
  BY DEF FailWith, books
<1>2. TypeOK'
  BY <1>1 DEF IInv, TypeOK
<1>3. BooksAgree' /\ SharesBacked' /\ DividesSafely'
  BY <1>1 DEF IInv, BooksAgree, SharesBacked, DividesSafely
<1> QED
  BY <1>1, <1>2, <1>3 DEF IInv

LEMMA UnchangedValue ==
  ASSUME IInv, UNCHANGED <<reserve, shares>>
  PROVE  StepKeepsValue
<1>1. reserve["a"] \in Nat /\ reserve["b"] \in Nat /\ shares \in Nat
  BY Numbers DEF IInv
<1>2. (reserve["a"] * reserve["b"]) * (shares * shares) \in Nat
  BY <1>1, SMT
<1> QED
  BY <1>2, SMT DEF StepKeepsValue, NotDiluted

(* A call that completes: it is enough that the new books are in range,     *)
(* agree as the old ones did, and are not diluted.                          *)
LEMMA CompletedStep ==
  ASSUME IInv, initialized, Complete, StepKeepsValue,
         NEW paid \in [Token -> Int], Move(paid), NEW n \in Int, Mint(n),
         \A t \in Token : reserve[t] + paid[t] \in 0 .. MaxInt,
         shares + n \in 0 .. MaxInt,
         shares = 0 => SharesBacked'
  PROVE  IInv'
<1> USE DEF IInv
<1>1. /\ reserve' = [t \in Token |-> reserve[t] + paid[t]]
      /\ balance' = [t \in Token |-> balance[t] + paid[t]]
      /\ shares' = shares + n /\ lpBalance' = lpBalance + n
      /\ result' = Completed /\ initialized' = initialized
  BY DEF Move, Mint, Complete
<1>2. balance' = reserve' /\ lpBalance' = shares'
  BY <1>1 DEF BooksAgree
<1>3. TypeOK'
  <2>1. reserve' \in [Token -> 0 .. MaxInt] /\ shares' \in 0 .. MaxInt
    BY <1>1
  <2>2. balance' \in [Token -> Int] /\ lpBalance' \in Int
    BY <1>2, <2>1, MaxIntAssumption, SMT
  <2>3. result' \in Results /\ initialized' = TRUE
    BY <1>1 DEF Results, TypeOK
  <2> QED
    BY <2>1, <2>2, <2>3 DEF TypeOK
<1>4. SharesBacked'
  <2>1. CASE shares = 0
    BY <2>1
  <2>2. CASE shares # 0
    <3>1. reserve["a"] \in Nat /\ reserve["b"] \in Nat /\ shares \in Nat \ {0}
      BY <2>2, Numbers
    <3>2. "a" \in Token /\ "b" \in Token
      BY DEF Token
    <3>3. reserve'["a"] \in Nat /\ reserve'["b"] \in Nat /\ shares' \in Nat
      BY <1>3, <3>2, MaxIntAssumption, SMT DEF TypeOK
    <3>4. shares * shares <= reserve["a"] * reserve["b"]
      BY DEF SharesBacked
    <3>5. NotDiluted(reserve["a"], reserve["b"], shares,
                     reserve'["a"], reserve'["b"], shares')
      BY <2>2 DEF StepKeepsValue
    <3>6. shares' * shares' <= reserve'["a"] * reserve'["b"]
      BY <3>1, <3>3, <3>4, <3>5, StaysBacked
    <3> QED
      BY <3>6 DEF SharesBacked
  <2> QED
    BY <2>1, <2>2
<1>5. DividesSafely'
  BY <1>1 DEF DividesSafely, Completed, DivideByZero
<1> QED
  BY <1>2, <1>3, <1>4, <1>5 DEF BooksAgree

----------------------------------------------------------------------------
(* The calls.                                                              *)

(* What a deposit mints: a number that dilutes neither reserve, and one     *)
(* that the first deposit's amounts back.                                   *)
LEMMA Minted ==
  ASSUME IInv, NEW a \in Nat, NEW b \in Nat, DepositDivides
  PROVE  LET n == CalculateShares(a, b)
         IN  /\ n \in Nat
             /\ shares = 0 => n * n <= a * b
             /\ shares # 0 => /\ reserve["a"] * (shares + n) <= (reserve["a"] + a) * shares
                              /\ reserve["b"] * (shares + n) <= (reserve["b"] + b) * shares
<1> DEFINE n == CalculateShares(a, b)
<1>1. reserve["a"] \in Nat /\ reserve["b"] \in Nat /\ shares \in Nat
  BY Numbers DEF IInv
<1>2. CASE shares = 0
  <2>1. a * b \in Nat
    BY SMT
  <2>2. n = Isqrt(a * b)
    BY <1>2 DEF CalculateShares
  <2> QED
    BY <2>1, <2>2, <1>2, IsqrtSquare
<1>3. CASE shares # 0
  <2>1. reserve["a"] \in Nat \ {0} /\ reserve["b"] \in Nat \ {0}
    BY <1>1, <1>3 DEF DepositDivides, Token
  <2>2. a * shares \in Nat /\ b * shares \in Nat
    BY <1>1, SMT
  <2> DEFINE fromA == (a * shares) \div reserve["a"]
             fromB == (b * shares) \div reserve["b"]
  <2>3. fromA \in Nat /\ fromB \in Nat
    BY <2>1, <2>2, Truncates
  <2>4. n = Min2(fromA, fromB)
    BY <1>3 DEF CalculateShares
  <2> HIDE DEF n, fromA, fromB
  <2>5. n \in Nat /\ n <= fromA /\ n <= fromB
    BY <2>3, <2>4, SMT DEF Min2
  <2>6. reserve["a"] * (shares + n) <= (reserve["a"] + a) * shares
    BY <1>1, <2>1, <2>5, DepositKeeps DEF fromA
  <2>7. reserve["b"] * (shares + n) <= (reserve["b"] + b) * shares
    BY <1>1, <2>1, <2>5, DepositKeeps DEF fromB
  <2> QED
    BY <1>3, <2>5, <2>6, <2>7 DEF n
<1> QED
  BY <1>2, <1>3

LEMMA DepositStep ==
  ASSUME IInv, NEW a \in Amounts, NEW b \in Amounts, Deposit(a, b)
  PROVE  IInv' /\ StepKeepsValue
<1> DEFINE n == CalculateShares(a, b)
           paid == [t \in Token |-> IF t = "a" THEN a ELSE b]
<1>1. a \in Nat /\ b \in Nat
  BY AmountsAssumption
<1>2. /\ initialized /\ DepositDivides /\ DepositFits(a, b)
      /\ Move(paid) /\ Mint(n) /\ Complete
  BY DEF Deposit
<1>3. reserve["a"] \in Nat /\ reserve["b"] \in Nat /\ shares \in Nat
  BY Numbers DEF IInv
<1>4. /\ n \in Nat
      /\ shares = 0 => n * n <= a * b
      /\ shares # 0 => /\ reserve["a"] * (shares + n) <= (reserve["a"] + a) * shares
                       /\ reserve["b"] * (shares + n) <= (reserve["b"] + b) * shares
  BY <1>1, <1>2, Minted
<1>5. /\ reserve["a"] + a <= MaxInt /\ reserve["b"] + b <= MaxInt
      /\ shares + n <= MaxInt
  BY <1>2 DEF DepositFits, Fits
<1> HIDE DEF n
<1>6. /\ reserve' = [t \in Token |-> reserve[t] + paid[t]]
      /\ shares' = shares + n
  BY <1>2 DEF Move, Mint
<1>7. reserve'["a"] = reserve["a"] + a /\ reserve'["b"] = reserve["b"] + b
  BY <1>6 DEF Token
<1>8. StepKeepsValue
  <2>1. SUFFICES ASSUME shares # 0
                 PROVE  NotDiluted(reserve["a"], reserve["b"], shares,
                                   reserve["a"] + a, reserve["b"] + b, shares + n)
    BY <1>6, <1>7 DEF StepKeepsValue
  <2>2. reserve["a"] + a \in Nat /\ reserve["b"] + b \in Nat /\ shares + n \in Nat
    BY <1>1, <1>3, <1>4, SMT
  <2> QED
    BY <1>3, <1>4, <2>1, <2>2, PerShare
<1>9. \A t \in Token : reserve[t] + paid[t] \in 0 .. MaxInt
  BY <1>1, <1>3, <1>5, MaxIntAssumption, SMT DEF Token
<1>10. shares + n \in 0 .. MaxInt
  BY <1>3, <1>4, <1>5, MaxIntAssumption, SMT
<1>11. shares = 0 => SharesBacked'
  <2>1. SUFFICES ASSUME shares = 0 PROVE SharesBacked'
    OBVIOUS
  <2>2. n * n <= a * b /\ shares' = n
    BY <1>3, <1>4, <1>6, <2>1, SMT
  <2>3. a * b <= (reserve["a"] + a) * (reserve["b"] + b)
    <3>1. /\ reserve["a"] + a \in Nat /\ a <= reserve["a"] + a
          /\ reserve["b"] + b \in Nat /\ b <= reserve["b"] + b
      BY <1>1, <1>3, SMT
    <3> QED
      BY <1>1, <3>1, ProductMonotone
  <2>4. n * n <= (reserve["a"] + a) * (reserve["b"] + b)
    BY <1>1, <1>3, <1>4, <2>2, <2>3, SMT
  <2> QED
    BY <1>7, <2>2, <2>4 DEF SharesBacked
<1>12. paid \in [Token -> Int] /\ n \in Int
  BY <1>1, <1>4, SMT
<1> QED
  BY <1>2, <1>8, <1>9, <1>10, <1>11, <1>12, CompletedStep

LEMMA SwapStep ==
  ASSUME IInv, NEW t \in Token, NEW in \in Amounts, NEW least, Swap(t, in, least)
  PROVE  IInv' /\ StepKeepsValue
<1> DEFINE o == Other(t)
           out == CalculateAmountOut(t, in)
           paid == [u \in Token |-> IF u = t THEN in ELSE - out]
<1>1. in \in Nat
  BY AmountsAssumption
<1>2. /\ initialized /\ SwapFits(t, in) /\ reserve[t] + in # 0
      /\ Move(paid) /\ Complete /\ UNCHANGED <<shares, lpBalance>>
  BY DEF Swap
<1>3. /\ reserve[t] \in Nat /\ reserve[o] \in Nat /\ shares \in Nat
      /\ shares <= MaxInt /\ reserve[o] <= MaxInt /\ lpBalance \in Int
  <2>1. o \in Token
    BY DEF Token, Other
  <2> HIDE DEF o
  <2> QED
    BY <2>1, Numbers DEF IInv, TypeOK
<1>4. /\ out \in 0 .. reserve[o]
      /\ reserve[t] * reserve[o] <= (reserve[t] + in) * (reserve[o] - out)
  <2>1. out = (reserve[o] * in) \div (reserve[t] + in)
    BY DEF CalculateAmountOut
  <2> HIDE DEF out, o
  <2> QED
    BY <1>1, <1>2, <1>3, <2>1, SwapKeeps
<1>5. reserve[t] + in <= MaxInt
  BY <1>2 DEF SwapFits, Fits
<1> HIDE DEF out
<1>6. /\ reserve' = [u \in Token |-> reserve[u] + paid[u]]
      /\ shares' = shares
  BY <1>2 DEF Move
<1>7. reserve'[t] = reserve[t] + in /\ reserve'[o] = reserve[o] - out
  <2>1. o \in Token /\ o # t
    BY DEF Token, Other
  <2>2. paid[t] = in /\ paid[o] = - out
    BY <2>1
  <2> QED
    BY <1>3, <1>4, <1>6, <2>1, <2>2, SMT
<1>8. (t = "a" /\ o = "b") \/ (t = "b" /\ o = "a")
  BY DEF Token, Other
<1>9. reserve["a"] * reserve["b"] <= reserve'["a"] * reserve'["b"]
  <2>1. reserve[t] * reserve[o] <= reserve'[t] * reserve'[o]
    BY <1>4, <1>7
  <2>2. /\ reserve[t] * reserve[o] = reserve[o] * reserve[t]
        /\ reserve'[t] * reserve'[o] = reserve'[o] * reserve'[t]
    BY <1>1, <1>3, <1>4, <1>7, SMT
  <2> HIDE DEF o
  <2> QED
    BY <1>8, <2>1, <2>2
<1>10. /\ reserve["a"] * reserve["b"] \in Nat
       /\ reserve'["a"] * reserve'["b"] \in Nat
       /\ shares * shares \in Nat
  <2>1. /\ reserve[t] + in \in Nat /\ reserve[o] - out \in Nat
    BY <1>1, <1>3, <1>4, SMT
  <2> HIDE DEF o
  <2> QED
    BY <1>3, <1>7, <1>8, <2>1, SMT
<1>11. StepKeepsValue
  BY <1>6, <1>9, <1>10, ProductMonotone, SMT DEF StepKeepsValue, NotDiluted
<1>12. \A u \in Token : reserve[u] + paid[u] \in 0 .. MaxInt
  <2>1. /\ reserve[t] + in \in 0 .. MaxInt
        /\ reserve[o] - out \in 0 .. MaxInt
    BY <1>1, <1>3, <1>4, <1>5, MaxIntAssumption, SMT
  <2>2. \A u \in Token : reserve[u] + paid[u] = reserve'[u]
    BY <1>6
  <2>3. \A u \in Token : u = t \/ u = o
    BY DEF Token, Other
  <2> HIDE DEF o, paid
  <2> QED
    BY <1>7, <2>1, <2>2, <2>3
<1>13. Mint(0)
  BY <1>2, <1>3, SMT DEF Mint
<1>14. shares + 0 \in 0 .. MaxInt
  BY <1>3, MaxIntAssumption, SMT
<1>15. shares = 0 => SharesBacked'
  BY <1>6, <1>10, SMT DEF SharesBacked
<1>16. paid \in [Token -> Int]
  BY <1>1, <1>3, <1>4, SMT
<1> HIDE DEF paid
<1> QED
  BY <1>2, <1>11, <1>12, <1>13, <1>14, <1>15, <1>16, CompletedStep

LEMMA WithdrawStep ==
  ASSUME IInv, NEW burnt \in Amounts, NEW least, Withdraw(burnt, least)
  PROVE  IInv' /\ StepKeepsValue
<1> DEFINE pays(t) == CalculateWithdraw(t, burnt)
           paid == [t \in Token |-> - pays(t)]
<1>1. burnt \in Nat
  BY AmountsAssumption
<1>2. /\ initialized /\ shares # 0 /\ burnt <= shares
      /\ Move(paid) /\ Mint(- burnt) /\ Complete
  BY DEF Withdraw
<1>3. /\ reserve["a"] \in Nat /\ reserve["b"] \in Nat
      /\ \A t \in Token : reserve[t] \in Nat /\ reserve[t] <= MaxInt
      /\ shares \in Nat \ {0} /\ shares <= MaxInt
  BY <1>2, Numbers DEF IInv
<1>4. burnt \in 0 .. shares
  BY <1>1, <1>2, <1>3, SMT
<1>5. ASSUME NEW t \in Token
      PROVE  /\ pays(t) \in 0 .. reserve[t]
             /\ reserve[t] * (shares - burnt) <= (reserve[t] - pays(t)) * shares
  <2>1. pays(t) = (reserve[t] * burnt) \div shares
    BY DEF CalculateWithdraw
  <2> HIDE DEF pays
  <2> QED
    BY <1>3, <1>4, <2>1, WithdrawKeeps
<1> HIDE DEF pays
<1>6. /\ reserve' = [t \in Token |-> reserve[t] + paid[t]]
      /\ shares' = shares + (- burnt)
  BY <1>2 DEF Move, Mint
<1>7. "a" \in Token /\ "b" \in Token
  BY DEF Token
<1>8. \A t \in Token : reserve'[t] = reserve[t] - pays(t)
  BY <1>3, <1>5, <1>6, SMT
<1>9. shares' = shares - burnt /\ shares - burnt \in Nat
  BY <1>1, <1>2, <1>3, <1>6, SMT
<1>10. StepKeepsValue
  <2>1. \A t \in Token : reserve[t] - pays(t) \in Nat
    BY <1>3, <1>5, SMT
  <2>2. NotDiluted(reserve["a"], reserve["b"], shares,
                   reserve["a"] - pays("a"), reserve["b"] - pays("b"), shares - burnt)
    BY <1>3, <1>5, <1>7, <1>9, <2>1, PerShare
  <2> QED
    BY <1>7, <1>8, <1>9, <2>2 DEF StepKeepsValue
<1>11. \A t \in Token : reserve[t] + paid[t] \in 0 .. MaxInt
  BY <1>3, <1>5, MaxIntAssumption, SMT
<1>12. shares + (- burnt) \in 0 .. MaxInt
  BY <1>1, <1>2, <1>3, MaxIntAssumption, SMT
<1>13. paid \in [Token -> Int] /\ - burnt \in Int
  BY <1>1, <1>3, <1>5, SMT
<1> HIDE DEF paid
<1> QED
  BY <1>2, <1>10, <1>11, <1>12, <1>13, CompletedStep

LEMMA InitializeStep ==
  ASSUME IInv, Initialize
  PROVE  IInv' /\ StepKeepsValue
<1>1. /\ ~ initialized /\ initialized' = TRUE /\ result' = Completed
      /\ reserve' = [t \in Token |-> 0] /\ shares' = 0
      /\ balance' = balance /\ lpBalance' = lpBalance
  BY DEF Initialize
<1>2. shares = 0 /\ (\A t \in Token : reserve[t] = 0) /\ reserve \in [Token -> 0 .. MaxInt]
  BY <1>1 DEF IInv, TypeOK
<1>3. reserve' = reserve /\ shares' = shares
  BY <1>1, <1>2
<1>4. TypeOK'
  BY <1>1, <1>3 DEF IInv, TypeOK, Results
<1>5. BooksAgree' /\ SharesBacked'
  BY <1>1, <1>3 DEF IInv, BooksAgree, SharesBacked
<1>6. DividesSafely' /\ StepKeepsValue
  BY <1>1, <1>2 DEF DividesSafely, StepKeepsValue
<1> QED
  BY <1>4, <1>5, <1>6 DEF IInv

LEMMA Initially == Init => IInv
<1> SUFFICES ASSUME Init PROVE IInv
  OBVIOUS
<1>1. 0 \in 0 .. MaxInt
  BY MaxIntAssumption, SMT
<1>2. TypeOK
  <2>1. reserve \in [Token -> 0 .. MaxInt] /\ balance \in [Token -> Int]
    BY <1>1 DEF Init
  <2>2. shares \in 0 .. MaxInt /\ lpBalance \in Int /\ result \in Results
    BY <1>1 DEF Init, Results
  <2>3. initialized \in BOOLEAN
    BY Zenon DEF Init
  <2>4. shares = 0 /\ \A t \in Token : reserve[t] = 0
    BY DEF Init
  <2> QED
    BY <2>1, <2>2, <2>3, <2>4 DEF TypeOK
<1>3. BooksAgree /\ DividesSafely
  BY DEF Init, BooksAgree, DividesSafely
<1>4. SharesBacked
  BY SMT DEF Init, SharesBacked, Token
<1> QED
  BY <1>2, <1>3, <1>4 DEF IInv

LEMMA Inductive == IInv /\ [Next]_vars => IInv' /\ StepKeepsValue
<1> SUFFICES ASSUME IInv, [Next]_vars PROVE IInv' /\ StepKeepsValue
  OBVIOUS
<1> DEFINE Fails(r) == r \in Results /\ FailWith(r) /\ (shares # 0 => r # DivideByZero)
<1>1. ASSUME NEW r, Fails(r) PROVE IInv' /\ StepKeepsValue
  BY <1>1, FailureStep, UnchangedValue
<1>2. /\ AlreadyInitialized # DivideByZero /\ SlippageExceeded # DivideByZero
      /\ Overflow # DivideByZero /\ MissingKey # DivideByZero
      /\ {AlreadyInitialized, SlippageExceeded, Overflow, MissingKey, DivideByZero}
           \subseteq Results
  BY DEF AlreadyInitialized, SlippageExceeded, Overflow, MissingKey, DivideByZero,
         Results, Traps
<1>3. shares # 0 => \A t \in Token : reserve[t] # 0
  BY ReservesWithShares DEF IInv
<1>4. CASE Initialize
  BY <1>4, InitializeStep
<1>5. CASE Reinitialize
  BY <1>1, <1>2, <1>5 DEF Reinitialize
<1>6. CASE Uninitialized
  BY <1>1, <1>2, <1>6 DEF Uninitialized
<1>7. ASSUME NEW a \in Amounts, NEW b \in Amounts, Deposit(a, b) \/ DepositTraps(a, b)
      PROVE  IInv' /\ StepKeepsValue
  <2>1. CASE Deposit(a, b)
    BY <2>1, DepositStep
  <2>2. CASE DepositTraps(a, b)
    <3>1. DepositDivides \/ shares = 0
      BY <1>3 DEF DepositDivides
    <3>2. Fails(DivideByZero) \/ Fails(Overflow)
      BY <1>2, <2>2, <3>1 DEF DepositTraps, DepositDivides
    <3> QED
      BY <1>1, <3>2
  <2> QED
    BY <1>7, <2>1, <2>2
<1>8. ASSUME NEW t \in Token, NEW in \in Amounts, NEW least \in Minimums,
             Swap(t, in, least) \/ SwapFails(t, in, least)
      PROVE  IInv' /\ StepKeepsValue
  <2>1. CASE Swap(t, in, least)
    BY <2>1, SwapStep
  <2>2. CASE SwapFails(t, in, least)
    <3>1. reserve[t] \in Nat /\ in \in Nat
      BY Numbers, AmountsAssumption DEF IInv
    <3>2. reserve[t] + in = 0 => shares = 0
      <4>1. reserve[t] + in = 0 => reserve[t] = 0
        BY <3>1, SMT
      <4> QED
        BY <1>3, <4>1
    <3>3. Fails(Overflow) \/ Fails(DivideByZero) \/ Fails(SlippageExceeded)
      BY <1>2, <2>2, <3>2 DEF SwapFails
    <3> QED
      BY <1>1, <3>3
  <2> QED
    BY <1>8, <2>1, <2>2
<1>9. ASSUME NEW burnt \in Amounts, NEW least \in [Token -> Minimums],
             Withdraw(burnt, least) \/ WithdrawFails(burnt, least)
      PROVE  IInv' /\ StepKeepsValue
  <2>1. CASE Withdraw(burnt, least)
    BY <2>1, WithdrawStep
  <2>2. CASE WithdrawFails(burnt, least)
    <3>1. Fails(DivideByZero) \/ Fails(Overflow) \/ Fails(SlippageExceeded)
      BY <1>2, <2>2 DEF WithdrawFails
    <3> QED
      BY <1>1, <3>1
  <2> QED
    BY <1>9, <2>1, <2>2
<1>10. CASE UNCHANGED vars
  <2>1. UNCHANGED <<initialized, reserve, shares, balance, lpBalance, result>>
    BY <1>10 DEF vars, books
  <2>2. IInv'
    BY <2>1 DEF IInv, TypeOK, BooksAgree, SharesBacked, DividesSafely
  <2> QED
    BY <2>1, <2>2, UnchangedValue
<1> QED
  BY <1>4, <1>5, <1>6, <1>7, <1>8, <1>9, <1>10 DEF Next

LEMMA Invariance == Spec => []IInv
<1>1. IInv /\ [Next]_vars => IInv'
  BY Inductive
<1> QED
  BY <1>1, Initially, PTL DEF Spec

----------------------------------------------------------------------------
(* Reserves and shares stay within i128 and never go below zero.            *)
THEOREM TypeCorrect == Spec => []TypeOK
<1>1. IInv => TypeOK
  BY DEF IInv
<1> QED
  BY <1>1, Invariance, PTL

(* The tracked balances are the reserves after any sequence of calls.       *)
THEOREM BooksNeverDiffer == Spec => []BooksAgree
<1>1. IInv => BooksAgree
  BY DEF IInv
<1> QED
  BY <1>1, Invariance, PTL

(* The square of the shares is at most the product of the reserves.         *)
THEOREM AlwaysBacked == Spec => []SharesBacked
<1>1. IInv => SharesBacked
  BY DEF IInv
<1> QED
  BY <1>1, Invariance, PTL

(* While shares are outstanding no call divides by zero.                    *)
THEOREM NeverDividesByZero == Spec => []DividesSafely
<1>1. IInv => DividesSafely
  BY DEF IInv
<1> QED
  BY <1>1, Invariance, PTL

(* No call, whatever it truncates, lowers the product that stands behind a  *)
(* share: the rounding never favours the caller.                            *)
THEOREM RoundingFavoursThePool == Spec => ShareValueNeverFalls
<1>1. IInv /\ [Next]_vars =>
        [shares # 0 =>
           (reserve["a"] * reserve["b"]) * (shares' * shares')
             <= (reserve["a"]' * reserve["b"]') * (shares * shares)]_vars
  <2> SUFFICES ASSUME IInv, [Next]_vars, shares # 0
               PROVE  (reserve["a"] * reserve["b"]) * (shares' * shares')
                        <= (reserve["a"]' * reserve["b"]') * (shares * shares)
    OBVIOUS
  <2>1. StepKeepsValue
    BY Inductive
  <2> QED
    BY <2>1 DEF StepKeepsValue, NotDiluted
<1> QED
  BY <1>1, Invariance, PTL DEF Spec, ShareValueNeverFalls

----------------------------------------------------------------------------
(* Naturals: a set that holds each number of which it holds the smaller    *)
(* ones holds all.                                                         *)
LEMMA SmallerFirst ==
  ASSUME NEW S, \A n \in Nat : (\A m \in 0..(n - 1) : m \in S) => n \in S
  PROVE  Nat \subseteq S
<1> SUFFICES ASSUME ~(Nat \subseteq S) PROVE FALSE
  OBVIOUS
<1> DEFINE T == Nat \ S
<1>1. PICK r \in T : \A k \in T : r <= k
  <2>1. T \in SUBSET Nat /\ T # {}
    OBVIOUS
  <2> HIDE DEF T
  <2> QED
    BY <2>1, LeastNatural
<1>2. \A m \in 0..(r - 1) : m \in S
  BY <1>1
<1> QED
  BY <1>1, <1>2

----------------------------------------------------------------------------
(* Token sequences.                                                        *)

AnyToken == STRING \cup {","}
Tokens == Seq(AnyToken)

LEMMA DropIs ==
  ASSUME NEW in \in Tokens, NEW j \in Nat
  PROVE  /\ Drop(in, j) \in Tokens
         /\ Len(Drop(in, j)) = IF j <= Len(in) THEN Len(in) - j ELSE 0
<1>1. Len(in) \in Nat /\ \A i \in 1..Len(in) : in[i] \in AnyToken
  BY DEF Tokens
<1>2. CASE j < Len(in)
  <2>1. j + 1 \in Int /\ Len(in) \in Int /\ \A i \in (j + 1)..Len(in) : in[i] \in AnyToken
    BY <1>1
  <2>2. /\ SubSeq(in, j + 1, Len(in)) \in Seq(AnyToken)
        /\ Len(SubSeq(in, j + 1, Len(in))) = IF j + 1 <= Len(in) THEN Len(in) - (j + 1) + 1 ELSE 0
    BY <2>1, SubSeqProperties
  <2> QED
    BY <1>1, <1>2, <2>2 DEF Drop, Tokens
<1>3. CASE ~(j < Len(in))
  <2>1. Drop(in, j) = <<>>
    BY <1>1, <1>3, SubSeqEmpty DEF Drop
  <2> QED
    BY <1>1, <1>3, <2>1 DEF Tokens
<1> QED
  BY <1>2, <1>3

LEMMA SuffixIs ==
  ASSUME NEW in \in Tokens, NEW k \in 0..Len(in)
  PROVE  Suffix(in, k) \in Tokens /\ Len(Suffix(in, k)) = k
<1>1. Len(in) \in Nat /\ \A i \in 1..Len(in) : in[i] \in AnyToken
  BY DEF Tokens
<1>2. k \in Nat /\ k <= Len(in) /\ Len(in) - k \in Nat /\ Suffix(in, k) = Drop(in, Len(in) - k)
  BY <1>1 DEF Suffix, Drop
<1> QED
  BY <1>1, <1>2, DropIs

(* What is left behind j tokens or more is shorter, unless nothing was.    *)
LEMMA DropShorter ==
  ASSUME NEW in \in Tokens, NEW j \in Nat \ {0}
  PROVE  /\ Drop(in, j) \in Tokens
         /\ Len(in) \in Nat /\ Len(Drop(in, j)) \in Nat
         /\ Len(Drop(in, j)) <= Len(in)
         /\ in # <<>> => Len(Drop(in, j)) < Len(in)
<1>1. Len(in) \in Nat /\ (in # <<>> => Len(in) > 0)
  BY DEF Tokens
<1>2. /\ Drop(in, j) \in Tokens
      /\ Len(Drop(in, j)) = IF j <= Len(in) THEN Len(in) - j ELSE 0
  BY DropIs
<1> QED
  BY <1>1, <1>2

LEMMA SkipCommaIs ==
  ASSUME NEW in \in Tokens
  PROVE  /\ SkipComma(in) \in Tokens
         /\ Len(SkipComma(in)) \in Nat /\ Len(in) \in Nat
         /\ Len(SkipComma(in)) <= Len(in)
<1>1. /\ Drop(in, 1) \in Tokens
      /\ Len(in) \in Nat /\ Len(Drop(in, 1)) \in Nat
      /\ Len(Drop(in, 1)) <= Len(in)
  BY DropShorter
<1>2. SkipComma(in) = Drop(in, 1) \/ SkipComma(in) = in
  BY DEF SkipComma
<1> QED
  BY <1>1, <1>2

(* The steps of the parsers look at what is made of fewer tokens only.     *)
Agree(in, c, d) == \A m \in 0..(Len(in) - 1) : c[m] = d[m]

LEMMA SourcesCongruent ==
  ASSUME NEW in \in Tokens, NEW c, NEW d, NEW there, Agree(in, c, d)
  PROVE  Sources(in, c, there) = Sources(in, d, there)
<1> DEFINE first == SkipComma(in)
           rest == Drop(first, 2)
<1>1. CASE in = <<>>
  <2>1. At(first, 1) = "end"
    BY <1>1 DEF SkipComma, At
  <2>2. ~IsSourceKey(At(first, 1))
    BY <2>1 DEF IsSourceKey, SourceKeys
  <2> HIDE DEF first
  <2> QED
    BY <2>2 DEF Sources, first
<1>2. CASE in # <<>>
  <2> DEFINE value == Drop(rest, 1)
             of == Drop(value, 3)
  <2>1. first \in Tokens /\ Len(first) \in Nat /\ Len(in) \in Nat /\ Len(first) <= Len(in)
    BY SkipCommaIs
  <2> HIDE DEF first
  <2>2. /\ rest \in Tokens /\ Len(rest) \in Nat /\ Len(rest) <= Len(first)
        /\ first # <<>> => Len(rest) < Len(first)
    BY <2>1, DropShorter
  <2>3. Len(rest) < Len(in)
    <3>1. Len(in) > 0
      BY <1>2 DEF Tokens
    <3>2. first = <<>> => Len(rest) = 0
      BY <2>1, <2>2
    <3> QED
      BY <2>1, <2>2, <3>1, <3>2
  <2> HIDE DEF rest
  <2>4. value \in Tokens /\ Len(value) \in Nat /\ Len(value) <= Len(rest)
    BY <2>2, DropShorter
  <2> HIDE DEF value
  <2>5. Len(of) \in Nat /\ Len(of) <= Len(value)
    BY <2>4, DropShorter
  <2> HIDE DEF of
  <2>6. Len(value) \in 0..(Len(in) - 1) /\ Len(of) \in 0..(Len(in) - 1)
    BY <2>1, <2>2, <2>3, <2>4, <2>5
  <2>7. c[Len(value)] = d[Len(value)] /\ c[Len(of)] = d[Len(of)]
    BY <2>6 DEF Agree
  <2>8. Pct(rest, c, there) = Pct(rest, d, there)
    BY <2>7 DEF Pct, AfterPct, value, of
  <2> QED
    BY <2>7, <2>8 DEF Sources, value, rest, first
<1> QED
  BY <1>1, <1>2

(* So the function of the definition exists: it can be extended by one.    *)
IsSources(in, s, n, there) == s = [k \in 0..n |-> Sources(Suffix(in, k), s, there)]

LEMMA SourcesExtend ==
  ASSUME NEW in \in Tokens, NEW there, NEW n \in Nat, NEW s, n < Len(in), IsSources(in, s, n, there)
  PROVE  \E t : IsSources(in, t, n + 1, there)
<1> DEFINE t == [k \in 0..(n + 1) |-> IF k <= n THEN s[k] ELSE Sources(Suffix(in, k), s, there)]
<1>1. Len(in) \in Nat
  BY DEF Tokens
<1>2. \A m \in 0..n : t[m] = s[m]
  OBVIOUS
<1> HIDE DEF t
<1>3. ASSUME NEW k \in 0..(n + 1)
      PROVE  Sources(Suffix(in, k), t, there) = Sources(Suffix(in, k), s, there)
  <2>1. k \in 0..Len(in)
    BY <1>1
  <2>2. Suffix(in, k) \in Tokens /\ Len(Suffix(in, k)) = k
    BY <2>1, SuffixIs
  <2>3. Agree(Suffix(in, k), t, s)
    BY <1>2, <2>2 DEF Agree
  <2> QED
    BY <2>2, <2>3, SourcesCongruent
<1>4. ASSUME NEW k \in 0..(n + 1)
      PROVE  t[k] = Sources(Suffix(in, k), t, there)
  <2>1. CASE k <= n
    <3>1. k \in 0..n
      BY <2>1
    <3>2. s[k] = Sources(Suffix(in, k), s, there)
      BY <3>1, Zenon DEF IsSources
    <3> QED
      BY <3>1, <3>2, <1>2, <1>3
  <2>2. CASE ~(k <= n)
    BY <2>2, <1>3 DEF t
  <2> QED
    BY <2>1, <2>2
<1>5. t = [k \in 0..(n + 1) |-> t[k]]
  BY DEF t
<1>6. t = [k \in 0..(n + 1) |-> Sources(Suffix(in, k), t, there)]
  BY <1>4, <1>5, Zenon
<1> QED
  BY <1>6 DEF IsSources

LEMMA SourcesExist ==
  ASSUME NEW in \in Tokens, NEW there
  PROVE  \E s : IsSources(in, s, Len(in), there)
<1> DEFINE S == {n \in Nat : n <= Len(in) => \E s : IsSources(in, s, n, there)}
<1>1. Len(in) \in Nat
  BY DEF Tokens
<1>2. ASSUME NEW n \in Nat, \A m \in 0..(n - 1) : m \in S, n <= Len(in)
      PROVE  \E s : IsSources(in, s, n, there)
  <2>1. CASE n = 0
    <3> DEFINE t == [k \in 0..0 |-> Sources(<<>>, <<>>, there)]
    <3>1. \A k \in 0..0 : Suffix(in, k) = <<>> /\ Suffix(in, k) \in Tokens
      BY <1>1, SuffixIs DEF Tokens
    <3>2. \A k \in 0..0 : Sources(Suffix(in, k), t, there) = Sources(<<>>, <<>>, there)
      <4>1. Agree(<<>>, t, <<>>) /\ <<>> \in Tokens
        BY DEF Agree, Tokens
      <4> HIDE DEF t
      <4> QED
        BY <3>1, <4>1, SourcesCongruent
    <3>3. t = [k \in 0..0 |-> Sources(Suffix(in, k), t, there)]
      BY <3>2, Zenon
    <3> HIDE DEF t
    <3> QED
      BY <2>1, <3>3 DEF IsSources
  <2>2. CASE n # 0
    <3>1. n - 1 \in Nat /\ n - 1 \in 0..(n - 1) /\ n - 1 < Len(in) /\ (n - 1) + 1 = n
      BY <1>1, <1>2, <2>2
    <3>2. PICK s : IsSources(in, s, n - 1, there)
      BY <1>2, <3>1
    <3>3. \E t : IsSources(in, t, (n - 1) + 1, there)
      BY <3>1, <3>2, SourcesExtend
    <3> QED
      BY <3>1, <3>3
  <2> QED
    BY <2>1, <2>2
<1> HIDE DEF S
<1>3. Nat \subseteq S
  <2>1. \A n \in Nat : (\A m \in 0..(n - 1) : m \in S) => n \in S
    BY <1>2 DEF S
  <2> QED
    BY <2>1, SmallerFirst
<1> QED
  BY <1>1, <1>3 DEF S

LEMMA ParseLimitIs ==
  ASSUME NEW in \in Tokens, NEW there
  PROVE  \E s : /\ IsSources(in, s, Len(in), there)
                /\ ParseLimit(in, there) = LimitOf(in, s[Len(in)], there)
<1> DEFINE sources == CHOOSE s : s = [k \in 0..Len(in) |-> Sources(Suffix(in, k), s, there)]
<1>1. \E s : s = [k \in 0..Len(in) |-> Sources(Suffix(in, k), s, there)]
  BY SourcesExist DEF IsSources
<1>2. sources = [k \in 0..Len(in) |-> Sources(Suffix(in, k), sources, there)]
  BY <1>1, Zenon
<1>3. ParseLimit(in, there) = LimitOf(in, sources[Len(in)], there)
  BY DEF ParseLimit
<1> HIDE DEF sources
<1> QED
  BY <1>2, <1>3 DEF IsSources

----------------------------------------------------------------------------
(* What the parsers return: limits that the expansion and the test can     *)
(* read, and no more tokens than they were given.                          *)

LimitKinds == {"int", "env", "config", "env_file", "pct"}

FileWas(l, there) == l.kind = "env_file" /\ l.path \in Strings => there

GoodLimit(l, there) ==
  /\ l.kind \in LimitKinds
  /\ l.kind = "int" => l.value \in Nat
  /\ FileWas(l, there)
  /\ l.kind = "pct" => l.pct \in 1..100 /\ l.of.kind \in LimitKinds /\ FileWas(l.of, there)

GoodSources(seen, there) ==
  /\ DOMAIN seen = SourceKeys \cup {"of"}
  /\ seen.pct # <<>> => seen.pct[1] \in 1..100
  /\ seen.of # <<>> => GoodLimit(seen.of[1], there)

LeavesUpTo(n, r) == r.rest \in Tokens /\ Len(r.rest) <= n

Taken(n, r, there) == r.ok => LeavesUpTo(n, r) /\ GoodSources(r.value, there)
Read(n, r, there) == r.ok => LeavesUpTo(n, r) /\ GoodLimit(r.value, there)

LEMMA ParsedIs ==
  ASSUME NEW value, NEW rest
  PROVE  /\ Parsed(value, rest).ok /\ ~Err.ok
         /\ Parsed(value, rest).value = value
         /\ Parsed(value, rest).rest = rest
  BY DEF Parsed, Err

LEMMA CombineReads ==
  ASSUME NEW seen, NEW in \in Tokens, NEW there \in BOOLEAN, NEW n \in Nat,
         Len(in) <= n, GoodSources(seen, there)
  PROVE  Read(n, Combine(seen, in, there), there)
<1> DEFINE has == {key \in SourceKeys : seen[key] # <<>>}
           r == Combine(seen, in, there)
<1>1. CASE "pct" \in has
  <2>1. CASE seen.of = <<>>
    BY <1>1, <2>1, ParsedIs DEF Combine, Read
  <2>2. CASE seen.of # <<>>
    <3> DEFINE l == Percentage(seen.pct[1], seen.of[1])
    <3>1. r = Parsed(l, in)
      BY <1>1, <2>2 DEF Combine
    <3>2. seen.pct[1] \in 1..100 /\ GoodLimit(seen.of[1], there)
      BY <1>1, <2>2 DEF GoodSources
    <3>3. GoodLimit(l, there)
      BY <3>2 DEF GoodLimit, FileWas, Percentage, LimitKinds
    <3> HIDE DEF l, r
    <3> QED
      BY <3>1, <3>3, ParsedIs DEF Read, LeavesUpTo, r
  <2> QED
    BY <2>1, <2>2
<1>2. CASE "pct" \notin has /\ has = {"env_file", "env"}
  <2>1. CASE seen.env_file[1] \in Strings /\ ~there
    BY <1>2, <2>1, ParsedIs DEF Combine, Read
  <2>2. CASE ~(seen.env_file[1] \in Strings /\ ~there)
    <3> DEFINE l == EnvFile(seen.env_file[1], seen.env[1])
    <3>1. r = Parsed(l, in)
      BY <1>2, <2>2 DEF Combine
    <3>2. GoodLimit(l, there)
      BY <2>2 DEF GoodLimit, FileWas, EnvFile, LimitKinds
    <3> HIDE DEF l, r
    <3> QED
      BY <3>1, <3>2, ParsedIs DEF Read, LeavesUpTo, r
  <2> QED
    BY <2>1, <2>2
<1>3. CASE "pct" \notin has /\ has = {"env"}
  <2> DEFINE l == EnvVar(seen.env[1])
  <2>1. r = Parsed(l, in)
    BY <1>3 DEF Combine
  <2>2. GoodLimit(l, there)
    BY DEF GoodLimit, FileWas, EnvVar, LimitKinds
  <2> HIDE DEF l, r
  <2> QED
    BY <2>1, <2>2, ParsedIs DEF Read, LeavesUpTo, r
<1>4. CASE "pct" \notin has /\ has = {"config"}
  <2> DEFINE l == Config(seen.config[1])
  <2>1. r = Parsed(l, in)
    BY <1>4 DEF Combine
  <2>2. GoodLimit(l, there)
    BY DEF GoodLimit, FileWas, Config, LimitKinds
  <2> HIDE DEF l, r
  <2> QED
    BY <2>1, <2>2, ParsedIs DEF Read, LeavesUpTo, r
<1>5. CASE "pct" \notin has /\ has # {"env_file", "env"} /\ has # {"env"} /\ has # {"config"}
  BY <1>5, ParsedIs DEF Combine, Read
<1> QED
  BY <1>1, <1>2, <1>3, <1>4, <1>5

LEMMA LimitOfReads ==
  ASSUME NEW in \in Tokens, NEW sources, NEW there \in BOOLEAN, Taken(Len(in), sources, there)
  PROVE  Read(Len(in), LimitOf(in, sources, there), there)
<1> DEFINE r == LimitOf(in, sources, there)
<1>1. Len(in) \in Nat
  BY DEF Tokens
<1>2. CASE IsInt(At(in, 1))
  <2> DEFINE l == Literal(IntValue[At(in, 1)])
  <2>1. r = Err \/ r = Parsed(l, Drop(in, 1))
    BY <1>2 DEF LimitOf
  <2>2. IntValue[At(in, 1)] \in Nat
    BY <1>2, LiteralsAssumption DEF IsInt
  <2>3. GoodLimit(l, there)
    BY <2>2 DEF GoodLimit, FileWas, Literal, LimitKinds
  <2>4. Drop(in, 1) \in Tokens /\ Len(Drop(in, 1)) <= Len(in)
    BY DropShorter
  <2> HIDE DEF l, r
  <2> QED
    BY <2>1, <2>3, <2>4, ParsedIs DEF Read, LeavesUpTo, r
<1>3. CASE ~IsInt(At(in, 1)) /\ sources.ok
  <2>1. r = Combine(sources.value, sources.rest, there)
    BY <1>3 DEF LimitOf
  <2>2. LeavesUpTo(Len(in), sources) /\ GoodSources(sources.value, there)
    BY <1>3 DEF Taken
  <2> HIDE DEF r
  <2> QED
    BY <1>1, <2>1, <2>2, CombineReads DEF LeavesUpTo, r
<1>4. CASE ~IsInt(At(in, 1)) /\ ~sources.ok
  BY <1>4, ParsedIs DEF LimitOf, Read
<1> QED
  BY <1>2, <1>3, <1>4

LEMMA NoSourcesGood ==
  ASSUME NEW there
  PROVE  GoodSources(NoSources, there)
  BY DEF GoodSources, NoSources, SourceKeys

LEMMA AddTakes ==
  ASSUME NEW key \in SourceKeys, NEW value, NEW behind, NEW there, NEW n \in Nat,
         key = "pct" => value \in 1..100, Taken(n, behind, there)
  PROVE  Taken(n, Add(key, value, behind), there)
<1> DEFINE seen == [behind.value EXCEPT ![key] = <<value>>]
           r == Add(key, value, behind)
<1>1. CASE r = Err
  BY <1>1, ParsedIs DEF Taken
<1>2. CASE r # Err
  <2>1. behind.ok /\ r = Parsed(seen, behind.rest)
    BY <1>2 DEF Add
  <2>2. LeavesUpTo(n, behind) /\ GoodSources(behind.value, there)
    BY <2>1 DEF Taken
  <2>3. /\ DOMAIN seen = SourceKeys \cup {"of"}
        /\ seen.pct = IF key = "pct" THEN <<value>> ELSE behind.value.pct
        /\ seen.of = behind.value.of
    BY <2>2 DEF GoodSources, SourceKeys
  <2> HIDE DEF seen, r
  <2>4. GoodSources(seen, there)
    BY <2>2, <2>3 DEF GoodSources
  <2> QED
    BY <2>1, <2>2, <2>4, ParsedIs DEF Taken, LeavesUpTo, r
<1> QED
  BY <1>1, <1>2

LEMMA PctTakes ==
  ASSUME NEW in \in Tokens, NEW s, NEW there \in BOOLEAN,
         \A m \in 0..Len(in) : Taken(m, s[m], there)
  PROVE  Taken(Len(in), Pct(in, s, there), there)
<1> DEFINE r == Pct(in, s, there)
           rest == Drop(in, 1)
           of == Drop(rest, 3)
           nested == LimitOf(of, s[Len(of)], there)
           n == IntValue[At(in, 1)]
           seen == [NoSources EXCEPT !.pct = <<n>>, !.of = <<nested.value>>]
<1>1. Len(in) \in Nat /\ rest \in Tokens /\ Len(rest) \in Nat /\ Len(rest) <= Len(in)
  BY DropShorter
<1> HIDE DEF rest
<1>2. of \in Tokens /\ Len(of) \in Nat /\ Len(of) <= Len(in)
  BY <1>1, DropShorter
<1> HIDE DEF of
<1>3. Taken(Len(of), s[Len(of)], there) /\ Taken(Len(rest), s[Len(rest)], there)
  BY <1>1, <1>2
<1>4. Read(Len(of), nested, there)
  BY <1>2, <1>3, LimitOfReads
<1> HIDE DEF nested
<1>5. CASE r = Err
  BY <1>5, ParsedIs DEF Taken
<1>6. CASE r # Err /\ n \in 1..100 /\ nested.ok /\ r = Parsed(seen, nested.rest)
  <2>1. LeavesUpTo(Len(of), nested) /\ GoodLimit(nested.value, there)
    BY <1>4, <1>6 DEF Read
  <2> HIDE DEF n
  <2>2. DOMAIN seen = SourceKeys \cup {"of"} /\ seen.pct = <<n>> /\ seen.of = <<nested.value>>
    BY DEF NoSources, SourceKeys
  <2> HIDE DEF seen, r
  <2>3. GoodSources(seen, there)
    BY <1>6, <2>1, <2>2 DEF GoodSources
  <2>4. nested.rest \in Tokens /\ Len(nested.rest) <= Len(in)
    BY <1>1, <1>2, <2>1 DEF LeavesUpTo, Tokens
  <2> QED
    BY <1>6, <2>3, <2>4, ParsedIs DEF Taken, LeavesUpTo, r
<1>7. CASE r # Err /\ n \in 1..100 /\ r = Add("pct", n, s[Len(rest)])
  <2>1. Taken(Len(rest), r, there)
    BY <1>1, <1>3, <1>7, AddTakes DEF SourceKeys
  <2> HIDE DEF r
  <2> QED
    BY <1>1, <2>1 DEF Taken, LeavesUpTo, Tokens, r
<1>8. \/ r = Err
      \/ n \in 1..100 /\ nested.ok /\ r = Parsed(seen, nested.rest)
      \/ n \in 1..100 /\ r = Add("pct", n, s[Len(rest)])
  <2> HIDE DEF seen
  <2>1. \/ AfterPct(n, rest, s) = Err
        \/ AfterPct(n, rest, s) = Add("pct", n, s[Len(rest)])
    BY DEF AfterPct
  <2> QED
    BY <2>1 DEF Pct, seen, nested, of, rest
<1> QED
  BY <1>5, <1>6, <1>7, <1>8

LEMMA SourcesTakes ==
  ASSUME NEW in \in Tokens, NEW s, NEW there \in BOOLEAN,
         \A m \in 0..(Len(in) - 1) : Taken(m, s[m], there)
  PROVE  Taken(Len(in), Sources(in, s, there), there)
<1> DEFINE r == Sources(in, s, there)
           first == SkipComma(in)
           key == At(first, 1)
           rest == Drop(first, 2)
           value == Drop(rest, 1)
<1>1. CASE ~IsSourceKey(key)
  <2>1. r = Parsed(NoSources, in)
    BY <1>1 DEF Sources
  <2> HIDE DEF r
  <2> QED
    BY <2>1, ParsedIs, NoSourcesGood DEF Taken, LeavesUpTo, Tokens, r
<1>2. CASE IsSourceKey(key)
  <2>1. first \in Tokens /\ Len(first) \in Nat /\ Len(in) \in Nat /\ Len(first) <= Len(in)
    BY SkipCommaIs
  <2>2. first # <<>>
    <3>1. first = <<>> => key = "end"
      BY DEF At
    <3> HIDE DEF first
    <3> QED
      BY <1>2, <3>1 DEF IsSourceKey, SourceKeys
  <2> HIDE DEF first
  <2>3. rest \in Tokens /\ Len(rest) \in Nat /\ Len(rest) < Len(in)
    <3>1. rest \in Tokens /\ Len(rest) \in Nat /\ Len(rest) < Len(first)
      BY <2>1, <2>2, DropShorter
    <3> QED
      BY <2>1, <3>1
  <2> HIDE DEF rest
  <2>4. value \in Tokens /\ Len(value) \in Nat /\ Len(value) < Len(in)
    <3>1. value \in Tokens /\ Len(value) \in Nat /\ Len(value) <= Len(rest)
      BY <2>3, DropShorter
    <3> QED
      BY <2>1, <2>3, <3>1
  <2> HIDE DEF value
  <2>5. Taken(Len(value), s[Len(value)], there) /\ \A m \in 0..Len(rest) : Taken(m, s[m], there)
    BY <2>1, <2>3, <2>4
  <2>6. Taken(Len(rest), Pct(rest, s, there), there)
    BY <2>3, <2>5, PctTakes
  <2>7. \/ r = Err
        \/ r = Pct(rest, s, there)
        \/ key # "pct" /\ r = Add(key, At(rest, 1), s[Len(value)])
    BY <1>2 DEF Sources, first, rest, value
  <2> SUFFICES Taken(Len(in), r, there)
    OBVIOUS
  <2> HIDE DEF r, key
  <2>8. CASE r = Err
    BY <2>8, ParsedIs DEF Taken
  <2>9. CASE r = Pct(rest, s, there)
    BY <2>1, <2>3, <2>6, <2>9 DEF Taken, LeavesUpTo, Tokens
  <2>10. CASE key # "pct" /\ r = Add(key, At(rest, 1), s[Len(value)])
    <3>1. Taken(Len(value), r, there)
      BY <1>2, <2>4, <2>5, <2>10, AddTakes DEF IsSourceKey
    <3> QED
      BY <2>1, <2>4, <3>1 DEF Taken, LeavesUpTo, Tokens
  <2> QED
    BY <2>7, <2>8, <2>9, <2>10
<1> QED
  BY <1>1, <1>2

LEMMA LimitReads ==
  ASSUME NEW in \in Tokens, NEW there \in BOOLEAN
  PROVE  Read(Len(in), ParseLimit(in, there), there)
<1>1. PICK s : /\ IsSources(in, s, Len(in), there)
               /\ ParseLimit(in, there) = LimitOf(in, s[Len(in)], there)
  BY ParseLimitIs
<1> DEFINE S == {n \in Nat : n <= Len(in) => Taken(n, s[n], there)}
<1>2. Len(in) \in Nat
  BY DEF Tokens
<1>3. ASSUME NEW n \in Nat, \A m \in 0..(n - 1) : m \in S, n <= Len(in)
      PROVE  Taken(n, s[n], there)
  <2>1. n \in 0..Len(in)
    BY <1>2, <1>3
  <2>2. s[n] = Sources(Suffix(in, n), s, there)
    BY <1>1, <2>1, Zenon DEF IsSources
  <2>3. Suffix(in, n) \in Tokens /\ Len(Suffix(in, n)) = n
    BY <2>1, SuffixIs
  <2>4. \A m \in 0..(n - 1) : Taken(m, s[m], there)
    BY <1>2, <1>3
  <2> QED
    BY <2>2, <2>3, <2>4, SourcesTakes
<1> HIDE DEF S
<1>4. \A n \in Nat : (\A m \in 0..(n - 1) : m \in S) => n \in S
  BY <1>3 DEF S
<1>5. Nat \subseteq S
  BY <1>4, SmallerFirst
<1>6. Taken(Len(in), s[Len(in)], there)
  BY <1>2, <1>5 DEF S
<1> QED
  BY <1>1, <1>6, LimitOfReads

----------------------------------------------------------------------------
(* The lists of properties, in the same way.                               *)

GoodSpec(spec, there) ==
  /\ DOMAIN spec = {"cpu", "mem", "cpu_baseline", "mem_baseline"}
  /\ spec.cpu # <<>> => GoodLimit(spec.cpu[1], there)
  /\ spec.mem # <<>> => GoodLimit(spec.mem[1], there)

GoodConfig(c) ==
  /\ DOMAIN c = {"sizes", "model", "tolerance"}
  /\ c.sizes # <<>> => c.sizes[1] \in Seq(Nat)
  /\ c.tolerance # <<>> => c.tolerance[1] \in Int

MakesSpec(r, there) == r.ok => GoodSpec(r.value, there)
MakesConfig(r) == r.ok => GoodConfig(r.value)

LEMMA StandaloneMakes ==
  ASSUME NEW in \in Tokens, NEW there \in BOOLEAN
  PROVE  /\ MakesSpec(ParseStandalone(in, there), there)
         /\ ParseStandalone(in, there).ok => ParseStandalone(in, there).value.cpu # <<>>
<1> DEFINE r == ParseStandalone(in, there)
           limit == ParseLimit(in, there)
           spec == [NoSpec EXCEPT !.cpu = <<limit.value>>]
           based == [spec EXCEPT !.cpu_baseline = TRUE]
<1>1. limit.ok => GoodLimit(limit.value, there)
  BY LimitReads DEF Read
<1>2. r = Err \/ (limit.ok /\ (r = Parsed(spec, <<>>) \/ r = Parsed(based, <<>>)))
  BY DEF ParseStandalone
<1> HIDE DEF limit
<1>3. ASSUME limit.ok PROVE GoodSpec(spec, there) /\ spec.cpu = <<limit.value>>
  BY <1>1, <1>3 DEF GoodSpec, NoSpec
<1>4. ASSUME limit.ok PROVE GoodSpec(based, there) /\ based.cpu = <<limit.value>>
  BY <1>1, <1>4 DEF GoodSpec, NoSpec
<1> SUFFICES MakesSpec(r, there) /\ (r.ok => r.value.cpu # <<>>)
  OBVIOUS
<1> HIDE DEF r, spec, based
<1> QED
  BY <1>2, <1>3, <1>4, ParsedIs DEF MakesSpec

LEMMA MoreCongruent ==
  ASSUME NEW in \in Tokens, NEW none, NEW c, NEW d, Agree(in, c, d)
  PROVE  More(in, none, c) = More(in, none, d)
<1>1. CASE in = <<>>
  BY <1>1 DEF More
<1>2. CASE in # <<>>
  <2>1. Len(Drop(in, 1)) \in 0..(Len(in) - 1)
    BY <1>2, DropShorter
  <2>2. c[Len(Drop(in, 1))] = d[Len(Drop(in, 1))]
    BY <2>1 DEF Agree
  <2> QED
    BY <1>2, <2>2 DEF More
<1> QED
  BY <1>1, <1>2

LEMMA AgreeOnFewer ==
  ASSUME NEW in \in Tokens, NEW rest \in Tokens, NEW c, NEW d, Len(rest) <= Len(in), Agree(in, c, d)
  PROVE  Agree(rest, c, d)
<1>1. Len(in) \in Nat /\ Len(rest) \in Nat
  BY DEF Tokens
<1> QED
  BY <1>1 DEF Agree

LEMMA PropertiesCongruent ==
  ASSUME NEW in \in Tokens, NEW c, NEW d, NEW there \in BOOLEAN, Agree(in, c, d)
  PROVE  Properties(in, c, there) = Properties(in, d, there)
<1> DEFINE value == Drop(in, 2)
           limit == ParseLimit(value, there)
           others == Drop(value, 1)
<1>1. value \in Tokens /\ Len(value) \in Nat /\ Len(in) \in Nat /\ Len(value) <= Len(in)
  BY DropShorter
<1> HIDE DEF value
<1>2. others \in Tokens /\ Len(others) \in Nat /\ Len(others) <= Len(value)
  BY <1>1, DropShorter
<1> HIDE DEF others
<1>3. limit.ok => limit.rest \in Tokens /\ Len(limit.rest) \in Nat /\ Len(limit.rest) <= Len(value)
  BY <1>1, LimitReads DEF Read, LeavesUpTo, Tokens
<1> HIDE DEF limit
<1>4. More(others, NoSpec, c) = More(others, NoSpec, d)
  BY <1>1, <1>2, AgreeOnFewer, MoreCongruent
<1>5. limit.ok => More(limit.rest, NoSpec, c) = More(limit.rest, NoSpec, d)
  BY <1>1, <1>3, AgreeOnFewer, MoreCongruent
<1> QED
  BY <1>4, <1>5 DEF Properties, value, limit, others

LEMMA FieldsCongruent ==
  ASSUME NEW in \in Tokens, NEW c, NEW d, Agree(in, c, d)
  PROVE  Fields(in, c) = Fields(in, d)
<1> DEFINE others == Drop(in, 3)
<1>1. others \in Tokens /\ Len(others) <= Len(in)
  BY DropShorter
<1> HIDE DEF others
<1>2. More(others, NoConfig, c) = More(others, NoConfig, d)
  BY <1>1, AgreeOnFewer, MoreCongruent
<1> QED
  BY <1>2 DEF Fields, others

IsProperties(in, s, n, there) == s = [k \in 0..n |-> Properties(Suffix(in, k), s, there)]

LEMMA PropertiesExtend ==
  ASSUME NEW in \in Tokens, NEW there \in BOOLEAN, NEW n \in Nat, NEW s,
         n < Len(in), IsProperties(in, s, n, there)
  PROVE  \E t : IsProperties(in, t, n + 1, there)
<1> DEFINE t == [k \in 0..(n + 1) |-> IF k <= n THEN s[k] ELSE Properties(Suffix(in, k), s, there)]
<1>1. Len(in) \in Nat
  BY DEF Tokens
<1>2. \A m \in 0..n : t[m] = s[m]
  OBVIOUS
<1> HIDE DEF t
<1>3. ASSUME NEW k \in 0..(n + 1)
      PROVE  Properties(Suffix(in, k), t, there) = Properties(Suffix(in, k), s, there)
  <2>1. k \in 0..Len(in)
    BY <1>1
  <2>2. Suffix(in, k) \in Tokens /\ Len(Suffix(in, k)) = k
    BY <2>1, SuffixIs
  <2>3. Agree(Suffix(in, k), t, s)
    BY <1>2, <2>2 DEF Agree
  <2> QED
    BY <2>2, <2>3, PropertiesCongruent
<1>4. ASSUME NEW k \in 0..(n + 1)
      PROVE  t[k] = Properties(Suffix(in, k), t, there)
  <2>1. CASE k <= n
    <3>1. k \in 0..n
      BY <2>1
    <3>2. s[k] = Properties(Suffix(in, k), s, there)
      BY <3>1, Zenon DEF IsProperties
    <3> QED
      BY <3>1, <3>2, <1>2, <1>3
  <2>2. CASE ~(k <= n)
    BY <2>2, <1>3 DEF t
  <2> QED
    BY <2>1, <2>2
<1>5. t = [k \in 0..(n + 1) |-> t[k]]
  BY DEF t
<1>6. t = [k \in 0..(n + 1) |-> Properties(Suffix(in, k), t, there)]
  BY <1>4, <1>5, Zenon
<1> QED
  BY <1>6 DEF IsProperties

LEMMA PropertiesExist ==
  ASSUME NEW in \in Tokens, NEW there \in BOOLEAN
  PROVE  \E s : IsProperties(in, s, Len(in), there)
<1> DEFINE S == {n \in Nat : n <= Len(in) => \E s : IsProperties(in, s, n, there)}
<1>1. Len(in) \in Nat
  BY DEF Tokens
<1>2. ASSUME NEW n \in Nat, \A m \in 0..(n - 1) : m \in S, n <= Len(in)
      PROVE  \E s : IsProperties(in, s, n, there)
  <2>1. CASE n = 0
    <3> DEFINE t == [k \in 0..0 |-> Properties(<<>>, <<>>, there)]
    <3>1. \A k \in 0..0 : Suffix(in, k) = <<>> /\ Suffix(in, k) \in Tokens
      BY <1>1, SuffixIs DEF Tokens
    <3>2. \A k \in 0..0 : Properties(Suffix(in, k), t, there) = Properties(<<>>, <<>>, there)
      <4>1. Agree(<<>>, t, <<>>) /\ <<>> \in Tokens
        BY DEF Agree, Tokens
      <4> HIDE DEF t
      <4> QED
        BY <3>1, <4>1, PropertiesCongruent
    <3>3. t = [k \in 0..0 |-> Properties(Suffix(in, k), t, there)]
      BY <3>2, Zenon
    <3> HIDE DEF t
    <3> QED
      BY <2>1, <3>3 DEF IsProperties
  <2>2. CASE n # 0
    <3>1. n - 1 \in Nat /\ n - 1 \in 0..(n - 1) /\ n - 1 < Len(in) /\ (n - 1) + 1 = n
      BY <1>1, <1>2, <2>2
    <3>2. PICK s : IsProperties(in, s, n - 1, there)
      BY <1>2, <3>1
    <3>3. \E t : IsProperties(in, t, (n - 1) + 1, there)
      BY <3>1, <3>2, PropertiesExtend
    <3> QED
      BY <3>1, <3>3
  <2> QED
    BY <2>1, <2>2
<1> HIDE DEF S
<1>3. Nat \subseteq S
  <2>1. \A n \in Nat : (\A m \in 0..(n - 1) : m \in S) => n \in S
    BY <1>2 DEF S
  <2> QED
    BY <2>1, SmallerFirst
<1> QED
  BY <1>1, <1>3 DEF S

IsFields(in, s, n) == s = [k \in 0..n |-> Fields(Suffix(in, k), s)]

LEMMA FieldsExtend ==
  ASSUME NEW in \in Tokens, NEW n \in Nat, NEW s, n < Len(in), IsFields(in, s, n)
  PROVE  \E t : IsFields(in, t, n + 1)
<1> DEFINE t == [k \in 0..(n + 1) |-> IF k <= n THEN s[k] ELSE Fields(Suffix(in, k), s)]
<1>1. Len(in) \in Nat
  BY DEF Tokens
<1>2. \A m \in 0..n : t[m] = s[m]
  OBVIOUS
<1> HIDE DEF t
<1>3. ASSUME NEW k \in 0..(n + 1)
      PROVE  Fields(Suffix(in, k), t) = Fields(Suffix(in, k), s)
  <2>1. k \in 0..Len(in)
    BY <1>1
  <2>2. Suffix(in, k) \in Tokens /\ Len(Suffix(in, k)) = k
    BY <2>1, SuffixIs
  <2>3. Agree(Suffix(in, k), t, s)
    BY <1>2, <2>2 DEF Agree
  <2> QED
    BY <2>2, <2>3, FieldsCongruent
<1>4. ASSUME NEW k \in 0..(n + 1)
      PROVE  t[k] = Fields(Suffix(in, k), t)
  <2>1. CASE k <= n
    <3>1. k \in 0..n
      BY <2>1
    <3>2. s[k] = Fields(Suffix(in, k), s)
      BY <3>1, Zenon DEF IsFields
    <3> QED
      BY <3>1, <3>2, <1>2, <1>3
  <2>2. CASE ~(k <= n)
    BY <2>2, <1>3 DEF t
  <2> QED
    BY <2>1, <2>2
<1>5. t = [k \in 0..(n + 1) |-> t[k]]
  BY DEF t
<1>6. t = [k \in 0..(n + 1) |-> Fields(Suffix(in, k), t)]
  BY <1>4, <1>5, Zenon
<1> QED
  BY <1>6 DEF IsFields

LEMMA FieldsExist ==
  ASSUME NEW in \in Tokens
  PROVE  \E s : IsFields(in, s, Len(in))
<1> DEFINE S == {n \in Nat : n <= Len(in) => \E s : IsFields(in, s, n)}
<1>1. Len(in) \in Nat
  BY DEF Tokens
<1>2. ASSUME NEW n \in Nat, \A m \in 0..(n - 1) : m \in S, n <= Len(in)
      PROVE  \E s : IsFields(in, s, n)
  <2>1. CASE n = 0
    <3> DEFINE t == [k \in 0..0 |-> Fields(<<>>, <<>>)]
    <3>1. \A k \in 0..0 : Suffix(in, k) = <<>> /\ Suffix(in, k) \in Tokens
      BY <1>1, SuffixIs DEF Tokens
    <3>2. \A k \in 0..0 : Fields(Suffix(in, k), t) = Fields(<<>>, <<>>)
      <4>1. Agree(<<>>, t, <<>>) /\ <<>> \in Tokens
        BY DEF Agree, Tokens
      <4> HIDE DEF t
      <4> QED
        BY <3>1, <4>1, FieldsCongruent
    <3>3. t = [k \in 0..0 |-> Fields(Suffix(in, k), t)]
      BY <3>2, Zenon
    <3> HIDE DEF t
    <3> QED
      BY <2>1, <3>3 DEF IsFields
  <2>2. CASE n # 0
    <3>1. n - 1 \in Nat /\ n - 1 \in 0..(n - 1) /\ n - 1 < Len(in) /\ (n - 1) + 1 = n
      BY <1>1, <1>2, <2>2
    <3>2. PICK s : IsFields(in, s, n - 1)
      BY <1>2, <3>1
    <3>3. \E t : IsFields(in, t, (n - 1) + 1)
      BY <3>1, <3>2, FieldsExtend
    <3> QED
      BY <3>1, <3>3
  <2> QED
    BY <2>1, <2>2
<1> HIDE DEF S
<1>3. Nat \subseteq S
  <2>1. \A n \in Nat : (\A m \in 0..(n - 1) : m \in S) => n \in S
    BY <1>2 DEF S
  <2> QED
    BY <2>1, SmallerFirst
<1> QED
  BY <1>1, <1>3 DEF S

LEMMA PutMakesSpec ==
  ASSUME NEW key \in Limits \cup Baselines, NEW value, NEW none, NEW behind, NEW there,
         key \in Limits => GoodLimit(value[1], there), MakesSpec(behind, there)
  PROVE  MakesSpec(Put(key, value, none, behind), there)
<1> DEFINE spec == [behind.value EXCEPT ![key] = value]
           r == Put(key, value, none, behind)
<1>1. CASE r = behind
  BY <1>1
<1>2. CASE r # behind
  <2>1. behind.ok /\ r = Parsed(spec, behind.rest)
    BY <1>2 DEF Put
  <2>2. GoodSpec(behind.value, there)
    BY <2>1 DEF MakesSpec
  <2>3. /\ DOMAIN spec = {"cpu", "mem", "cpu_baseline", "mem_baseline"}
        /\ spec.cpu = IF key = "cpu" THEN value ELSE behind.value.cpu
        /\ spec.mem = IF key = "mem" THEN value ELSE behind.value.mem
    BY <2>2 DEF GoodSpec
  <2> SUFFICES MakesSpec(r, there)
    OBVIOUS
  <2> HIDE DEF spec, r
  <2>4. GoodSpec(spec, there)
    BY <2>2, <2>3 DEF GoodSpec, Limits
  <2> QED
    BY <2>1, <2>4, ParsedIs DEF MakesSpec
<1> QED
  BY <1>1, <1>2

LEMMA MoreMakesSpec ==
  ASSUME NEW in \in Tokens, NEW s, NEW there, \A m \in 0..(Len(in) - 1) : MakesSpec(s[m], there)
  PROVE  MakesSpec(More(in, NoSpec, s), there)
<1>1. CASE in = <<>>
  <2>1. GoodSpec(NoSpec, there)
    BY DEF GoodSpec, NoSpec
  <2>2. More(in, NoSpec, s) = Parsed(NoSpec, <<>>)
    BY <1>1, Zenon DEF More
  <2> QED
    BY <2>1, <2>2, ParsedIs DEF MakesSpec
<1>2. CASE in # <<>>
  <2>1. Len(Drop(in, 1)) \in 0..(Len(in) - 1)
    BY <1>2, DropShorter
  <2>2. More(in, NoSpec, s) = s[Len(Drop(in, 1))] \/ More(in, NoSpec, s) = Err
    BY <1>2 DEF More
  <2> QED
    BY <2>1, <2>2, ParsedIs DEF MakesSpec
<1> QED
  BY <1>1, <1>2

LEMMA PropertiesMake ==
  ASSUME NEW in \in Tokens, NEW s, NEW there \in BOOLEAN,
         \A m \in 0..(Len(in) - 1) : MakesSpec(s[m], there)
  PROVE  MakesSpec(Properties(in, s, there), there)
<1> DEFINE r == Properties(in, s, there)
           key == At(in, 1)
           value == Drop(in, 2)
           limit == ParseLimit(value, there)
           behind == Drop(value, 1)
           others == More(behind, NoSpec, s)
           next == More(limit.rest, NoSpec, s)
<1>1. value \in Tokens /\ Len(value) \in Nat /\ Len(in) \in Nat /\ Len(value) <= Len(in)
  BY DropShorter
<1> HIDE DEF value
<1>2. behind \in Tokens /\ Len(behind) \in Nat /\ Len(behind) <= Len(value)
  BY <1>1, DropShorter
<1> HIDE DEF behind
<1>3. /\ limit.ok => limit.rest \in Tokens /\ Len(limit.rest) \in Nat /\ Len(limit.rest) <= Len(value)
      /\ limit.ok => GoodLimit(limit.value, there)
  BY <1>1, LimitReads DEF Read, LeavesUpTo, Tokens
<1> HIDE DEF limit
<1>4. MakesSpec(others, there)
  <2>1. \A m \in 0..(Len(behind) - 1) : MakesSpec(s[m], there)
    BY <1>1, <1>2
  <2> QED
    BY <1>2, <2>1, MoreMakesSpec
<1>5. limit.ok => MakesSpec(next, there)
  <2>1. limit.ok => \A m \in 0..(Len(limit.rest) - 1) : MakesSpec(s[m], there)
    BY <1>1, <1>3
  <2> QED
    BY <1>3, <2>1, MoreMakesSpec
<1>6. \/ r = Err
      \/ r = Parsed(NoSpec, <<>>)
      \/ key \in Limits /\ limit.ok /\ r = Put(key, <<limit.value>>, <<>>, next)
      \/ key \in Baselines /\ r = Put(key, TRUE, FALSE, others)
      \/ r = others
  BY DEF Properties, value, limit, behind
<1> SUFFICES MakesSpec(r, there)
  OBVIOUS
<1> HIDE DEF r, key, others, next
<1>7. CASE r = Err \/ r = Parsed(NoSpec, <<>>)
  <2>1. GoodSpec(NoSpec, there)
    BY DEF GoodSpec, NoSpec
  <2> QED
    BY <1>7, <2>1, ParsedIs DEF MakesSpec
<1>8. CASE key \in Limits /\ limit.ok /\ r = Put(key, <<limit.value>>, <<>>, next)
  BY <1>3, <1>5, <1>8, PutMakesSpec
<1>9. CASE key \in Baselines /\ r = Put(key, TRUE, FALSE, others)
  BY <1>4, <1>9, PutMakesSpec DEF Limits, Baselines
<1> QED
  BY <1>4, <1>6, <1>7, <1>8, <1>9

LEMMA AllPropertiesMake ==
  ASSUME NEW in \in Tokens, NEW there \in BOOLEAN, NEW s, IsProperties(in, s, Len(in), there)
  PROVE  MakesSpec(s[Len(in)], there)
<1> DEFINE S == {n \in Nat : n <= Len(in) => MakesSpec(s[n], there)}
<1>1. Len(in) \in Nat
  BY DEF Tokens
<1>2. ASSUME NEW n \in Nat, \A m \in 0..(n - 1) : m \in S, n <= Len(in)
      PROVE  MakesSpec(s[n], there)
  <2>1. n \in 0..Len(in)
    BY <1>1, <1>2
  <2>2. s[n] = Properties(Suffix(in, n), s, there)
    BY <2>1, Zenon DEF IsProperties
  <2>3. Suffix(in, n) \in Tokens /\ Len(Suffix(in, n)) = n
    BY <2>1, SuffixIs
  <2>4. \A m \in 0..(n - 1) : MakesSpec(s[m], there)
    BY <1>1, <1>2
  <2> QED
    BY <2>2, <2>3, <2>4, PropertiesMake
<1> HIDE DEF S
<1>3. \A n \in Nat : (\A m \in 0..(n - 1) : m \in S) => n \in S
  BY <1>2 DEF S
<1>4. Nat \subseteq S
  BY <1>3, SmallerFirst
<1> QED
  BY <1>1, <1>4 DEF S

LEMMA SpecMakes ==
  ASSUME NEW in \in Tokens, NEW there \in BOOLEAN
  PROVE  MakesSpec(ParseSpec(in, there), there)
<1> DEFINE properties == CHOOSE s : s = [k \in 0..Len(in) |-> Properties(Suffix(in, k), s, there)]
           made == properties[Len(in)]
           r == ParseSpec(in, there)
<1>1. \E s : s = [k \in 0..Len(in) |-> Properties(Suffix(in, k), s, there)]
  BY PropertiesExist DEF IsProperties
<1>2. properties = [k \in 0..Len(in) |-> Properties(Suffix(in, k), properties, there)]
  BY <1>1, Zenon
<1>3. r = made \/ r = Err
  BY DEF ParseSpec
<1> SUFFICES MakesSpec(r, there)
  OBVIOUS
<1> HIDE DEF properties, r
<1>4. MakesSpec(made, there)
  BY <1>2, AllPropertiesMake DEF IsProperties
<1> QED
  BY <1>3, <1>4, ParsedIs DEF MakesSpec

LEMMA PutMakesConfig ==
  ASSUME NEW key \in DOMAIN FieldValues, NEW token \in FieldValues[key], NEW behind, MakesConfig(behind)
  PROVE  MakesConfig(Put(key, <<FieldValue(key, token)>>, <<>>, behind))
<1> DEFINE value == FieldValue(key, token)
           c == [behind.value EXCEPT ![key] = <<value>>]
           r == Put(key, <<value>>, <<>>, behind)
<1>1. /\ key = "sizes" => value \in Seq(Nat)
      /\ key = "tolerance" => value \in Int
  BY LiteralsAssumption DEF FieldValues, FieldValue
<1> SUFFICES MakesConfig(r)
  OBVIOUS
<1> HIDE DEF value
<1>2. CASE r = behind
  BY <1>2
<1>3. CASE r # behind
  <2>1. behind.ok /\ r = Parsed(c, behind.rest)
    BY <1>3 DEF Put
  <2>2. GoodConfig(behind.value)
    BY <2>1 DEF MakesConfig
  <2>3. /\ DOMAIN c = {"sizes", "model", "tolerance"}
        /\ c.sizes = IF key = "sizes" THEN <<value>> ELSE behind.value.sizes
        /\ c.tolerance = IF key = "tolerance" THEN <<value>> ELSE behind.value.tolerance
    BY <2>2 DEF GoodConfig
  <2> HIDE DEF c, r
  <2>4. GoodConfig(c)
    BY <1>1, <2>2, <2>3 DEF GoodConfig
  <2> QED
    BY <2>1, <2>4, ParsedIs DEF MakesConfig
<1> QED
  BY <1>2, <1>3

LEMMA MoreMakesConfig ==
  ASSUME NEW in \in Tokens, NEW s, \A m \in 0..(Len(in) - 1) : MakesConfig(s[m])
  PROVE  MakesConfig(More(in, NoConfig, s))
<1>1. CASE in = <<>>
  <2>1. GoodConfig(NoConfig)
    BY DEF GoodConfig, NoConfig
  <2>2. More(in, NoConfig, s) = Parsed(NoConfig, <<>>)
    BY <1>1, Zenon DEF More
  <2> QED
    BY <2>1, <2>2, ParsedIs DEF MakesConfig
<1>2. CASE in # <<>>
  <2>1. Len(Drop(in, 1)) \in 0..(Len(in) - 1)
    BY <1>2, DropShorter
  <2>2. More(in, NoConfig, s) = s[Len(Drop(in, 1))] \/ More(in, NoConfig, s) = Err
    BY <1>2 DEF More
  <2> QED
    BY <2>1, <2>2, ParsedIs DEF MakesConfig
<1> QED
  BY <1>1, <1>2

LEMMA FieldsMake ==
  ASSUME NEW in \in Tokens, NEW s, \A m \in 0..(Len(in) - 1) : MakesConfig(s[m])
  PROVE  MakesConfig(Fields(in, s))
<1> DEFINE r == Fields(in, s)
           key == At(in, 1)
           token == At(in, 3)
           behind == Drop(in, 3)
           next == More(behind, NoConfig, s)
<1>1. behind \in Tokens /\ Len(behind) \in Nat /\ Len(in) \in Nat /\ Len(behind) <= Len(in)
  BY DropShorter
<1> HIDE DEF behind
<1>2. MakesConfig(next)
  <2>1. \A m \in 0..(Len(behind) - 1) : MakesConfig(s[m])
    BY <1>1
  <2> QED
    BY <1>1, <2>1, MoreMakesConfig
<1>3. \/ r = Err
      \/ r = Parsed(NoConfig, <<>>)
      \/ /\ key \in DOMAIN FieldValues /\ token \in FieldValues[key]
         /\ r = Put(key, <<FieldValue(key, token)>>, <<>>, next)
  BY DEF Fields, behind
<1> SUFFICES MakesConfig(r)
  OBVIOUS
<1> HIDE DEF r, key, token, next
<1>4. CASE r = Err \/ r = Parsed(NoConfig, <<>>)
  <2>1. GoodConfig(NoConfig)
    BY DEF GoodConfig, NoConfig
  <2> QED
    BY <1>4, <2>1, ParsedIs DEF MakesConfig
<1> QED
  BY <1>2, <1>3, <1>4, PutMakesConfig

LEMMA AllFieldsMake ==
  ASSUME NEW in \in Tokens, NEW s, IsFields(in, s, Len(in))
  PROVE  MakesConfig(s[Len(in)])
<1> DEFINE S == {n \in Nat : n <= Len(in) => MakesConfig(s[n])}
<1>1. Len(in) \in Nat
  BY DEF Tokens
<1>2. ASSUME NEW n \in Nat, \A m \in 0..(n - 1) : m \in S, n <= Len(in)
      PROVE  MakesConfig(s[n])
  <2>1. n \in 0..Len(in)
    BY <1>1, <1>2
  <2>2. s[n] = Fields(Suffix(in, n), s)
    BY <2>1, Zenon DEF IsFields
  <2>3. Suffix(in, n) \in Tokens /\ Len(Suffix(in, n)) = n
    BY <2>1, SuffixIs
  <2>4. \A m \in 0..(n - 1) : MakesConfig(s[m])
    BY <1>1, <1>2
  <2> QED
    BY <2>2, <2>3, <2>4, FieldsMake
<1> HIDE DEF S
<1>3. \A n \in Nat : (\A m \in 0..(n - 1) : m \in S) => n \in S
  BY <1>2 DEF S
<1>4. Nat \subseteq S
  BY <1>3, SmallerFirst
<1> QED
  BY <1>1, <1>4 DEF S

LEMMA ScalingMakes ==
  ASSUME NEW in \in Tokens
  PROVE  LET r == ParseScaling(in) IN r.ok => GoodConfig(r.value) /\ ScalingOk(r.value)
<1> DEFINE fields == CHOOSE s : s = [k \in 0..Len(in) |-> Fields(Suffix(in, k), s)]
           made == fields[Len(in)]
           r == ParseScaling(in)
<1>1. \E s : s = [k \in 0..Len(in) |-> Fields(Suffix(in, k), s)]
  BY FieldsExist DEF IsFields
<1>2. fields = [k \in 0..Len(in) |-> Fields(Suffix(in, k), fields)]
  BY <1>1, Zenon
<1>3. r = Err \/ (r = made /\ ScalingOk(made.value))
  BY DEF ParseScaling
<1> SUFFICES r.ok => GoodConfig(r.value) /\ ScalingOk(r.value)
  OBVIOUS
<1> HIDE DEF fields, r
<1>4. MakesConfig(made)
  BY <1>2, AllFieldsMake DEF IsFields
<1> QED
  BY <1>3, <1>4, ParsedIs DEF MakesConfig

----------------------------------------------------------------------------
(* The inductive invariant: what was parsed can be expanded, what was      *)
(* compiled was validated in the world it was compiled in, and what passed *)
(* held when it was measured.                                              *)

\* A literal path was a file when the macro expanded.
PathWas(l, w) == l.kind = "env_file" /\ l.path \in Strings => w.place \in ExpansionPlaces

Compilable(l, w) ==
  /\ l.kind \in LimitKinds
  /\ l.kind = "int" => l.value \in Nat
  /\ l.kind = "pct" => l.pct \in 1..100 /\ l.of.kind = "env_file"
  /\ ValidateEnvVars(l, w)
  /\ PathWas(Sourced(l), w)

HasAssertions == phase \in {"compiled", "passed", "failed"} /\ kind # "scaling"

ParsedInv ==
  /\ phase = "parsed" /\ kind # "scaling" => GoodSpec(parsed, found)
  /\ phase = "parsed" /\ kind = "limit" => parsed.cpu # <<>>
  /\ phase \in {"parsed", "measuring", "passed"} /\ kind = "scaling" =>
       GoodConfig(parsed) /\ ScalingOk(parsed)

ExpandedInv ==
  HasAssertions => at \in Worlds /\ \A j \in DOMAIN asserts : Compilable(asserts[j].limit, at)

RanInv ==
  /\ Ran => later \in Worlds /\ \A j \in DOMAIN asserts : costs[j] \in Measures(asserts[j].metric)
  /\ Ran /\ phase = "passed" => \A j \in DOMAIN asserts : Holds(asserts[j], costs[j], later)

ScalingInv ==
  /\ kind = "scaling" => costs \in Seq(Costs)
  /\ ScalingPassed /\ ~left => ScalingHolds(parsed, costs)

TestInv ==
  /\ kind \in {"limit", "spec", "scaling"}
  /\ attr \in Tokens
  /\ found \in BOOLEAN
  /\ phase = "measuring" => kind = "scaling"
  /\ phase = "compiled" => kind # "scaling"
  /\ ParsedInv /\ ExpandedInv /\ RanInv /\ ScalingInv

LEMMA EmptyTokens == <<>> \in Tokens
  BY DEF Tokens

LEMMA OneIn ==
  ASSUME NEW S, NEW x \in S
  PROVE  <<x>> \in Seq(S) /\ Len(<<x>>) = 1 /\ <<x>>[1] = x
  OBVIOUS

LEMMA OneAndOne ==
  ASSUME NEW x, NEW y
  PROVE  <<x>> \o <<y>> = <<x, y>>
<1> DEFINE S == {x, y}
<1>1. x \in S /\ y \in S
  OBVIOUS
<1> HIDE DEF S
<1>2. /\ <<x>> \in Seq(S) /\ Len(<<x>>) = 1 /\ <<x>>[1] = x
      /\ <<y>> \in Seq(S) /\ Len(<<y>>) = 1 /\ <<y>>[1] = y
  BY <1>1, OneIn
<1> DEFINE both == <<x>> \o <<y>>
<1>3. /\ both \in Seq(S) /\ Len(both) = 2
      /\ both[1] = x /\ both[2] = y
  BY <1>2, ConcatProperties
<1>4. <<x, y>> \in Seq(S) /\ Len(<<x, y>>) = 2
  BY <1>1
<1>5. \A i \in 1..Len(both) : both[i] = <<x, y>>[i]
  BY <1>3
<1> HIDE DEF both
<1>6. both = <<x, y>>
  BY <1>3, <1>4, <1>5, SeqEqual
<1> QED
  BY <1>6 DEF both

(* The limits of an expansion are those that were parsed.                  *)
LEMMA ExpandedLimits ==
  ASSUME NEW spec, NEW there, GoodSpec(spec, there), NEW made,
         \/ made = BudgetLt(spec)
         \/ made \in Standalone(spec) /\ spec.cpu # <<>>
  PROVE  \A j \in DOMAIN made : GoodLimit(made[j].limit, there)
<1> DEFINE cpu(metric) == AssertionOf(metric, spec.cpu[1], spec.cpu_baseline)
           mem == AssertionOf("mem", spec.mem[1], spec.mem_baseline)
<1>1. /\ spec.cpu # <<>> => \A metric : GoodLimit(cpu(metric).limit, there)
      /\ spec.mem # <<>> => GoodLimit(mem.limit, there)
  BY DEF GoodSpec, AssertionOf
<1>2. CASE made \in Standalone(spec) /\ spec.cpu # <<>>
  <2>1. \E metric : made = <<cpu(metric)>>
    BY <1>2 DEF Standalone, BudgetCpuLt, BudgetMemLt, BudgetWriteBytesLt, BudgetReadBytesLt,
                BudgetEventsLt, BudgetLedgerEntriesLt, BytesProxy, One
  <2> HIDE DEF cpu
  <2> QED
    BY <1>1, <1>2, <2>1
<1>3. CASE made = BudgetLt(spec)
  <2> DEFINE first == IF spec.cpu = <<>> THEN <<>> ELSE <<cpu("cpu")>>
             second == IF spec.mem = <<>> THEN <<>> ELSE <<mem>>
  <2>1. made = first \o second
    BY <1>3 DEF BudgetLt
  <2> HIDE DEF cpu, mem
  <2>2. CASE spec.cpu = <<>> /\ spec.mem = <<>>
    <3>1. made = <<>>
      BY <2>1, <2>2
    <3> QED
      BY <3>1
  <2>3. CASE spec.cpu = <<>> /\ spec.mem # <<>>
    <3>1. made = <<mem>>
      BY <2>1, <2>3
    <3> QED
      BY <1>1, <2>3, <3>1
  <2>4. CASE spec.cpu # <<>> /\ spec.mem = <<>>
    <3>1. made = <<cpu("cpu")>>
      BY <2>1, <2>4
    <3> QED
      BY <1>1, <2>4, <3>1
  <2>5. CASE spec.cpu # <<>> /\ spec.mem # <<>>
    <3>1. made = <<cpu("cpu"), mem>>
      <4>1. first = <<cpu("cpu")>> /\ second = <<mem>>
        BY <2>5
      <4> QED
        BY <2>1, <4>1, OneAndOne
    <3> QED
      BY <1>1, <2>5, <3>1
  <2> QED
    BY <2>2, <2>3, <2>4, <2>5
<1> QED
  BY <1>2, <1>3

LEMMA TestInitially == TestInit => TestInv
<1> SUFFICES ASSUME TestInit PROVE TestInv
  OBVIOUS
<1>1. <<>> \in Tokens /\ <<>> \in Seq(Costs)
  BY DEF Tokens
<1> QED
  BY <1>1 DEF TestInit, TestInv, ParsedInv, ExpandedInv, RanInv, ScalingInv, HasAssertions, Ran, ScalingPassed

LEMMA WriteStep ==
  ASSUME TestInv, NEW piece \in Pieces[kind], Write(piece)
  PROVE  TestInv'
<1>1. /\ phase = "writing" /\ phase' = phase /\ kind' = kind /\ found' = found
      /\ costs' = costs
  BY DEF Write
<1>2. attr' \in Tokens
  <2>1. kind \in {"limit", "spec", "scaling"} /\ attr \in Seq(AnyToken)
    BY DEF TestInv, Tokens
  <2>2. piece \in Seq(STRING)
    BY <2>1, PiecesAssumption
  <2>3. piece \in Seq(AnyToken) /\ <<",">> \in Seq(AnyToken)
    <3> DEFINE n == Len(piece)
    <3>1. "," \in AnyToken /\ \A t \in STRING : t \in AnyToken
      BY DEF AnyToken
    <3>2. 1 \in Int /\ n \in Int /\ \A i \in 1..n : piece[i] \in STRING
      BY <2>2
    <3>3. \A i \in 1..n : piece[i] \in AnyToken
      BY <3>1, <3>2
    <3> HIDE DEF n
    <3>4. SubSeq(piece, 1, n) \in Seq(AnyToken)
      BY <3>2, <3>3, SubSeqProperties
    <3>5. SubSeq(piece, 1, n) = piece
      BY <2>2, SubSeqFull DEF n
    <3> QED
      BY <3>1, <3>4, <3>5, OneIn
  <2>4. attr \o piece \in Seq(AnyToken) /\ attr \o <<",">> \o piece \in Seq(AnyToken)
    BY <2>1, <2>3, ConcatProperties
  <2> QED
    BY <2>4 DEF Write, Tokens
<1> QED
  BY <1>1, <1>2 DEF TestInv, ParsedInv, ExpandedInv, RanInv, ScalingInv, HasAssertions, Ran, ScalingPassed

LEMMA ParseStep ==
  ASSUME TestInv, Parse
  PROVE  TestInv'
<1> DEFINE r == ParserOf(attr, found')
<1>1. /\ phase = "writing" /\ kind' = kind /\ found' \in BOOLEAN /\ costs' = costs
      /\ \/ phase' = "parsed" /\ r.ok /\ parsed' = r.value /\ attr' = attr
         \/ phase' = "rejected" /\ attr' = <<>>
  BY DEF Parse
<1>2. kind \in {"limit", "spec", "scaling"} /\ attr \in Tokens
  BY DEF TestInv
<1>3. kind = "limit" => /\ MakesSpec(r, found')
                        /\ r.ok => r.value.cpu # <<>>
  BY <1>1, <1>2, StandaloneMakes DEF ParserOf
<1>4. kind = "spec" => MakesSpec(r, found')
  BY <1>1, <1>2, SpecMakes DEF ParserOf
<1>5. kind = "scaling" /\ r.ok => GoodConfig(r.value) /\ ScalingOk(r.value)
  BY <1>1, <1>2, ScalingMakes DEF ParserOf
<1> HIDE DEF r
<1>6. ParsedInv'
  BY <1>1, <1>2, <1>3, <1>4, <1>5 DEF ParsedInv, MakesSpec
<1>7. attr' \in Tokens
  BY <1>1, <1>2, EmptyTokens
<1> QED
  BY <1>1, <1>2, <1>6, <1>7 DEF TestInv, ExpandedInv, RanInv, ScalingInv, HasAssertions, Ran, ScalingPassed

LEMMA ExpandStep ==
  ASSUME TestInv, Expand
  PROVE  TestInv'
<1> DEFINE limits == {asserts'[j].limit : j \in DOMAIN asserts'}
<1>1. /\ phase = "parsed" /\ kind # "scaling" /\ kind' = kind /\ costs' = costs
      /\ attr' = <<>> /\ found' = FALSE
      /\ asserts' \in IF kind = "limit" THEN Standalone(parsed) ELSE {BudgetLt(parsed)}
  BY DEF Expand
<1>2. /\ at' \in Relevant(asserts')
      /\ "place" \in UNION {Reads(l) : l \in limits} => (at'.place \in ExpansionPlaces) = found
      /\ phase' \in {"rejected", "panicked", "compiled"}
      /\ phase' = "compiled" => \A l \in limits : ValidateEnvVars(l, at') /\ Expressible(l)
  BY DEF Expand
<1>3. GoodSpec(parsed, found) /\ (kind = "limit" => parsed.cpu # <<>>)
  BY <1>1 DEF TestInv, ParsedInv
<1>4. \A l \in limits : GoodLimit(l, found)
  <2>1. asserts' = BudgetLt(parsed) \/ (asserts' \in Standalone(parsed) /\ parsed.cpu # <<>>)
    BY <1>1, <1>3
  <2> QED
    BY <1>3, <2>1, ExpandedLimits
<1>5. at' \in Worlds
  BY <1>2 DEF Relevant
<1>6. ASSUME phase' = "compiled", NEW l \in limits
      PROVE  Compilable(l, at')
  <2>1. ValidateEnvVars(l, at') /\ Expressible(l) /\ GoodLimit(l, found)
    BY <1>2, <1>4, <1>6
  <2>2. PathWas(Sourced(l), at')
    <3> DEFINE s == Sourced(l)
    <3> SUFFICES ASSUME s.kind = "env_file", s.path \in Strings
                 PROVE  at'.place \in ExpansionPlaces
      BY DEF PathWas
    <3>1. FileWas(s, found)
      BY <2>1 DEF GoodLimit, Sourced
    <3>2. found
      BY <3>1 DEF FileWas
    <3>3. Sourced(s) = s
      BY DEF Sourced
    <3> HIDE DEF s
    <3>4. "place" \in Reads(l)
      BY <3>3 DEF Reads, s
    <3> HIDE DEF limits
    <3> QED
      BY <1>2, <1>6, <3>2, <3>4
  <2> QED
    BY <2>1, <2>2 DEF Compilable, GoodLimit, Expressible
<1>7. ExpandedInv'
  <2>1. phase' = "compiled" => \A j \in DOMAIN asserts' : Compilable(asserts'[j].limit, at')
    BY <1>6
  <2> HIDE DEF limits
  <2> QED
    BY <1>2, <1>5, <2>1 DEF ExpandedInv, HasAssertions
<1> HIDE DEF limits
<1>8. attr' \in Tokens /\ found' \in BOOLEAN /\ kind' \in {"limit", "spec", "scaling"}
  BY <1>1, EmptyTokens DEF TestInv
<1> QED
  BY <1>1, <1>2, <1>7, <1>8 DEF TestInv, ParsedInv, RanInv, ScalingInv, Ran, ScalingPassed

LEMMA RunStep ==
  ASSUME TestInv, Run
  PROVE  TestInv'
<1>1. /\ phase = "compiled" /\ phase' \in {"passed", "failed"}
      /\ kind' = kind /\ attr' = attr /\ found' = found /\ asserts' = asserts /\ at' = at
      /\ later' \in Relevant(asserts)
      /\ \A j \in DOMAIN asserts : costs'[j] \in Measures(asserts[j].metric)
      /\ phase' = "passed" => \A j \in DOMAIN asserts : Holds(asserts[j], costs'[j], later')
  BY DEF Run
<1>2. kind # "scaling" /\ later' \in Worlds
  BY <1>1 DEF TestInv, Relevant
<1>3. RanInv'
  BY <1>1, <1>2 DEF RanInv, Ran
<1>4. ExpandedInv'
  BY <1>1, <1>2 DEF TestInv, ExpandedInv, HasAssertions
<1> QED
  BY <1>1, <1>2, <1>3, <1>4 DEF TestInv, ParsedInv, ScalingInv, ScalingPassed

LEMMA ScalingStep ==
  ASSUME TestInv,
         ExpandScaling \/ (\E cost \in Costs : MeasureSize(cost)) \/ CheckScaling \/ ReturnFromBody
  PROVE  TestInv'
<1>1. /\ kind = "scaling" /\ kind' = kind /\ found' = found /\ parsed' = parsed
      /\ phase \in {"parsed", "measuring"} /\ phase' \in {"measuring", "passed", "failed"}
      /\ attr' = attr \/ attr' = <<>>
  BY DEF TestInv, ExpandScaling, MeasureSize, CheckScaling, ReturnFromBody
<1>2. attr' \in Tokens
  BY <1>1, EmptyTokens DEF TestInv
<1>3. costs' \in Seq(Costs)
  <2>1. costs \in Seq(Costs)
    BY <1>1 DEF TestInv, ScalingInv
  <2> QED
    BY <2>1 DEF ExpandScaling, MeasureSize, CheckScaling, ReturnFromBody
<1>4. phase' = "passed" /\ ~left' => ScalingHolds(parsed', costs')
  BY DEF ExpandScaling, MeasureSize, CheckScaling, ReturnFromBody, TestInv
<1>5. ParsedInv'
  BY <1>1 DEF TestInv, ParsedInv
<1>6. ScalingInv'
  BY <1>1, <1>3, <1>4 DEF ScalingInv, ScalingPassed
<1> QED
  BY <1>1, <1>2, <1>5, <1>6 DEF TestInv, ExpandedInv, RanInv, HasAssertions, Ran

LEMMA TestStutters ==
  ASSUME TestInv, UNCHANGED testVars
  PROVE  TestInv'
  BY DEF testVars, TestInv, ParsedInv, ExpandedInv, RanInv, ScalingInv, HasAssertions, Ran, ScalingPassed

LEMMA TestInductive == TestInv /\ [TestNext]_testVars => TestInv'
<1> SUFFICES ASSUME TestInv, [TestNext]_testVars PROVE TestInv'
  OBVIOUS
<1> QED
  BY WriteStep, ParseStep, ExpandStep, RunStep, ScalingStep, TestStutters, Zenon DEF TestNext

LEMMA TestInvariance == TestSpec => []TestInv
<1> QED
  BY TestInitially, TestInductive, PTL DEF TestSpec

----------------------------------------------------------------------------
(* What follows from it.                                                   *)

(* A test that runs in the world its macro was expanded in finds the       *)
(* variables and the files that the macro looked for, for every attribute  *)
(* that can be put together and all values of the world.                   *)
LEMMA Foreseen == TestInv => ExpansionForesees
<1> SUFFICES ASSUME TestInv, Ran, later = at, at.place # "root", NEW j \in DOMAIN asserts
             PROVE  LET s == Sourced(asserts[j].limit)
                    IN  /\ s.kind = "env" => LimitAt(s, later) # {}
                        /\ s.kind = "env_file" /\ s.path \in Strings => later.place \in RuntimePlaces
  BY DEF ExpansionForesees
<1> DEFINE l == asserts[j].limit
           s == Sourced(l)
<1>1. Compilable(l, at)
  BY DEF TestInv, ExpandedInv, HasAssertions, Ran
<1> HIDE DEF l
<1>2. s.kind # "pct"
  BY <1>1 DEF Compilable, Sourced
<1>3. s.kind = "env" => LimitAt(s, later) # {}
  <2>1. Sourced(s) = s
    BY <1>2 DEF Sourced
  <2> HIDE DEF s
  <2>2. s.kind = "env" => Readable(later.env)
    BY <1>1, <2>1 DEF Compilable, ValidateEnvVars, s
  <2> QED
    BY <2>2 DEF LimitAt
<1>4. s.kind = "env_file" /\ s.path \in Strings => later.place \in RuntimePlaces
  <2>1. s.kind = "env_file" /\ s.path \in Strings => later.place \in ExpansionPlaces
    BY <1>1 DEF Compilable, PathWas
  <2> QED
    BY <2>1 DEF ExpansionPlaces, RuntimePlaces
<1> QED
  BY <1>3, <1>4 DEF l

(* The expansion foresees what a test in its world will find.              *)
THEOREM TheExpansionForesees == TestSpec => []ExpansionForesees
<1> QED
  BY TestInvariance, Foreseen, PTL

(* Values and costs are numbers.                                           *)
LEMMA ReadableValue ==
  ASSUME NEW v \in Values, Readable(v)
  PROVE  v[1] \in Nat
<1>1. v \in Seq(Int) /\ Len(v) <= 1 /\ v # <<>> /\ v[1] >= 0
  BY NumbersAssumption DEF Readable
<1>2. v[1] \in Int
  BY <1>1
<1> QED
  BY <1>1, <1>2

LEMMA ReadableOne ==
  ASSUME NEW x \in Nat
  PROVE  Readable(<<x>>) /\ <<x>>[1] = x
<1>1. <<x>> # <<>> /\ <<x>>[1] = x /\ x >= 0
  OBVIOUS
<1> QED
  BY <1>1 DEF Readable

LEMMA TotalIs ==
  ASSUME NEW metric, NEW parts \in Measures(metric)
  PROVE  Saturated(Total(parts)) \in Nat
<1>1. Costs \subseteq Nat /\ Max64 \in Nat
  BY NumbersAssumption
<1>2. CASE metric = "entries"
  <2>1. PICK x \in Costs, y \in Costs : parts = <<x, y>>
    BY <1>2 DEF Measures
  <2>2. Total(parts) = x + y
    BY <2>1 DEF Total
  <2> QED
    BY <1>1, <2>2 DEF Saturated
<1>3. CASE metric # "entries"
  <2>1. PICK x \in Costs : parts = <<x>>
    BY <1>3 DEF Measures
  <2>2. Total(parts) = x
    BY <2>1 DEF Total
  <2> QED
    BY <1>1, <2>2 DEF Saturated
<1> QED
  BY <1>2, <1>3

(* A part of a hundred, cut off, is not exceeded by what is below it.      *)
LEMMA BelowAPart ==
  ASSUME NEW x \in Int, NEW m \in Nat, NEW y \in Nat, x <= y, y < m \div 100
  PROVE  0 < m /\ 100 * x < m
<1>1. m \div 100 \in Nat /\ (m \div 100) * 100 <= m
  BY SMT
<1> QED
  BY <1>1, SMT

(* A test that passes was within its limits.                               *)
LEMMA Within == TestInv => PassedWithinLimits
<1> SUFFICES ASSUME TestInv, Ran, phase = "passed", NEW j \in DOMAIN asserts
             PROVE  LET a == asserts[j]
                        s == Sourced(a.limit)
                        pct == IF a.limit.kind = "pct" THEN a.limit.pct ELSE 100
                        cost == Saturated(Total(costs[j])) - (IF a.baseline THEN Baseline ELSE 0)
                        origin == CASE s.kind = "int" -> <<s.value>>
                                    [] s.kind = "env" -> later.env
                                    [] s.kind = "env_file" -> later.key
                                    [] s.kind = "config" ->
                                         IF later.json = <<>> THEN <<Max64>> ELSE later.json[1]
                    IN  /\ Readable(origin)
                        /\ s.kind = "env_file" => later.place # "nowhere"
                        /\ \/ s.kind = "config" /\ later.json = <<>>
                           \/ 0 < origin[1] * pct /\ 100 * cost < origin[1] * pct
  BY DEF PassedWithinLimits
<1> DEFINE a == asserts[j]
           l == a.limit
           s == Sourced(l)
           pct == IF l.kind = "pct" THEN l.pct ELSE 100
           total == Saturated(Total(costs[j]))
           base == IF a.baseline THEN Baseline ELSE 0
           cost == total - base
           file == IF later.place \in RuntimePlaces /\ Readable(later.key) THEN {later.key[1]} ELSE {}
           origin == CASE s.kind = "int" -> <<s.value>>
                       [] s.kind = "env" -> later.env
                       [] s.kind = "env_file" -> later.key
                       [] s.kind = "config" ->
                            IF later.json = <<>> THEN <<Max64>> ELSE later.json[1]
<1>1. Compilable(l, at) /\ later \in Worlds /\ Holds(a, costs[j], later)
  BY DEF TestInv, ExpandedInv, RanInv, HasAssertions, Ran
<1>2. total \in Nat
  BY TotalIs DEF TestInv, RanInv, Ran
<1>3. base \in Nat
  BY NumbersAssumption
<1>4. PICK limit \in LimitAt(l, later) : Less(total, base) < limit
  BY <1>1 DEF Holds
<1> HIDE DEF total, base, l
<1>5. cost \in Int /\ cost <= Less(total, base) /\ Less(total, base) \in Nat
  BY <1>2, <1>3 DEF Less
<1> HIDE DEF cost
<1>6. /\ later.env \in Values /\ later.key \in Values
      /\ later.json = <<>> \/ later.json[1] \in Values
  BY <1>1 DEF Worlds, Json
<1>7. Max64 \in Nat
  BY NumbersAssumption
<1>8. CASE l.kind = "int"
  <2>1. s = l /\ pct = 100
    BY <1>8 DEF Sourced
  <2>2. origin = <<l.value>>
    BY <1>8, <2>1
  <2>3. l.value \in Nat /\ limit = l.value
    BY <1>1, <1>4, <1>8 DEF Compilable, LimitAt
  <2>4. Readable(origin) /\ origin[1] = limit
    BY <2>2, <2>3, ReadableOne
  <2> HIDE DEF origin
  <2> QED
    BY <1>4, <1>5, <1>8, <2>1, <2>3, <2>4 DEF l, cost, total, base, origin
<1>9. CASE l.kind = "env"
  <2>1. s = l /\ pct = 100
    BY <1>9 DEF Sourced
  <2>2. origin = later.env
    BY <1>9, <2>1
  <2>3. Readable(later.env) /\ limit = later.env[1]
    BY <1>4, <1>9 DEF LimitAt
  <2>4. limit \in Nat
    BY <1>6, <2>3, ReadableValue
  <2> HIDE DEF origin
  <2> QED
    BY <1>4, <1>5, <1>9, <2>1, <2>2, <2>3, <2>4 DEF l, cost, total, base, origin
<1>10. CASE l.kind = "config"
  <2>1. s = l /\ pct = 100
    BY <1>10 DEF Sourced
  <2>2. origin = IF later.json = <<>> THEN <<Max64>> ELSE later.json[1]
    BY <1>10, <2>1
  <2>3. CASE later.json = <<>>
    <3>1. Readable(origin)
      BY <1>7, <2>2, <2>3, ReadableOne
    <3> HIDE DEF origin
    <3> QED
      BY <1>10, <2>1, <2>3, <3>1 DEF l, cost, total, base, origin
  <2>4. CASE later.json # <<>>
    <3>1. origin = later.json[1] /\ Readable(origin) /\ limit = origin[1]
      BY <1>4, <1>10, <2>2, <2>4 DEF LimitAt
    <3>2. limit \in Nat
      BY <1>6, <2>4, <3>1, ReadableValue
    <3> HIDE DEF origin
    <3> QED
      BY <1>4, <1>5, <1>10, <2>1, <3>1, <3>2 DEF l, cost, total, base, origin
  <2> QED
    BY <2>3, <2>4
<1>11. CASE l.kind = "env_file"
  <2>1. s = l /\ pct = 100
    BY <1>11 DEF Sourced
  <2>2. origin = later.key
    BY <1>11, <2>1
  <2>3. /\ later.place \in RuntimePlaces /\ Readable(later.key)
        /\ limit = later.key[1]
    BY <1>4, <1>11 DEF LimitAt
  <2>4. limit \in Nat /\ later.place # "nowhere"
    BY <1>6, <2>3, ReadableValue DEF RuntimePlaces
  <2> HIDE DEF origin
  <2> QED
    BY <1>4, <1>5, <1>11, <2>1, <2>2, <2>3, <2>4 DEF l, cost, total, base, origin
<1>12. CASE l.kind = "pct"
  <2>1. s = l.of /\ s.kind = "env_file" /\ pct = l.pct /\ pct \in 1..100
    BY <1>1, <1>12 DEF Sourced, Compilable
  <2>2. origin = later.key
    BY <2>1
  <2>3. PICK n \in file : limit = (n * l.pct) \div 100
    BY <1>4, <1>12 DEF LimitAt
  <2>4. later.place \in RuntimePlaces /\ Readable(later.key) /\ n = later.key[1]
    BY <2>3
  <2>5. n \in Nat /\ later.place # "nowhere"
    BY <1>6, <2>4, ReadableValue DEF RuntimePlaces
  <2> HIDE DEF origin
  <2> DEFINE m == n * l.pct
  <2>6. m \in Nat
    BY <2>1, <2>5
  <2>7. Less(total, base) < m \div 100
    BY <1>4, <2>3
  <2> HIDE DEF m
  <2>8. 0 < m /\ 100 * cost < m
    BY <1>5, <2>6, <2>7, BelowAPart
  <2>9. origin[1] * pct = m
    BY <2>1, <2>2, <2>4 DEF m
  <2> QED
    BY <2>1, <2>2, <2>4, <2>5, <2>8, <2>9 DEF l, cost, total, base, origin
<1>13. l.kind \in {"int", "env", "config", "env_file", "pct"}
  BY <1>1 DEF Compilable, LimitKinds
<1> QED
  BY <1>8, <1>9, <1>10, <1>11, <1>12, <1>13

(* Every test that passes was within its limits.                           *)
THEOREM PassedIsWithin == TestSpec => []PassedWithinLimits
<1> QED
  BY TestInvariance, Within, PTL

----------------------------------------------------------------------------
(* Growth: the steps from size to size make up the whole range.            *)

IsPower(b, p, n) == p = [k \in 0..n |-> IF k = 0 THEN 1 ELSE b * p[k - 1]]

LEMMA PowerExtend ==
  ASSUME NEW b, NEW n \in Nat, NEW p, IsPower(b, p, n)
  PROVE  \E q : IsPower(b, q, n + 1)
<1> DEFINE q == [k \in 0..(n + 1) |-> IF k <= n THEN p[k] ELSE b * p[n]]
<1>1. \A m \in 0..n : q[m] = p[m]
  OBVIOUS
<1>2. ASSUME NEW k \in 0..(n + 1)
      PROVE  q[k] = IF k = 0 THEN 1 ELSE b * q[k - 1]
  <2>1. CASE k <= n
    <3>1. k \in 0..n /\ (k # 0 => k - 1 \in 0..n)
      BY <2>1
    <3>2. p[k] = IF k = 0 THEN 1 ELSE b * p[k - 1]
      BY <3>1, Zenon DEF IsPower
    <3> HIDE DEF q
    <3> QED
      BY <1>1, <3>1, <3>2
  <2>2. CASE ~(k <= n)
    <3>1. k # 0 /\ k - 1 = n /\ q[k] = b * p[n] /\ q[n] = p[n]
      BY <2>2
    <3> HIDE DEF q
    <3> QED
      BY <3>1
  <2> QED
    BY <2>1, <2>2
<1>3. q = [k \in 0..(n + 1) |-> q[k]]
  OBVIOUS
<1> HIDE DEF q
<1>4. q = [k \in 0..(n + 1) |-> IF k = 0 THEN 1 ELSE b * q[k - 1]]
  BY <1>2, <1>3, Zenon
<1> QED
  BY <1>4 DEF IsPower

LEMMA PowerExists ==
  ASSUME NEW b, NEW n \in Nat
  PROVE  \E p : IsPower(b, p, n)
<1> DEFINE S == {m \in Nat : \E p : IsPower(b, p, m)}
<1>1. ASSUME NEW m \in Nat, \A k \in 0..(m - 1) : k \in S
      PROVE  m \in S
  <2>1. CASE m = 0
    <3> DEFINE q == [k \in 0..0 |-> 1]
    <3>1. \A k \in 0..0 : (IF k = 0 THEN 1 ELSE b * q[k - 1]) = 1
      OBVIOUS
    <3>2. q = [k \in 0..0 |-> IF k = 0 THEN 1 ELSE b * q[k - 1]]
      BY <3>1, Zenon
    <3> HIDE DEF q
    <3> QED
      BY <2>1, <3>2 DEF IsPower
  <2>2. CASE m # 0
    <3>1. m - 1 \in Nat /\ m - 1 \in 0..(m - 1) /\ (m - 1) + 1 = m
      BY <2>2
    <3>2. PICK p : IsPower(b, p, m - 1)
      BY <1>1, <3>1
    <3>3. \E q : IsPower(b, q, (m - 1) + 1)
      BY <3>1, <3>2, PowerExtend
    <3> QED
      BY <3>1, <3>3
  <2> QED
    BY <2>1, <2>2
<1> HIDE DEF S
<1>2. Nat \subseteq S
  BY <1>1, SmallerFirst
<1> QED
  BY <1>2 DEF S

\* The powers of b up to the n-th.
Powers(b, p, n) == p[0] = 1 /\ \A k \in 1..n : p[k] = b * p[k - 1]

LEMMA PowerIs ==
  ASSUME NEW b, NEW n \in Nat
  PROVE  \E p : Powers(b, p, n) /\ Power(b, n) = p[n]
<1> DEFINE p == CHOOSE q : q = [k \in 0..n |-> IF k = 0 THEN 1 ELSE b * q[k - 1]]
<1>1. \E q : q = [k \in 0..n |-> IF k = 0 THEN 1 ELSE b * q[k - 1]]
  BY PowerExists DEF IsPower
<1>2. p = [k \in 0..n |-> IF k = 0 THEN 1 ELSE b * p[k - 1]]
  BY <1>1, Zenon
<1>3. Power(b, n) = p[n]
  BY DEF Power
<1> HIDE DEF p
<1>4. \A k \in 0..n : p[k] = IF k = 0 THEN 1 ELSE b * p[k - 1]
  BY <1>2, Zenon
<1>5. Powers(b, p, n)
  BY <1>4 DEF Powers
<1> QED
  BY <1>3, <1>5

LEMMA Products ==
  ASSUME NEW x \in Nat, NEW y \in Nat, NEW z \in Nat
  PROVE  x * y \in Nat /\ x * y = y * x /\ x * (y * z) = (x * y) * z
  BY SMT

(* One step more: the bound so far, times the bound of the step.           *)
LEMMA StepMore ==
  ASSUME NEW a \in Nat, NEW b \in Nat, NEW H \in Nat, NEW T \in Nat,
         NEW c1 \in Nat, NEW c2 \in Nat, NEW c3 \in Nat,
         NEW g1 \in Nat, NEW g2 \in Nat \ {0}, NEW g3 \in Nat,
         (c2 * g1) * H <= (c1 * g2) * T,
         a * (c3 * g2) <= b * (c2 * g3)
  PROVE  (c3 * g1) * (a * H) <= (c1 * g3) * (b * T)
<1>1. (a * (c3 * g2)) * (g1 * H) <= (b * (c2 * g3)) * (g1 * H)
  BY ProductMonotone, Products
<1>2. ((c2 * g1) * H) * (b * g3) <= ((c1 * g2) * T) * (b * g3)
  BY ProductMonotone, Products
<1>3. (a * (c3 * g2)) * (g1 * H) = g2 * ((c3 * g1) * (a * H))
  BY SMT
<1>4. (b * (c2 * g3)) * (g1 * H) = ((c2 * g1) * H) * (b * g3)
  BY SMT
<1>5. ((c1 * g2) * T) * (b * g3) = g2 * ((c1 * g3) * (b * T))
  BY SMT
<1>6. (c3 * g1) * (a * H) \in Nat /\ (c1 * g3) * (b * T) \in Nat
  BY SMT
<1>7. g2 * ((c3 * g1) * (a * H)) <= g2 * ((c1 * g3) * (b * T))
  BY <1>1, <1>2, <1>3, <1>4, <1>5
<1> QED
  BY <1>6, <1>7, Cancel

LEMMA Telescope ==
  ASSUME NEW n \in Nat \ {0}, NEW c, NEW g, NEW a \in Nat, NEW b \in Nat, NEW pa, NEW pb,
         \A j \in 1..n : c[j] \in Nat /\ g[j] \in Nat,
         \A j \in 1..(n - 1) : g[j] > 0,
         \A j \in 1..(n - 1) : a * (c[j + 1] * g[j]) <= b * (c[j] * g[j + 1]),
         Powers(a, pa, n - 1), Powers(b, pb, n - 1)
  PROVE  (c[n] * g[1]) * pa[n - 1] <= (c[1] * g[n]) * pb[n - 1]
<1> DEFINE Bound(k) == /\ pa[k] \in Nat /\ pb[k] \in Nat
                       /\ (c[k + 1] * g[1]) * pa[k] <= (c[1] * g[k + 1]) * pb[k]
           S == {k \in Nat : k <= n - 1 => Bound(k)}
<1>1. ASSUME NEW k \in Nat, \A m \in 0..(k - 1) : m \in S, k <= n - 1
      PROVE  Bound(k)
  <2>1. CASE k = 0
    <3>1. pa[0] = 1 /\ pb[0] = 1
      BY DEF Powers
    <3>2. c[1] \in Nat /\ g[1] \in Nat
      OBVIOUS
    <3> QED
      BY <2>1, <3>1, <3>2, SMT
  <2>2. CASE k # 0
    <3> DEFINE i == k - 1
    <3>1. /\ i \in Nat /\ i \in 0..(k - 1) /\ i <= n - 1 /\ i + 1 = k
          /\ k \in 1..(n - 1) /\ k \in 1..n /\ k + 1 \in 1..n /\ 1 \in 1..n
      BY <1>1, <2>2
    <3>2. Bound(i)
      BY <1>1, <3>1
    <3>3. pa[k] = a * pa[i] /\ pb[k] = b * pb[i]
      BY <3>1 DEF Powers
    <3>4. /\ c[1] \in Nat /\ c[k] \in Nat /\ c[k + 1] \in Nat
          /\ g[1] \in Nat /\ g[k] \in Nat \ {0} /\ g[k + 1] \in Nat
      BY <3>1
    <3>5. a * (c[k + 1] * g[k]) <= b * (c[k] * g[k + 1])
      BY <3>1
    <3> HIDE DEF i, S
    <3>6. /\ pa[i] \in Nat /\ pb[i] \in Nat
          /\ (c[k] * g[1]) * pa[i] <= (c[1] * g[k]) * pb[i]
      BY <3>1, <3>2
    <3>7. (c[k + 1] * g[1]) * (a * pa[i]) <= (c[1] * g[k + 1]) * (b * pb[i])
      BY <3>4, <3>5, <3>6, StepMore
    <3>8. a * pa[i] \in Nat /\ b * pb[i] \in Nat
      BY <3>6, Products
    <3> QED
      BY <3>3, <3>7, <3>8
  <2> QED
    BY <2>1, <2>2
<1> HIDE DEF Bound
<1>2. \A k \in Nat : (\A m \in 0..(k - 1) : m \in S) => k \in S
  BY <1>1
<1> HIDE DEF S
<1>3. Nat \subseteq S
  BY <1>2, SmallerFirst
<1>4. n - 1 \in Nat /\ (n - 1) + 1 = n
  OBVIOUS
<1>5. Bound(n - 1)
  BY <1>3, <1>4 DEF S
<1> QED
  BY <1>4, <1>5 DEF Bound

(* What the check of one step says, without the deviation.                 *)
LEMMA NearIs ==
  ASSUME NEW observed \in Nat, NEW expected \in Nat, NEW t \in Nat,
         100 * (IF observed > expected THEN observed - expected ELSE expected - observed) <= t * expected
  PROVE  /\ 100 * observed <= (100 + t) * expected
         /\ Less(100, t) * expected <= 100 * observed
<1>1. t * expected \in Nat /\ (100 + t) * expected = 100 * expected + t * expected
  BY SMT
<1>2. 100 * observed <= (100 + t) * expected
  BY <1>1
<1>3. CASE 100 > t
  <2>1. (100 - t) * expected = 100 * expected - t * expected
    BY SMT
  <2>2. Less(100, t) = 100 - t
    BY <1>3 DEF Less
  <2> QED
    BY <1>1, <1>2, <2>1, <2>2
<1>4. CASE ~(100 > t)
  <2>1. Less(100, t) = 0
    BY <1>4 DEF Less
  <2> QED
    BY <1>2, <2>1
<1> QED
  BY <1>3, <1>4

LEMMA GrowthIs ==
  ASSUME NEW model, NEW n \in Nat
  PROVE  Growth(model, n) \in Nat /\ (n > 0 => Growth(model, n) > 0)
<1>1. n * n \in Nat /\ (n > 0 => n * n > 0)
  BY SMT
<1> QED
  BY <1>1 DEF Growth

LEMMA GrowthBounds == TestInv => GrowthIsAsDeclared
<1> SUFFICES ASSUME TestInv, ScalingPassed, ~left
             PROVE  LET sizes == parsed.sizes[1]
                        n == Len(sizes)
                        t == parsed.tolerance[1]
                        observed == costs[n] * Growth(parsed.model[1], sizes[1])
                        expected == costs[1] * Growth(parsed.model[1], sizes[n])
                    IN  /\ n >= 2 /\ Len(costs) = n
                        /\ observed * Power(100, n - 1) <= expected * Power(100 + t, n - 1)
                        /\ observed * Power(100, n - 1) >= expected * Power(Less(100, t), n - 1)
                        /\ \A j \in 1..(n - 1) : costs[j] > 0
  BY DEF GrowthIsAsDeclared
<1> DEFINE sizes == parsed.sizes[1]
           n == Len(sizes)
           t == parsed.tolerance[1]
           model == parsed.model[1]
           g == [j \in 1..n |-> Growth(model, sizes[j])]
<1>1. GoodConfig(parsed) /\ ScalingOk(parsed) /\ costs \in Seq(Costs) /\ ScalingHolds(parsed, costs)
  BY DEF TestInv, ParsedInv, ScalingInv, ScalingPassed
<1>2. sizes \in Seq(Nat) /\ SizesOk(sizes) /\ t \in Nat
  BY <1>1 DEF GoodConfig, ScalingOk
<1>3. Len(costs) = n /\ \A j \in 1..(Len(costs) - 1) : Near(parsed, sizes[j], costs[j], sizes[j + 1], costs[j + 1])
  BY <1>1 DEF ScalingHolds
<1> HIDE DEF sizes, t
<1>4. n \in Nat /\ n >= 2 /\ n - 1 \in Nat /\ 1 \in 1..n /\ n \in 1..n
  BY <1>2 DEF SizesOk
<1>5. \A j \in 1..n : sizes[j] \in Nat /\ sizes[j] > 0
  BY <1>2 DEF SizesOk
<1>6. \A j \in 1..n : costs[j] \in Nat
  <2>1. \A j \in 1..n : costs[j] \in Costs
    BY <1>1, <1>3
  <2>2. \A c \in Costs : c \in Nat
    BY NumbersAssumption
  <2> QED
    BY <2>1, <2>2
<1> HIDE DEF n
<1>7. \A j \in 1..n : g[j] = Growth(model, sizes[j]) /\ g[j] \in Nat /\ g[j] > 0
  BY <1>5, GrowthIs
<1> HIDE DEF g
<1>8. ASSUME NEW j \in 1..(n - 1)
      PROVE  /\ costs[j] > 0
             /\ 100 * (costs[j + 1] * g[j]) <= (100 + t) * (costs[j] * g[j + 1])
             /\ Less(100, t) * (g[j + 1] * costs[j]) <= 100 * (g[j] * costs[j + 1])
  <2> DEFINE observed == costs[j + 1] * g[j]
             expected == costs[j] * g[j + 1]
  <2>1. j \in 1..n /\ j + 1 \in 1..n
    BY <1>4
  <2>2. Near(parsed, sizes[j], costs[j], sizes[j + 1], costs[j + 1])
    BY <1>3
  <2>3. g[j] = Growth(model, sizes[j]) /\ g[j + 1] = Growth(model, sizes[j + 1])
    BY <1>7, <2>1
  <2>4. /\ costs[j] > 0
        /\ 100 * (IF observed > expected THEN observed - expected ELSE expected - observed) <= t * expected
    BY <2>2, <2>3 DEF Near, t
  <2>5. /\ costs[j] \in Nat /\ costs[j + 1] \in Nat /\ g[j] \in Nat /\ g[j + 1] \in Nat
    BY <1>6, <1>7, <2>1
  <2>6. /\ observed \in Nat /\ observed = g[j] * costs[j + 1]
        /\ expected \in Nat /\ expected = g[j + 1] * costs[j]
    BY <2>5, Products
  <2> HIDE DEF observed, expected
  <2>7. /\ 100 * observed <= (100 + t) * expected
        /\ Less(100, t) * expected <= 100 * observed
    BY <1>2, <2>4, <2>6, NearIs, SMTT(30)
  <2> QED
    BY <2>4, <2>6, <2>7 DEF observed, expected
<1>9. 100 \in Nat /\ 100 + t \in Nat /\ Less(100, t) \in Nat
  BY <1>2 DEF Less
<1>10. PICK ph : Powers(100, ph, n - 1) /\ Power(100, n - 1) = ph[n - 1]
  BY <1>4, PowerIs
<1>11. PICK pu : Powers(100 + t, pu, n - 1) /\ Power(100 + t, n - 1) = pu[n - 1]
  BY <1>4, PowerIs
<1>12. PICK pl : Powers(Less(100, t), pl, n - 1) /\ Power(Less(100, t), n - 1) = pl[n - 1]
  BY <1>4, PowerIs
<1>13. n \in Nat \ {0}
  BY <1>4
<1>14. \A j \in 1..n : costs[j] \in Nat /\ g[j] \in Nat
  BY <1>6, <1>7
<1>15. \A j \in 1..(n - 1) : g[j] > 0
  BY <1>4, <1>7
<1>16. (costs[n] * g[1]) * ph[n - 1] <= (costs[1] * g[n]) * pu[n - 1]
  BY <1>8, <1>9, <1>10, <1>11, <1>13, <1>14, <1>15, Telescope
<1>17. (g[n] * costs[1]) * pl[n - 1] <= (g[1] * costs[n]) * ph[n - 1]
  BY <1>8, <1>9, <1>10, <1>12, <1>13, <1>14, Telescope
<1>18. /\ costs[n] * g[1] \in Nat /\ costs[1] * g[n] \in Nat
       /\ g[1] * costs[n] = costs[n] * g[1] /\ g[n] * costs[1] = costs[1] * g[n]
  BY <1>4, <1>14, Products
<1>19. g[1] = Growth(model, sizes[1]) /\ g[n] = Growth(model, sizes[n])
  BY <1>4, <1>7
<1>20. (costs[1] * g[n]) * pl[n - 1] <= (costs[n] * g[1]) * ph[n - 1]
  BY <1>17, <1>18
<1> QED
  BY <1>3, <1>4, <1>8, <1>10, <1>11, <1>12, <1>16, <1>19, <1>20 DEF n, t, sizes

(* A scaling test that passes has measured growth as its model says.       *)
THEOREM GrowthWasDeclared == TestSpec => []GrowthIsAsDeclared
<1> QED
  BY TestInvariance, GrowthBounds, PTL

----------------------------------------------------------------------------
(* The functions that trees are run and rewritten by exist.                *)

IsFirst(f, s, ev, n) ==
  f = [h \in 0..n |-> IF h = 0 THEN {Through} ELSE Onward(f[h - 1], ev[s[h]])]

LEMMA FirstExtend ==
  ASSUME NEW s, NEW ev, NEW n \in Nat, NEW f, IsFirst(f, s, ev, n)
  PROVE  \E g : IsFirst(g, s, ev, n + 1)
<1> DEFINE g == [h \in 0..(n + 1) |-> IF h <= n THEN f[h] ELSE Onward(f[n], ev[s[n + 1]])]
<1>1. \A h \in 0..n : g[h] = f[h]
  OBVIOUS
<1>2. ASSUME NEW h \in 0..(n + 1)
      PROVE  g[h] = IF h = 0 THEN {Through} ELSE Onward(g[h - 1], ev[s[h]])
  <2>1. CASE h <= n
    <3>1. h \in 0..n /\ (h # 0 => h - 1 \in 0..n)
      BY <2>1
    <3>2. f[h] = IF h = 0 THEN {Through} ELSE Onward(f[h - 1], ev[s[h]])
      BY <3>1, Zenon DEF IsFirst
    <3> HIDE DEF g
    <3> QED
      BY <1>1, <3>1, <3>2
  <2>2. CASE ~(h <= n)
    <3>1. h # 0 /\ h = n + 1 /\ h - 1 = n /\ g[h] = Onward(f[n], ev[s[n + 1]]) /\ g[n] = f[n]
      BY <2>2
    <3> HIDE DEF g
    <3> QED
      BY <3>1
  <2> QED
    BY <2>1, <2>2
<1>3. g = [h \in 0..(n + 1) |-> g[h]]
  OBVIOUS
<1> HIDE DEF g
<1>4. g = [h \in 0..(n + 1) |-> IF h = 0 THEN {Through} ELSE Onward(g[h - 1], ev[s[h]])]
  BY <1>2, <1>3, Zenon
<1> QED
  BY <1>4 DEF IsFirst

LEMMA FirstExist ==
  ASSUME NEW s, NEW ev, NEW n \in Nat
  PROVE  \E f : IsFirst(f, s, ev, n)
<1> DEFINE S == {m \in Nat : \E f : IsFirst(f, s, ev, m)}
<1>1. ASSUME NEW m \in Nat, \A k \in 0..(m - 1) : k \in S
      PROVE  m \in S
  <2>1. CASE m = 0
    <3> DEFINE g == [h \in 0..0 |-> {Through}]
    <3>1. \A h \in 0..0 : (IF h = 0 THEN {Through} ELSE Onward(g[h - 1], ev[s[h]])) = {Through}
      OBVIOUS
    <3>2. g = [h \in 0..0 |-> IF h = 0 THEN {Through} ELSE Onward(g[h - 1], ev[s[h]])]
      BY <3>1, Zenon
    <3> HIDE DEF g
    <3> QED
      BY <2>1, <3>2 DEF IsFirst
  <2>2. CASE m # 0
    <3>1. m - 1 \in Nat /\ m - 1 \in 0..(m - 1) /\ (m - 1) + 1 = m
      BY <2>2
    <3>2. PICK f : IsFirst(f, s, ev, m - 1)
      BY <1>1, <3>1
    <3>3. \E g : IsFirst(g, s, ev, (m - 1) + 1)
      BY <3>1, <3>2, FirstExtend
    <3> QED
      BY <3>1, <3>3
  <2> QED
    BY <2>1, <2>2
<1> HIDE DEF S
<1>2. Nat \subseteq S
  BY <1>1, SmallerFirst
<1> QED
  BY <1>2 DEF S

IsTrees(f, n) ==
  f = [h \in 0..n |-> IF h = 0 THEN Leaves ELSE Leaves \cup Over(Seq(f[h - 1]))]

LEMMA TreesExtend ==
  ASSUME NEW n \in Nat, NEW f, IsTrees(f, n)
  PROVE  \E g : IsTrees(g, n + 1)
<1> DEFINE g == [h \in 0..(n + 1) |-> IF h <= n THEN f[h] ELSE Leaves \cup Over(Seq(f[n]))]
<1>1. \A h \in 0..n : g[h] = f[h]
  OBVIOUS
<1>2. ASSUME NEW h \in 0..(n + 1)
      PROVE  g[h] = IF h = 0 THEN Leaves ELSE Leaves \cup Over(Seq(g[h - 1]))
  <2>1. CASE h <= n
    <3>1. h \in 0..n /\ (h # 0 => h - 1 \in 0..n)
      BY <2>1
    <3>2. f[h] = IF h = 0 THEN Leaves ELSE Leaves \cup Over(Seq(f[h - 1]))
      BY <3>1, Zenon DEF IsTrees
    <3> HIDE DEF g
    <3> QED
      BY <1>1, <3>1, <3>2
  <2>2. CASE ~(h <= n)
    <3>1. h # 0 /\ h = n + 1 /\ h - 1 = n /\ g[h] = Leaves \cup Over(Seq(f[n])) /\ g[n] = f[n]
      BY <2>2
    <3> HIDE DEF g
    <3> QED
      BY <3>1
  <2> QED
    BY <2>1, <2>2
<1>3. g = [h \in 0..(n + 1) |-> g[h]]
  OBVIOUS
<1> HIDE DEF g
<1>4. g = [h \in 0..(n + 1) |-> IF h = 0 THEN Leaves ELSE Leaves \cup Over(Seq(g[h - 1]))]
  BY <1>2, <1>3, Zenon
<1> QED
  BY <1>4 DEF IsTrees

LEMMA TreesExist ==
  ASSUME NEW n \in Nat
  PROVE  \E f : IsTrees(f, n)
<1> DEFINE S == {m \in Nat : \E f : IsTrees(f, m)}
<1>1. ASSUME NEW m \in Nat, \A k \in 0..(m - 1) : k \in S
      PROVE  m \in S
  <2>1. CASE m = 0
    <3> DEFINE g == [h \in 0..0 |-> Leaves]
    <3>1. \A h \in 0..0 : (IF h = 0 THEN Leaves ELSE Leaves \cup Over(Seq(g[h - 1]))) = Leaves
      OBVIOUS
    <3>2. g = [h \in 0..0 |-> IF h = 0 THEN Leaves ELSE Leaves \cup Over(Seq(g[h - 1]))]
      BY <3>1, Zenon
    <3> HIDE DEF g
    <3> QED
      BY <2>1, <3>2 DEF IsTrees
  <2>2. CASE m # 0
    <3>1. m - 1 \in Nat /\ m - 1 \in 0..(m - 1) /\ (m - 1) + 1 = m
      BY <2>2
    <3>2. PICK f : IsTrees(f, m - 1)
      BY <1>1, <3>1
    <3>3. \E g : IsTrees(g, (m - 1) + 1)
      BY <3>1, <3>2, TreesExtend
    <3> QED
      BY <3>1, <3>3
  <2> QED
    BY <2>1, <2>2
<1> HIDE DEF S
<1>2. Nat \subseteq S
  BY <1>1, SmallerFirst
<1> QED
  BY <1>2 DEF S

IsRuns(f, n) ==
  f = [h \in 0..n |-> IF h = 0 THEN [e \in Leaves |-> RunsOf(e, <<>>)]
                      ELSE [e \in Trees[h] |-> RunsOf(e, f[h - 1])]]

LEMMA RunsExtend ==
  ASSUME NEW n \in Nat, NEW f, IsRuns(f, n)
  PROVE  \E g : IsRuns(g, n + 1)
<1> DEFINE g == [h \in 0..(n + 1) |-> IF h <= n THEN f[h]
                                      ELSE [e \in Trees[n + 1] |-> RunsOf(e, f[n])]]
<1>1. \A h \in 0..n : g[h] = f[h]
  OBVIOUS
<1>2. ASSUME NEW h \in 0..(n + 1)
      PROVE  g[h] = IF h = 0 THEN [e \in Leaves |-> RunsOf(e, <<>>)]
                    ELSE [e \in Trees[h] |-> RunsOf(e, g[h - 1])]
  <2>1. CASE h <= n
    <3>1. h \in 0..n /\ (h # 0 => h - 1 \in 0..n)
      BY <2>1
    <3>2. f[h] = IF h = 0 THEN [e \in Leaves |-> RunsOf(e, <<>>)]
                 ELSE [e \in Trees[h] |-> RunsOf(e, f[h - 1])]
      BY <3>1, Zenon DEF IsRuns
    <3> HIDE DEF g
    <3> QED
      BY <1>1, <3>1, <3>2
  <2>2. CASE ~(h <= n)
    <3>1. h # 0 /\ h = n + 1 /\ h - 1 = n
          /\ g[h] = [e \in Trees[n + 1] |-> RunsOf(e, f[n])] /\ g[n] = f[n]
      BY <2>2
    <3> HIDE DEF g
    <3> QED
      BY <3>1
  <2> QED
    BY <2>1, <2>2
<1>3. g = [h \in 0..(n + 1) |-> g[h]]
  OBVIOUS
<1> HIDE DEF g
<1>4. g = [h \in 0..(n + 1) |-> IF h = 0 THEN [e \in Leaves |-> RunsOf(e, <<>>)]
                                ELSE [e \in Trees[h] |-> RunsOf(e, g[h - 1])]]
  BY <1>2, <1>3, Zenon
<1> QED
  BY <1>4 DEF IsRuns

LEMMA RunsExist ==
  ASSUME NEW n \in Nat
  PROVE  \E f : IsRuns(f, n)
<1> DEFINE S == {m \in Nat : \E f : IsRuns(f, m)}
<1>1. ASSUME NEW m \in Nat, \A k \in 0..(m - 1) : k \in S
      PROVE  m \in S
  <2>1. CASE m = 0
    <3> DEFINE g == [h \in 0..0 |-> [e \in Leaves |-> RunsOf(e, <<>>)]]
    <3>1. \A h \in 0..0 : (IF h = 0 THEN [e \in Leaves |-> RunsOf(e, <<>>)]
                           ELSE [e \in Trees[h] |-> RunsOf(e, g[h - 1])]) = [e \in Leaves |-> RunsOf(e, <<>>)]
      OBVIOUS
    <3>2. g = [h \in 0..0 |-> IF h = 0 THEN [e \in Leaves |-> RunsOf(e, <<>>)]
                              ELSE [e \in Trees[h] |-> RunsOf(e, g[h - 1])]]
      BY <3>1, Zenon
    <3> HIDE DEF g
    <3> QED
      BY <2>1, <3>2 DEF IsRuns
  <2>2. CASE m # 0
    <3>1. m - 1 \in Nat /\ m - 1 \in 0..(m - 1) /\ (m - 1) + 1 = m
      BY <2>2
    <3>2. PICK f : IsRuns(f, m - 1)
      BY <1>1, <3>1
    <3>3. \E g : IsRuns(g, (m - 1) + 1)
      BY <3>1, <3>2, RunsExtend
    <3> QED
      BY <3>1, <3>3
  <2> QED
    BY <2>1, <2>2
<1> HIDE DEF S
<1>2. Nat \subseteq S
  BY <1>1, SmallerFirst
<1> QED
  BY <1>2 DEF S

IsRewrites(f, n) ==
  f = [h \in 0..n |-> IF h = 0 THEN [e \in Leaves |-> e]
                      ELSE [e \in Trees[h] |-> RewriteOf(e, f[h - 1])]]

LEMMA RewritesExtend ==
  ASSUME NEW n \in Nat, NEW f, IsRewrites(f, n)
  PROVE  \E g : IsRewrites(g, n + 1)
<1> DEFINE g == [h \in 0..(n + 1) |-> IF h <= n THEN f[h]
                                      ELSE [e \in Trees[n + 1] |-> RewriteOf(e, f[n])]]
<1>1. \A h \in 0..n : g[h] = f[h]
  OBVIOUS
<1>2. ASSUME NEW h \in 0..(n + 1)
      PROVE  g[h] = IF h = 0 THEN [e \in Leaves |-> e]
                    ELSE [e \in Trees[h] |-> RewriteOf(e, g[h - 1])]
  <2>1. CASE h <= n
    <3>1. h \in 0..n /\ (h # 0 => h - 1 \in 0..n)
      BY <2>1
    <3>2. f[h] = IF h = 0 THEN [e \in Leaves |-> e] ELSE [e \in Trees[h] |-> RewriteOf(e, f[h - 1])]
      BY <3>1, Zenon DEF IsRewrites
    <3> HIDE DEF g
    <3> QED
      BY <1>1, <3>1, <3>2
  <2>2. CASE ~(h <= n)
    <3>1. h # 0 /\ h = n + 1 /\ h - 1 = n
          /\ g[h] = [e \in Trees[n + 1] |-> RewriteOf(e, f[n])] /\ g[n] = f[n]
      BY <2>2
    <3> HIDE DEF g
    <3> QED
      BY <3>1
  <2> QED
    BY <2>1, <2>2
<1>3. g = [h \in 0..(n + 1) |-> g[h]]
  OBVIOUS
<1> HIDE DEF g
<1>4. g = [h \in 0..(n + 1) |-> IF h = 0 THEN [e \in Leaves |-> e]
                                ELSE [e \in Trees[h] |-> RewriteOf(e, g[h - 1])]]
  BY <1>2, <1>3, Zenon
<1> QED
  BY <1>4 DEF IsRewrites

LEMMA RewritesExist ==
  ASSUME NEW n \in Nat
  PROVE  \E f : IsRewrites(f, n)
<1> DEFINE S == {m \in Nat : \E f : IsRewrites(f, m)}
<1>1. ASSUME NEW m \in Nat, \A k \in 0..(m - 1) : k \in S
      PROVE  m \in S
  <2>1. CASE m = 0
    <3> DEFINE g == [h \in 0..0 |-> [e \in Leaves |-> e]]
    <3>1. \A h \in 0..0 : (IF h = 0 THEN [e \in Leaves |-> e]
                           ELSE [e \in Trees[h] |-> RewriteOf(e, g[h - 1])]) = [e \in Leaves |-> e]
      OBVIOUS
    <3>2. g = [h \in 0..0 |-> IF h = 0 THEN [e \in Leaves |-> e]
                              ELSE [e \in Trees[h] |-> RewriteOf(e, g[h - 1])]]
      BY <3>1, Zenon
    <3> HIDE DEF g
    <3> QED
      BY <2>1, <3>2 DEF IsRewrites
  <2>2. CASE m # 0
    <3>1. m - 1 \in Nat /\ m - 1 \in 0..(m - 1) /\ (m - 1) + 1 = m
      BY <2>2
    <3>2. PICK f : IsRewrites(f, m - 1)
      BY <1>1, <3>1
    <3>3. \E g : IsRewrites(g, (m - 1) + 1)
      BY <3>1, <3>2, RewritesExtend
    <3> QED
      BY <3>1, <3>3
  <2> QED
    BY <2>1, <2>2
<1> HIDE DEF S
<1>2. Nat \subseteq S
  BY <1>1, SmallerFirst
<1> QED
  BY <1>2 DEF S

IsParts(f, o, n) ==
  f = [h \in 0..n |-> IF h = 0 THEN [e \in Leaves |-> {e}]
                      ELSE [e \in Trees[h] |-> PartsOf(e, o, f[h - 1])]]

LEMMA PartsExtend ==
  ASSUME NEW o, NEW n \in Nat, NEW f, IsParts(f, o, n)
  PROVE  \E g : IsParts(g, o, n + 1)
<1> DEFINE g == [h \in 0..(n + 1) |-> IF h <= n THEN f[h]
                                      ELSE [e \in Trees[n + 1] |-> PartsOf(e, o, f[n])]]
<1>1. \A h \in 0..n : g[h] = f[h]
  OBVIOUS
<1>2. ASSUME NEW h \in 0..(n + 1)
      PROVE  g[h] = IF h = 0 THEN [e \in Leaves |-> {e}]
                    ELSE [e \in Trees[h] |-> PartsOf(e, o, g[h - 1])]
  <2>1. CASE h <= n
    <3>1. h \in 0..n /\ (h # 0 => h - 1 \in 0..n)
      BY <2>1
    <3>2. f[h] = IF h = 0 THEN [e \in Leaves |-> {e}]
                 ELSE [e \in Trees[h] |-> PartsOf(e, o, f[h - 1])]
      BY <3>1, Zenon DEF IsParts
    <3> HIDE DEF g
    <3> QED
      BY <1>1, <3>1, <3>2
  <2>2. CASE ~(h <= n)
    <3>1. h # 0 /\ h = n + 1 /\ h - 1 = n
          /\ g[h] = [e \in Trees[n + 1] |-> PartsOf(e, o, f[n])] /\ g[n] = f[n]
      BY <2>2
    <3> HIDE DEF g
    <3> QED
      BY <3>1
  <2> QED
    BY <2>1, <2>2
<1>3. g = [h \in 0..(n + 1) |-> g[h]]
  OBVIOUS
<1> HIDE DEF g
<1>4. g = [h \in 0..(n + 1) |-> IF h = 0 THEN [e \in Leaves |-> {e}]
                                ELSE [e \in Trees[h] |-> PartsOf(e, o, g[h - 1])]]
  BY <1>2, <1>3, Zenon
<1> QED
  BY <1>4 DEF IsParts

LEMMA PartsExist ==
  ASSUME NEW o, NEW n \in Nat
  PROVE  \E f : IsParts(f, o, n)
<1> DEFINE S == {m \in Nat : \E f : IsParts(f, o, m)}
<1>1. ASSUME NEW m \in Nat, \A k \in 0..(m - 1) : k \in S
      PROVE  m \in S
  <2>1. CASE m = 0
    <3> DEFINE g == [h \in 0..0 |-> [e \in Leaves |-> {e}]]
    <3>1. \A h \in 0..0 : (IF h = 0 THEN [e \in Leaves |-> {e}]
                           ELSE [e \in Trees[h] |-> PartsOf(e, o, g[h - 1])]) = [e \in Leaves |-> {e}]
      OBVIOUS
    <3>2. g = [h \in 0..0 |-> IF h = 0 THEN [e \in Leaves |-> {e}]
                              ELSE [e \in Trees[h] |-> PartsOf(e, o, g[h - 1])]]
      BY <3>1, Zenon
    <3> HIDE DEF g
    <3> QED
      BY <2>1, <3>2 DEF IsParts
  <2>2. CASE m # 0
    <3>1. m - 1 \in Nat /\ m - 1 \in 0..(m - 1) /\ (m - 1) + 1 = m
      BY <2>2
    <3>2. PICK f : IsParts(f, o, m - 1)
      BY <1>1, <3>1
    <3>3. \E g : IsParts(g, o, (m - 1) + 1)
      BY <3>1, <3>2, PartsExtend
    <3> QED
      BY <3>1, <3>3
  <2> QED
    BY <2>1, <2>2
<1> HIDE DEF S
<1>2. Nat \subseteq S
  BY <1>1, SmallerFirst
<1> QED
  BY <1>2 DEF S

LEMMA Heights == Height \in Nat /\ Height >= 2
BY HeightAssumption

LEMMA TreesAre ==
  /\ Trees[0] = Leaves
  /\ \A h \in 1..Height : Trees[h] = Leaves \cup Over(Seq(Trees[h - 1]))
<1>1. \E f : f = [h \in 0..Height |-> IF h = 0 THEN Leaves ELSE Leaves \cup Over(Seq(f[h - 1]))]
  BY Heights, TreesExist DEF IsTrees
<1>2. Trees = [h \in 0..Height |-> IF h = 0 THEN Leaves ELSE Leaves \cup Over(Seq(Trees[h - 1]))]
  BY <1>1, Zenon DEF Trees
<1>3. \A h \in 0..Height : Trees[h] = IF h = 0 THEN Leaves ELSE Leaves \cup Over(Seq(Trees[h - 1]))
  BY <1>2, Zenon
<1>4. ASSUME NEW h \in 1..Height
      PROVE  Trees[h] = Leaves \cup Over(Seq(Trees[h - 1]))
  <2>1. h \in 0..Height /\ h # 0
    OBVIOUS
  <2> QED
    BY <1>3, <2>1, Zenon
<1>5. Trees[0] = Leaves
  <2>1. 0 \in 0..Height
    BY Heights
  <2> QED
    BY <1>3, <2>1, Zenon
<1> QED
  BY <1>4, <1>5, Zenon

LEMMA RunsAre ==
  /\ \A e \in Leaves : Runs[0][e] = RunsOf(e, <<>>)
  /\ \A h \in 1..Height : \A e \in Trees[h] : Runs[h][e] = RunsOf(e, Runs[h - 1])
<1>1. \E f : f = [h \in 0..Height |-> IF h = 0 THEN [e \in Leaves |-> RunsOf(e, <<>>)]
                                      ELSE [e \in Trees[h] |-> RunsOf(e, f[h - 1])]]
  BY Heights, RunsExist DEF IsRuns
<1>2. Runs = [h \in 0..Height |-> IF h = 0 THEN [e \in Leaves |-> RunsOf(e, <<>>)]
                                  ELSE [e \in Trees[h] |-> RunsOf(e, Runs[h - 1])]]
  BY <1>1, Zenon DEF Runs
<1>3. \A h \in 0..Height : Runs[h] = IF h = 0 THEN [e \in Leaves |-> RunsOf(e, <<>>)]
                                     ELSE [e \in Trees[h] |-> RunsOf(e, Runs[h - 1])]
  BY <1>2, Zenon
<1>4. ASSUME NEW h \in 1..Height
      PROVE  Runs[h] = [e \in Trees[h] |-> RunsOf(e, Runs[h - 1])]
  <2>1. h \in 0..Height /\ h # 0
    OBVIOUS
  <2> QED
    BY <1>3, <2>1, Zenon
<1>5. Runs[0] = [e \in Leaves |-> RunsOf(e, <<>>)]
  <2>1. 0 \in 0..Height
    BY Heights
  <2> QED
    BY <1>3, <2>1, Zenon
<1> QED
  BY <1>4, <1>5, Zenon

LEMMA RewritesAre ==
  /\ \A e \in Leaves : Rewrites[0][e] = e
  /\ \A h \in 1..Height : \A e \in Trees[h] : Rewrites[h][e] = RewriteOf(e, Rewrites[h - 1])
<1>1. \E f : f = [h \in 0..Height |-> IF h = 0 THEN [e \in Leaves |-> e]
                                      ELSE [e \in Trees[h] |-> RewriteOf(e, f[h - 1])]]
  BY Heights, RewritesExist DEF IsRewrites
<1>2. Rewrites = [h \in 0..Height |-> IF h = 0 THEN [e \in Leaves |-> e]
                                      ELSE [e \in Trees[h] |-> RewriteOf(e, Rewrites[h - 1])]]
  BY <1>1, Zenon DEF Rewrites
<1>3. \A h \in 0..Height : Rewrites[h] = IF h = 0 THEN [e \in Leaves |-> e]
                                         ELSE [e \in Trees[h] |-> RewriteOf(e, Rewrites[h - 1])]
  BY <1>2, Zenon
<1>4. ASSUME NEW h \in 1..Height
      PROVE  Rewrites[h] = [e \in Trees[h] |-> RewriteOf(e, Rewrites[h - 1])]
  <2>1. h \in 0..Height /\ h # 0
    OBVIOUS
  <2> QED
    BY <1>3, <2>1, Zenon
<1>5. Rewrites[0] = [e \in Leaves |-> e]
  <2>1. 0 \in 0..Height
    BY Heights
  <2> QED
    BY <1>3, <2>1, Zenon
<1> QED
  BY <1>4, <1>5, ZenonT(30)

\* The parts of each tree of each height.
AllParts(o) ==
  CHOOSE parts : parts = [h \in 0..Height |-> IF h = 0 THEN [e \in Leaves |-> {e}]
                                              ELSE [e \in Trees[h] |-> PartsOf(e, o, parts[h - 1])]]

LEMMA PartsAre ==
  ASSUME NEW o
  PROVE  /\ \A stmts : Parts(stmts, o) = UNION {AllParts(o)[Height][stmts[j]] : j \in DOMAIN stmts}
         /\ \A e \in Leaves : AllParts(o)[0][e] = {e}
         /\ \A h \in 1..Height : \A e \in Trees[h] : AllParts(o)[h][e] = PartsOf(e, o, AllParts(o)[h - 1])
<1> DEFINE p == AllParts(o)
<1>1. \E f : f = [h \in 0..Height |-> IF h = 0 THEN [e \in Leaves |-> {e}]
                                      ELSE [e \in Trees[h] |-> PartsOf(e, o, f[h - 1])]]
  <2>1. \E f : IsParts(f, o, Height)
    BY Heights, PartsExist
  <2> QED
    BY <2>1, Zenon DEF IsParts
<1>2. p = [h \in 0..Height |-> IF h = 0 THEN [e \in Leaves |-> {e}]
                               ELSE [e \in Trees[h] |-> PartsOf(e, o, p[h - 1])]]
  BY <1>1, Zenon DEF AllParts
<1>3. \A h \in 0..Height : p[h] = IF h = 0 THEN [e \in Leaves |-> {e}]
                                  ELSE [e \in Trees[h] |-> PartsOf(e, o, p[h - 1])]
  BY <1>2, Zenon
<1>4. \A stmts : Parts(stmts, o) = UNION {p[Height][stmts[j]] : j \in DOMAIN stmts}
  BY Zenon DEF Parts, AllParts
<1> HIDE DEF p
<1>5. ASSUME NEW h \in 1..Height
      PROVE  p[h] = [e \in Trees[h] |-> PartsOf(e, o, p[h - 1])]
  <2>1. h \in 0..Height /\ h # 0
    OBVIOUS
  <2> QED
    BY <1>3, <2>1, Zenon
<1>6. p[0] = [e \in Leaves |-> {e}]
  <2>1. 0 \in 0..Height
    BY Heights
  <2> QED
    BY <1>3, <2>1, Zenon
<1>7. (\A e \in Leaves : p[0][e] = {e})
      /\ \A h \in 1..Height : \A e \in Trees[h] : p[h][e] = PartsOf(e, o, p[h - 1])
  BY <1>5, <1>6, Zenon
<1> QED
  BY <1>4, <1>7 DEF p

\* f holds the ways through the first statements of s, up to the n-th.
Steps(f, s, ev, n) ==
  f[0] = {Through} /\ \A j \in 1..n : f[j] = Onward(f[j - 1], ev[s[j]])

LEMMA InOrderIs ==
  ASSUME NEW s, NEW ev, Len(s) \in Nat
  PROVE  \E f : Steps(f, s, ev, Len(s)) /\ InOrder(s, ev) = f[Len(s)]
<1> DEFINE n == Len(s)
           f == CHOOSE g : g = [j \in 0..n |-> IF j = 0 THEN {Through}
                                               ELSE Onward(g[j - 1], ev[s[j]])]
<1>1. \E g : g = [j \in 0..n |-> IF j = 0 THEN {Through} ELSE Onward(g[j - 1], ev[s[j]])]
  <2>1. \E g : IsFirst(g, s, ev, n)
    BY FirstExist
  <2> QED
    BY <2>1, Zenon DEF IsFirst
<1>2. f = [j \in 0..n |-> IF j = 0 THEN {Through} ELSE Onward(f[j - 1], ev[s[j]])]
  BY <1>1, Zenon
<1>3. InOrder(s, ev) = f[n]
  BY DEF InOrder
<1> HIDE DEF f
<1>4. \A j \in 0..n : f[j] = IF j = 0 THEN {Through} ELSE Onward(f[j - 1], ev[s[j]])
  BY <1>2, Zenon
<1>5. Steps(f, s, ev, n)
  <2>1. f[0] = {Through}
    <3>1. 0 \in 0..n
      OBVIOUS
    <3> QED
      BY <1>4, <3>1, Zenon
  <2>2. ASSUME NEW j \in 1..n
        PROVE  f[j] = Onward(f[j - 1], ev[s[j]])
    <3>1. j \in 0..n /\ j # 0
      OBVIOUS
    <3> QED
      BY <1>4, <3>1, Zenon
  <2> QED
    BY <2>1, <2>2 DEF Steps
<1> QED
  BY <1>3, <1>5

----------------------------------------------------------------------------
(* Trees and what they are made of.                                        *)

Plain == {"return", "try", "loop", "block", "inner", "closure"}

LEMMA TreeKinds ==
  ASSUME NEW h \in 1..Height, NEW e \in Trees[h]
  PROVE  \/ e \in Leaves
         \/ e.k \in Plain /\ e.e \in Seq(Trees[h - 1]) /\ e = [k |-> e.k, e |-> e.e]
         \/ e.k = "if" /\ e.a \in Seq(Trees[h - 1]) /\ e.b \in Seq(Trees[h - 1])
         \/ e.k = "macro" /\ e.e \in Seq(Trees[h - 1]) /\ e.written \in BOOLEAN
<1>1. e \in Leaves \/ e \in Over(Seq(Trees[h - 1]))
  BY TreesAre
<1> DEFINE L == Seq(Trees[h - 1])
<1> HIDE DEF L
<1>2. ASSUME e \in Over(L)
      PROVE  \/ e.k \in Plain /\ e.e \in L /\ e = [k |-> e.k, e |-> e.e]
             \/ e.k = "if" /\ e.a \in L /\ e.b \in L
             \/ e.k = "macro" /\ e.e \in L /\ e.written \in BOOLEAN
  BY <1>2 DEF Over, Plain
<1> QED
  BY <1>1, <1>2 DEF L

LEMMA LeavesAreTrees ==
  ASSUME NEW h \in 0..Height
  PROVE  Leaves \subseteq Trees[h]
BY TreesAre, Heights

LEMMA TreesMade ==
  ASSUME NEW h \in 1..Height, NEW s \in Seq(Trees[h - 1])
  PROVE  /\ \A x \in Plain : [k |-> x, e |-> s] \in Trees[h]
         /\ \A t \in Seq(Trees[h - 1]) : If(s, t) \in Trees[h]
         /\ \A w \in BOOLEAN : Macro(s, w) \in Trees[h]
<1> DEFINE L == Seq(Trees[h - 1])
<1>1. Over(L) \subseteq Trees[h]
  BY TreesAre
<1> HIDE DEF L
<1>2. \A t \in L : /\ \A x \in Plain : [k |-> x, e |-> t] \in Over(L)
                  /\ \A u \in L : If(t, u) \in Over(L)
                  /\ \A w \in BOOLEAN : Macro(t, w) \in Over(L)
  BY DEF Over, Plain, If, Macro
<1> QED
  BY <1>1, <1>2 DEF L

LEMMA TreesRise ==
  ASSUME NEW h \in 1..Height
  PROVE  Trees[h - 1] \subseteq Trees[h]
<1> DEFINE S == {n \in Nat : n \in 1..Height => Trees[n - 1] \subseteq Trees[n]}
<1>1. ASSUME NEW n \in Nat, \A m \in 0..(n - 1) : m \in S
      PROVE  n \in S
  <2> SUFFICES ASSUME n \in 1..Height PROVE Trees[n - 1] \subseteq Trees[n]
    OBVIOUS
  <2>1. CASE n = 1
    BY <2>1, TreesAre
  <2>2. CASE n # 1
    <3>1. n - 1 \in 0..(n - 1) /\ n - 1 \in 1..Height /\ (n - 1) - 1 = n - 2
      BY <2>2, Heights
    <3>2. Trees[n - 2] \subseteq Trees[n - 1]
      BY <1>1, <3>1
    <3>3. Trees[n - 1] = Leaves \cup Over(Seq(Trees[n - 2])) /\ Trees[n] = Leaves \cup Over(Seq(Trees[n - 1]))
      BY <3>1, TreesAre
    <3>4. Seq(Trees[n - 2]) \subseteq Seq(Trees[n - 1])
      BY <3>2, SeqMonotonic
    <3>5. \A L, M : L \subseteq M => Over(L) \subseteq Over(M)
      BY DEF Over
    <3> QED
      BY <3>3, <3>4, <3>5
  <2> QED
    BY <2>1, <2>2
<1> HIDE DEF S
<1>2. Nat \subseteq S
  BY <1>1, SmallerFirst
<1> QED
  BY <1>2, Heights DEF S

----------------------------------------------------------------------------
(* Statements in their order.                                              *)

Outs == {"value", "return", "error", "hidden"}
Ways == [trace : Seq({"work", "assert"}), out : Outs]

LEMMA WaysMade ==
  ASSUME NEW r \in Ways
  PROVE  /\ r = Way(r.trace, r.out) /\ r.trace \in Seq({"work", "assert"}) /\ r.out \in Outs
         /\ \A o \in Outs : Way(r.trace, o) \in Ways
         /\ \A s \in Ways : \A o \in Outs : Way(r.trace \o s.trace, o) \in Ways
<1>1. r = Way(r.trace, r.out) /\ r.trace \in Seq({"work", "assert"}) /\ r.out \in Outs
  BY DEF Ways, Way
<1>2. \A o \in Outs : Way(r.trace, o) \in Ways
  BY <1>1 DEF Ways, Way
<1>3. ASSUME NEW s \in Ways, NEW o \in Outs
      PROVE  Way(r.trace \o s.trace, o) \in Ways
  <2>1. s.trace \in Seq({"work", "assert"})
    BY DEF Ways
  <2>2. r.trace \o s.trace \in Seq({"work", "assert"})
    BY <1>1, <2>1, ConcatProperties
  <2> QED
    BY <2>2 DEF Ways, Way
<1> QED
  BY <1>1, <1>2, <1>3

LEMMA WaysAre ==
  ASSUME NEW x, NEW y
  PROVE  Way(x, y).trace = x /\ Way(x, y).out = y
BY DEF Way

LEMMA ThroughIsWay == Through \in Ways /\ Through.out = "value" /\ Through.trace = <<>>
<1>1. <<>> \in Seq({"work", "assert"})
  BY EmptySeq
<1> QED
  BY <1>1 DEF Through, Way, Ways, Outs

LEMMA AfterIsWays ==
  ASSUME NEW r \in Ways, NEW S \in SUBSET Ways
  PROVE  After(r, S) \subseteq Ways
<1>1. ASSUME NEW s \in S
      PROVE  Way(r.trace \o s.trace, s.out) \in Ways
  BY WaysMade
<1> QED
  BY <1>1 DEF After

LEMMA WalksWithin ==
  ASSUME NEW W, Through \in W, \A r \in W : \A S \in SUBSET W : After(r, S) \subseteq W,
         NEW s, Len(s) \in Nat, NEW ev, \A j \in 1..Len(s) : ev[s[j]] \subseteq W
  PROVE  InOrder(s, ev) \subseteq W
<1>1. PICK f : Steps(f, s, ev, Len(s)) /\ InOrder(s, ev) = f[Len(s)]
  BY InOrderIs
<1> DEFINE S == {j \in Nat : j <= Len(s) => f[j] \subseteq W}
<1>2. ASSUME NEW j \in Nat, \A k \in 0..(j - 1) : k \in S
      PROVE  j \in S
  <2> SUFFICES ASSUME j <= Len(s) PROVE f[j] \subseteq W
    OBVIOUS
  <2>1. CASE j = 0
    BY <1>1, <2>1 DEF Steps
  <2>2. CASE j # 0
    <3>1. j \in 1..Len(s) /\ j - 1 \in 0..(j - 1) /\ j - 1 <= Len(s)
      BY <2>2
    <3>2. f[j - 1] \subseteq W
      BY <1>2, <3>1
    <3>3. f[j] = Onward(f[j - 1], ev[s[j]])
      BY <1>1, <3>1 DEF Steps
    <3>4. \A r \in f[j - 1] : After(r, ev[s[j]]) \subseteq W
      BY <3>1, <3>2
    <3> QED
      BY <3>3, <3>4 DEF Onward
  <2> QED
    BY <2>1, <2>2
<1> HIDE DEF S
<1>3. Nat \subseteq S
  BY <1>2, SmallerFirst
<1>4. Len(s) \in S
  BY <1>3
<1> QED
  BY <1>1, <1>4 DEF S

LEMMA WalksAreWays ==
  ASSUME NEW s, Len(s) \in Nat, NEW ev, \A j \in 1..Len(s) : ev[s[j]] \subseteq Ways
  PROVE  InOrder(s, ev) \subseteq Ways
BY WalksWithin, AfterIsWays, ThroughIsWay

Alike(s, ev, t, ew, n) == \A j \in 1..n : ev[s[j]] = ew[t[j]]

(* Two walks whose steps agree go the same way.                            *)
LEMMA StepsAgree ==
  ASSUME NEW s, NEW t, NEW ev, NEW ew, NEW n \in Nat, NEW f, NEW g, Steps(f, s, ev, n), Steps(g, t, ew, n),
         Alike(s, ev, t, ew, n)
  PROVE  f[n] = g[n]
<1> DEFINE S == {j \in Nat : j <= n => f[j] = g[j]}
<1>1. ASSUME NEW j \in Nat, \A k \in 0..(j - 1) : k \in S
      PROVE  j \in S
  <2> SUFFICES ASSUME j <= n PROVE f[j] = g[j]
    OBVIOUS
  <2>1. CASE j = 0
    BY <2>1 DEF Steps
  <2>2. CASE j # 0
    <3>1. j \in 1..n /\ j - 1 \in 0..(j - 1) /\ j - 1 <= n
      BY <2>2
    <3>2. f[j - 1] = g[j - 1]
      BY <1>1, <3>1
    <3>3. /\ f[j] = Onward(f[j - 1], ev[s[j]])
          /\ g[j] = Onward(g[j - 1], ew[t[j]])
      BY <3>1 DEF Steps
    <3>4. ev[s[j]] = ew[t[j]]
      BY <3>1 DEF Alike
    <3> QED
      BY <3>2, <3>3, <3>4, Zenon
  <2> QED
    BY <2>1, <2>2
<1> HIDE DEF S
<1>2. Nat \subseteq S
  BY <1>1, SmallerFirst
<1>3. n \in S
  BY <1>2
<1> QED
  BY <1>3 DEF S

(* One more statement at the end.                                          *)
LEMMA InOrderAppend ==
  ASSUME NEW T, NEW s \in Seq(T), NEW x \in T, NEW ev
  PROVE  InOrder(Append(s, x), ev) = Onward(InOrder(s, ev), ev[x])
<1> DEFINE n == Len(s)
           t == Append(s, x)
<1>1. n \in Nat /\ Len(t) = n + 1 /\ t[n + 1] = x /\ \A j \in 1..n : t[j] = s[j]
  BY SMT
<1> HIDE DEF n, t
<1>2. PICK f : Steps(f, s, ev, n) /\ InOrder(s, ev) = f[n]
  BY <1>1, InOrderIs DEF n
<1>3. PICK g : Steps(g, t, ev, n + 1) /\ InOrder(t, ev) = g[n + 1]
  BY <1>1, InOrderIs
<1>4. Steps(g, t, ev, n)
  BY <1>1, <1>3 DEF Steps
<1>5. f[n] = g[n]
  <2>1. Alike(s, ev, t, ev, n)
    BY <1>1 DEF Alike
  <2>2. n \in Nat /\ Steps(f, s, ev, n) /\ Steps(g, t, ev, n)
    BY <1>1, <1>2, <1>4
  <2> QED
    BY <2>1, <2>2, StepsAgree
<1>6. n + 1 \in 1..(n + 1) /\ (n + 1) - 1 = n
  BY <1>1
<1>7. g[n + 1] = Onward(g[n], ev[t[n + 1]])
  BY <1>3, <1>6 DEF Steps
<1>8. InOrder(t, ev) = Onward(InOrder(s, ev), ev[x])
  BY <1>1, <1>2, <1>3, <1>5, <1>7
<1> QED
  BY <1>8 DEF t

LEMMA InOrderOne ==
  ASSUME NEW T, NEW s \in Seq(T), NEW x \in T, NEW ev
  PROVE  InOrder(s \o <<x>>, ev) = Onward(InOrder(s, ev), ev[x])
<1>1. s \o <<x>> = Append(s, x)
  BY SMT
<1> QED
  BY <1>1, InOrderAppend

LEMMA InOrderTwo ==
  ASSUME NEW T, NEW s \in Seq(T), NEW x \in T, NEW y \in T, NEW ev
  PROVE  InOrder(s \o <<x, y>>, ev) = Onward(Onward(InOrder(s, ev), ev[x]), ev[y])
<1>1. s \o <<x, y>> = Append(Append(s, x), y) /\ Append(s, x) \in Seq(T)
  BY SMT
<1>2. InOrder(Append(s, x), ev) = Onward(InOrder(s, ev), ev[x])
  BY InOrderAppend
<1>3. InOrder(Append(Append(s, x), y), ev) = Onward(InOrder(Append(s, x), ev), ev[y])
  BY <1>1, InOrderAppend
<1> QED
  BY <1>1, <1>2, <1>3

(* A statement that does nothing, in front.                                *)
LEMMA InOrderIdle ==
  ASSUME NEW T, NEW s \in Seq(T), NEW x \in T, NEW ev, ev[x] = {Through}
  PROVE  InOrder(<<x>> \o s, ev) = InOrder(s, ev)
<1> DEFINE n == Len(s)
           t == <<x>> \o s
<1>1. n \in Nat /\ Len(t) = n + 1 /\ t[1] = x /\ \A j \in 1..n : t[j + 1] = s[j]
  BY SMT
<1> HIDE DEF n, t
<1>2. PICK f : Steps(f, s, ev, n) /\ InOrder(s, ev) = f[n]
  BY <1>1, InOrderIs DEF n
<1>3. PICK g : Steps(g, t, ev, n + 1) /\ InOrder(t, ev) = g[n + 1]
  BY <1>1, InOrderIs
<1> DEFINE S == {j \in Nat : j <= n => g[j + 1] = f[j]}
<1>4. ASSUME NEW j \in Nat, \A k \in 0..(j - 1) : k \in S
      PROVE  j \in S
  <2> SUFFICES ASSUME j <= n PROVE g[j + 1] = f[j]
    OBVIOUS
  <2>1. CASE j = 0
    <3>1. 1 \in 1..(n + 1) /\ 1 - 1 = 0
      BY <1>1
    <3>2. g[1] = Onward(g[0], ev[t[1]]) /\ g[0] = {Through} /\ f[0] = {Through}
      BY <1>2, <1>3, <3>1 DEF Steps
    <3>3. Onward({Through}, {Through}) = {Through}
      <4>1. Through.trace \o Through.trace = <<>>
        BY ThroughIsWay, EmptySeq, ConcatEmptySeq
      <4>2. Through = Way(<<>>, "value")
        BY DEF Through
      <4>3. After(Through, {Through}) = {Way(Through.trace \o Through.trace, Through.out)}
        BY ThroughIsWay DEF After
      <4>4. After(Through, {Through}) = {Through}
        BY <4>1, <4>2, <4>3, ThroughIsWay
      <4> QED
        BY <4>4 DEF Onward
    <3>4. g[1] = f[0]
      BY <1>1, <3>2, <3>3
    <3> QED
      BY <2>1, <3>4
  <2>2. CASE j # 0
    <3>1. /\ j \in 1..n /\ j - 1 \in 0..(j - 1) /\ j - 1 <= n
          /\ j + 1 \in 1..(n + 1) /\ (j + 1) - 1 = j /\ (j - 1) + 1 = j
      BY <1>1, <2>2
    <3>2. g[j] = f[j - 1]
      BY <1>4, <3>1
    <3>3. g[j + 1] = Onward(g[j], ev[t[j + 1]]) /\ f[j] = Onward(f[j - 1], ev[s[j]])
      BY <1>2, <1>3, <3>1 DEF Steps
    <3>4. t[j + 1] = s[j]
      BY <1>1, <3>1
    <3> QED
      BY <3>2, <3>3, <3>4
  <2> QED
    BY <2>1, <2>2
<1> HIDE DEF S
<1>5. Nat \subseteq S
  BY <1>4, SmallerFirst
<1>6. n \in S
  BY <1>1, <1>5
<1>7. g[n + 1] = f[n]
  BY <1>1, <1>6 DEF S
<1>8. InOrder(t, ev) = InOrder(s, ev)
  BY <1>2, <1>3, <1>7
<1> QED
  BY <1>8 DEF t

----------------------------------------------------------------------------
(* An assertion on each return, and then one on each value.                *)

Asserted == <<"assert">>
Marked(r) == IF r.out = "return" THEN Way(r.trace \o Asserted, "return") ELSE r
Mark(S) == {Marked(r) : r \in S}

LEMMA Associates ==
  ASSUME NEW x \in Seq({"work", "assert"}), NEW y \in Seq({"work", "assert"}), NEW z \in Seq({"work", "assert"})
  PROVE  (x \o y) \o z = x \o (y \o z)
BY SMT

LEMMA AssertedIsTrace ==
  /\ Asserted \in Seq({"work", "assert"})
  /\ Way(Asserted, "value") \in Ways
BY DEF Asserted, Way, Ways, Outs

LEMMA MarkedIsWay ==
  ASSUME NEW r \in Ways
  PROVE  Marked(r) \in Ways /\ Marked(r).out = r.out /\ (r.out # "return" => Marked(r) = r)
<1>1. CASE r.out = "return"
  <2>1. Marked(r) = Way(r.trace \o Asserted, "return")
    BY <1>1 DEF Marked
  <2>2. r.trace \o Asserted \in Seq({"work", "assert"})
    BY AssertedIsTrace, WaysMade, ConcatProperties
  <2> QED
    BY <1>1, <2>1, <2>2 DEF Ways, Way, Outs
<1>2. CASE r.out # "return"
  BY <1>2 DEF Marked
<1> QED
  BY <1>1, <1>2

LEMMA MarkAfter ==
  ASSUME NEW r \in Ways, NEW S \in SUBSET Ways
  PROVE  Mark(After(r, S)) = After(Marked(r), Mark(S))
<1>1. CASE r.out = "value"
  <2>1. Marked(r) = r
    BY <1>1, MarkedIsWay
  <2>2. ASSUME NEW s \in S
        PROVE  Marked(Way(r.trace \o s.trace, s.out)) = Way(r.trace \o Marked(s).trace, Marked(s).out)
    <3>1. s \in Ways /\ s.trace \in Seq({"work", "assert"}) /\ r.trace \in Seq({"work", "assert"})
      BY WaysMade
    <3>2. CASE s.out = "return"
      <4>1. Marked(Way(r.trace \o s.trace, s.out)) = Way((r.trace \o s.trace) \o Asserted, "return")
        BY <3>2, WaysAre DEF Marked
      <4>2. Marked(s) = Way(s.trace \o Asserted, "return")
        BY <3>2 DEF Marked
      <4>3. (r.trace \o s.trace) \o Asserted = r.trace \o (s.trace \o Asserted)
        BY <3>1, AssertedIsTrace, Associates
      <4> QED
        BY <4>1, <4>2, <4>3, WaysAre
    <3>3. CASE s.out # "return"
      BY <3>3, WaysAre DEF Marked
    <3> QED
      BY <3>2, <3>3
  <2>3. After(r, S) = {Way(r.trace \o s.trace, s.out) : s \in S}
    BY <1>1 DEF After
  <2>4. After(r, Mark(S)) = {Way(r.trace \o s.trace, s.out) : s \in Mark(S)}
    BY <1>1 DEF After
  <2>5. \A x : x \in Mark(After(r, S)) <=> \E s \in S : x = Marked(Way(r.trace \o s.trace, s.out))
    BY <2>3 DEF Mark
  <2>6. \A x : x \in After(r, Mark(S)) <=> \E s \in S : x = Way(r.trace \o Marked(s).trace, Marked(s).out)
    BY <2>4 DEF Mark
  <2>7. \A x : x \in Mark(After(r, S)) <=> x \in After(r, Mark(S))
    BY <2>2, <2>5, <2>6
  <2> QED
    BY <2>1, <2>7
<1>2. CASE r.out # "value"
  BY <1>2, MarkedIsWay DEF Mark, After
<1> QED
  BY <1>1, <1>2

LEMMA MarkOnward ==
  ASSUME NEW F \in SUBSET Ways, NEW S \in SUBSET Ways
  PROVE  Mark(Onward(F, S)) = Onward(Mark(F), Mark(S))
<1>1. \A r \in F : Mark(After(r, S)) = After(Marked(r), Mark(S))
  BY MarkAfter
<1>2. \A x : x \in Mark(Onward(F, S)) <=> \E r \in F : x \in Mark(After(r, S))
  BY DEF Mark, Onward
<1>3. \A x : x \in Onward(Mark(F), Mark(S)) <=> \E r \in F : x \in After(Marked(r), Mark(S))
  BY DEF Mark, Onward
<1> QED
  BY <1>1, <1>2, <1>3

MarkedAlike(s, ev, t, ew, n) ==
  \A j \in 1..n : ev[s[j]] \subseteq Ways /\ ew[t[j]] = Mark(ev[s[j]])

LEMMA WalksMarked ==
  ASSUME NEW s, NEW ev, NEW t, NEW ew, Len(s) \in Nat, Len(t) = Len(s), MarkedAlike(s, ev, t, ew, Len(s))
  PROVE  InOrder(s, ev) \subseteq Ways /\ InOrder(t, ew) = Mark(InOrder(s, ev))
<1> DEFINE n == Len(s)
<1>1. PICK f : Steps(f, s, ev, n) /\ InOrder(s, ev) = f[n]
  BY InOrderIs
<1>2. PICK g : Steps(g, t, ew, n) /\ InOrder(t, ew) = g[n]
  BY InOrderIs
<1> DEFINE S == {j \in Nat : j <= n => f[j] \subseteq Ways /\ g[j] = Mark(f[j])}
<1>3. ASSUME NEW j \in Nat, \A k \in 0..(j - 1) : k \in S
      PROVE  j \in S
  <2> SUFFICES ASSUME j <= n PROVE f[j] \subseteq Ways /\ g[j] = Mark(f[j])
    OBVIOUS
  <2>1. CASE j = 0
    <3>1. f[0] = {Through} /\ g[0] = {Through}
      BY <1>1, <1>2 DEF Steps
    <3>2. Mark({Through}) = {Through}
      BY ThroughIsWay, MarkedIsWay DEF Mark
    <3> QED
      BY <2>1, <3>1, <3>2, ThroughIsWay
  <2>2. CASE j # 0
    <3>1. j \in 1..n /\ j - 1 \in 0..(j - 1) /\ j - 1 <= n
      BY <2>2
    <3>2. f[j - 1] \subseteq Ways /\ g[j - 1] = Mark(f[j - 1])
      BY <1>3, <3>1
    <3>3. f[j] = Onward(f[j - 1], ev[s[j]]) /\ g[j] = Onward(g[j - 1], ew[t[j]])
      BY <1>1, <1>2, <3>1 DEF Steps
    <3>4. ev[s[j]] \subseteq Ways /\ ew[t[j]] = Mark(ev[s[j]])
      BY <3>1 DEF MarkedAlike
    <3>5. g[j] = Mark(f[j])
      BY <3>2, <3>3, <3>4, MarkOnward
    <3>6. f[j] \subseteq Ways
      BY <3>2, <3>3, <3>4, AfterIsWays DEF Onward
    <3> QED
      BY <3>5, <3>6
  <2> QED
    BY <2>1, <2>2
<1> HIDE DEF S
<1>4. Nat \subseteq S
  BY <1>3, SmallerFirst
<1>5. n \in S
  BY <1>4
<1>6. n <= n
  OBVIOUS
<1>7. f[n] \subseteq Ways /\ g[n] = Mark(f[n])
  BY <1>5, <1>6 DEF S
<1> QED
  BY <1>1, <1>2, <1>7

LEMMA OnwardThrough ==
  ASSUME NEW S \in SUBSET Ways
  PROVE  Onward(S, {Through}) = S
<1>1. ASSUME NEW r \in S
      PROVE  After(r, {Through}) = {r}
  <2>1. CASE r.out = "value"
    <3>1. After(r, {Through}) = {Way(r.trace \o Through.trace, Through.out)}
      BY <2>1 DEF After
    <3>2. r.trace \o Through.trace = r.trace
      BY WaysMade, ThroughIsWay, ConcatEmptySeq
    <3>3. Way(r.trace, "value") = r
      BY <2>1, WaysMade
    <3> QED
      BY <3>1, <3>2, <3>3, ThroughIsWay
  <2>2. CASE r.out # "value"
    BY <2>2 DEF After
  <2> QED
    BY <2>1, <2>2
<1> QED
  BY <1>1 DEF Onward

\* An assertion behind what ends with a value.
Closed(r) == IF r.out = "value" THEN Way(r.trace \o Asserted, "value") ELSE r

LEMMA OnwardAssert ==
  ASSUME NEW S \in SUBSET Ways
  PROVE  /\ Onward(S, {Way(Asserted, "value")}) = {Closed(r) : r \in S}
         /\ Onward(S, {Way(Asserted, "value")}) \subseteq Ways
<1>1. ASSUME NEW r \in S
      PROVE  After(r, {Way(Asserted, "value")}) = {Closed(r)}
  <2>1. CASE r.out = "value"
    <3>1. After(r, {Way(Asserted, "value")})
            = {Way(r.trace \o Way(Asserted, "value").trace, Way(Asserted, "value").out)}
      BY <2>1 DEF After
    <3> QED
      BY <2>1, <3>1, WaysAre DEF Closed
  <2>2. CASE r.out # "value"
    BY <2>2 DEF After, Closed
  <2> QED
    BY <2>1, <2>2
<1>2. Onward(S, {Way(Asserted, "value")}) = {Closed(r) : r \in S}
  BY <1>1 DEF Onward
<1>3. \A r \in S : After(r, {Way(Asserted, "value")}) \subseteq Ways
  BY AfterIsWays, AssertedIsTrace
<1>4. Onward(S, {Way(Asserted, "value")}) \subseteq Ways
  BY <1>3 DEF Onward
<1> QED
  BY <1>2, <1>4

LEMMA EndingIsWays ==
  ASSUME NEW S \in SUBSET Ways, NEW from, NEW to \in Outs
  PROVE  Ending(S, from, to) \subseteq Ways
BY WaysMade DEF Ending

LEMMA RepeatedIsWays ==
  ASSUME NEW S \in SUBSET Ways
  PROVE  Repeated(S) \subseteq Ways
BY ThroughIsWay, AfterIsWays DEF Repeated, Onward

(* The ways of running a tree are ways.                                    *)
LEMMA LeavesRun ==
  ASSUME NEW h \in 0..Height
  PROVE  /\ Runs[h][Value] = {Through}
         /\ Runs[h][Assertion] = {Way(Asserted, "value")}
         /\ Runs[h][Work] = {Way(<<"work">>, "value")}
<1>1. /\ Value \in Leaves /\ Assertion \in Leaves /\ Work \in Leaves
      /\ \A e \in Leaves : e \in Trees[h]
  BY LeavesAreTrees DEF Leaves
<1>2. \A e \in Leaves : \E x : Runs[h][e] = RunsOf(e, x)
  BY <1>1, RunsAre, Heights
<1>3. \A x : RunsOf(Value, x) = {Through}
  BY DEF RunsOf, Value
<1>4. \A x : RunsOf(Assertion, x) = {Way(Asserted, "value")}
  BY DEF RunsOf, Assertion, Asserted
<1>5. \A x : RunsOf(Work, x) = {Way(<<"work">>, "value")}
  BY DEF RunsOf, Work
<1> QED
  BY <1>1, <1>2, <1>3, <1>4, <1>5

LEMMA RunsOfKinds ==
  ASSUME NEW e, NEW ev
  PROVE  /\ e.k \in {"value", "closure"} => RunsOf(e, ev) = {Through}
         /\ e.k \in {"work", "assert"} => RunsOf(e, ev) = {Way(<<e.k>>, "value")}
         /\ e.k = "return" => RunsOf(e, ev) = Ending(InOrder(e.e, ev), {"value"}, "return")
         /\ e.k = "try" =>
              RunsOf(e, ev) = InOrder(e.e, ev) \cup Ending(InOrder(e.e, ev), {"value"}, "error")
         /\ e.k = "if" => RunsOf(e, ev) = InOrder(e.a, ev) \cup InOrder(e.b, ev)
         /\ e.k = "loop" => RunsOf(e, ev) = Repeated(InOrder(e.e, ev))
         /\ e.k = "block" => RunsOf(e, ev) = InOrder(e.e, ev)
         /\ e.k = "inner" => RunsOf(e, ev) = Ending(InOrder(e.e, ev), {"return", "error", "hidden"}, "value")
         /\ e.k = "macro" /\ e.written => RunsOf(e, ev) = InOrder(e.e, ev)
         /\ e.k = "macro" /\ ~ e.written => RunsOf(e, ev) = Ending(InOrder(e.e, ev), {"return"}, "hidden")
BY DEF RunsOf

LEMMA Statements ==
  ASSUME NEW T, NEW s \in Seq(T)
  PROVE  Len(s) \in Nat /\ DOMAIN s = 1..Len(s) /\ \A j \in 1..Len(s) : s[j] \in T
BY LenProperties, ElementOfSeq

LEMMA LeavesAreWays ==
  \A e \in Leaves : \A ev : RunsOf(e, ev) \subseteq Ways
<1> SUFFICES ASSUME NEW e \in Leaves, NEW ev PROVE RunsOf(e, ev) \subseteq Ways
  OBVIOUS
<1>1. CASE e.k = "value"
  BY <1>1, RunsOfKinds, ThroughIsWay
<1>2. CASE e.k \in {"work", "assert"}
  BY <1>2, RunsOfKinds DEF Ways, Way, Outs
<1> QED
  BY <1>1, <1>2 DEF Leaves, Value, Work, Assertion

LEMMA RunsOfIsWays ==
  ASSUME NEW h \in 1..Height, NEW e \in Trees[h], NEW ev, \A c \in Trees[h - 1] : ev[c] \subseteq Ways
  PROVE  RunsOf(e, ev) \subseteq Ways
<1>1. ASSUME NEW s \in Seq(Trees[h - 1])
      PROVE  InOrder(s, ev) \in SUBSET Ways
  BY Statements, WalksAreWays
<1>2. CASE e \in Leaves
  BY <1>2, LeavesAreWays
<1>3. CASE e.k \in Plain /\ e.e \in Seq(Trees[h - 1])
  <2> DEFINE I == InOrder(e.e, ev)
  <2>1. I \in SUBSET Ways
    BY <1>1, <1>3
  <2>2. Repeated(I) \subseteq Ways
    BY <2>1, RepeatedIsWays
  <2>3. \A from : \A to \in Outs : Ending(I, from, to) \subseteq Ways
    BY <2>1, EndingIsWays
  <2> HIDE DEF I
  <2>4. CASE e.k = "return"
    <3>1. RunsOf(e, ev) = Ending(I, {"value"}, "return")
      BY <2>4, RunsOfKinds DEF I
    <3> QED
      BY <2>3, <3>1 DEF Outs
  <2>5. CASE e.k = "try"
    <3>1. RunsOf(e, ev) = I \cup Ending(I, {"value"}, "error")
      BY <2>5, RunsOfKinds DEF I
    <3> QED
      BY <2>1, <2>3, <3>1 DEF Outs
  <2>6. CASE e.k = "loop"
    <3>1. RunsOf(e, ev) = Repeated(I)
      BY <2>6, RunsOfKinds DEF I
    <3> QED
      BY <2>2, <3>1
  <2>7. CASE e.k = "block"
    <3>1. RunsOf(e, ev) = I
      BY <2>7, RunsOfKinds DEF I
    <3> QED
      BY <2>1, <3>1
  <2>8. CASE e.k = "inner"
    <3>1. RunsOf(e, ev) = Ending(I, {"return", "error", "hidden"}, "value")
      BY <2>8, RunsOfKinds DEF I
    <3> QED
      BY <2>3, <3>1 DEF Outs
  <2>9. CASE e.k = "closure"
    BY <2>9, RunsOfKinds, ThroughIsWay, ZenonT(30)
  <2> QED
    BY <1>3, <2>4, <2>5, <2>6, <2>7, <2>8, <2>9 DEF Plain
<1>4. CASE e.k = "if" /\ e.a \in Seq(Trees[h - 1]) /\ e.b \in Seq(Trees[h - 1])
  <2>1. InOrder(e.a, ev) \subseteq Ways /\ InOrder(e.b, ev) \subseteq Ways
    BY <1>1, <1>4
  <2>2. RunsOf(e, ev) = InOrder(e.a, ev) \cup InOrder(e.b, ev)
    BY <1>4, RunsOfKinds
  <2> QED
    BY <2>1, <2>2
<1>5. CASE e.k = "macro" /\ e.e \in Seq(Trees[h - 1])
  <2>1. InOrder(e.e, ev) \in SUBSET Ways
    BY <1>1, <1>5
  <2>2. Ending(InOrder(e.e, ev), {"return"}, "hidden") \subseteq Ways
    BY <2>1, EndingIsWays DEF Outs
  <2> QED
    BY <1>5, <2>1, <2>2, RunsOfKinds
<1> QED
  BY <1>2, <1>3, <1>4, <1>5, TreeKinds

LEMMA RunsAreWays ==
  \A h \in 0..Height : \A e \in Trees[h] : Runs[h][e] \subseteq Ways
<1> DEFINE S == {h \in Nat : h <= Height => \A e \in Trees[h] : Runs[h][e] \subseteq Ways}
<1>1. ASSUME NEW h \in Nat, \A k \in 0..(h - 1) : k \in S
      PROVE  h \in S
  <2> SUFFICES ASSUME h <= Height, NEW e \in Trees[h] PROVE Runs[h][e] \subseteq Ways
    OBVIOUS
  <2>1. CASE h = 0
    BY <2>1, TreesAre, RunsAre, LeavesAreWays
  <2>2. CASE h # 0
    <3>1. h \in 1..Height /\ h - 1 \in 0..(h - 1) /\ h - 1 <= Height
      BY <2>2, Heights
    <3>2. \A c \in Trees[h - 1] : Runs[h - 1][c] \subseteq Ways
      BY <1>1, <3>1
    <3>3. Runs[h][e] = RunsOf(e, Runs[h - 1])
      BY <3>1, RunsAre
    <3> QED
      BY <3>1, <3>2, <3>3, RunsOfIsWays
  <2> QED
    BY <2>1, <2>2
<1> HIDE DEF S
<1>2. Nat \subseteq S
  BY <1>1, SmallerFirst
<1> QED
  BY <1>2, Heights DEF S

----------------------------------------------------------------------------
(* The parts of a tree.                                                    *)

LEMMA ChildrenAre ==
  ASSUME NEW e
  PROVE  /\ e \in Leaves => Children(e) = {}
         /\ e.k \in Plain => Children(e) = {e.e[j] : j \in DOMAIN e.e}
         /\ e.k = "if" => Children(e) = {e.a[j] : j \in DOMAIN e.a} \cup {e.b[j] : j \in DOMAIN e.b}
         /\ e.k = "macro" /\ e.written => Children(e) = {e.e[j] : j \in DOMAIN e.e}
         /\ e.k = "macro" /\ ~ e.written => Children(e) = {}
BY DEF Children, Plain, Leaves, Value, Work, Assertion

LEMMA ChildrenBelow ==
  ASSUME NEW h \in 1..Height, NEW e \in Trees[h]
  PROVE  Children(e) \subseteq Trees[h - 1]
<1>1. ASSUME NEW s \in Seq(Trees[h - 1])
      PROVE  {s[j] : j \in DOMAIN s} \subseteq Trees[h - 1]
  BY Statements
<1>2. CASE e \in Leaves
  BY <1>2, ChildrenAre
<1>3. CASE e.k \in Plain /\ e.e \in Seq(Trees[h - 1])
  BY <1>1, <1>3, ChildrenAre
<1>4. CASE e.k = "if" /\ e.a \in Seq(Trees[h - 1]) /\ e.b \in Seq(Trees[h - 1])
  BY <1>1, <1>4, ChildrenAre
<1>5. CASE e.k = "macro" /\ e.e \in Seq(Trees[h - 1])
  BY <1>1, <1>5, ChildrenAre
<1> QED
  BY <1>2, <1>3, <1>4, <1>5, TreeKinds

LEMMA PartsAlike ==
  ASSUME NEW e, NEW o, NEW p, NEW q, \A c \in Children(e) : p[c] = q[c]
  PROVE  PartsOf(e, o, p) = PartsOf(e, o, q)
BY DEF PartsOf

LEMMA LeafParts ==
  ASSUME NEW o, NEW h \in 0..Height, NEW e \in Leaves
  PROVE  AllParts(o)[h][e] = {e}
<1>1. CASE h = 0
  BY <1>1, PartsAre
<1>2. CASE h # 0
  <2>1. h \in 1..Height /\ e \in Trees[h]
    BY <1>2, LeavesAreTrees
  <2>2. AllParts(o)[h][e] = PartsOf(e, o, AllParts(o)[h - 1])
    BY <2>1, PartsAre
  <2>3. Children(e) = {}
    BY ChildrenAre
  <2> QED
    BY <2>2, <2>3 DEF PartsOf
<1> QED
  BY <1>1, <1>2

(* A tree has the same parts at each height it has.                        *)
LEMMA PartsRise ==
  ASSUME NEW o
  PROVE  \A h \in 1..Height : \A e \in Trees[h - 1] : AllParts(o)[h - 1][e] = AllParts(o)[h][e]
<1> DEFINE P == AllParts(o)
           S == {h \in Nat : h \in 1..Height => \A e \in Trees[h - 1] : P[h - 1][e] = P[h][e]}
<1> HIDE DEF P
<1>1. ASSUME NEW h \in Nat, \A k \in 0..(h - 1) : k \in S
      PROVE  h \in S
  <2> SUFFICES ASSUME h \in 1..Height, NEW e \in Trees[h - 1] PROVE P[h - 1][e] = P[h][e]
    OBVIOUS
  <2>1. CASE h = 1
    <3>1. e \in Leaves /\ 0 \in 0..Height /\ 1 \in 0..Height /\ h - 1 = 0
      BY <2>1, TreesAre, Heights
    <3>2. P[0][e] = {e} /\ P[1][e] = {e}
      BY <3>1, LeafParts DEF P
    <3> QED
      BY <2>1, <3>1, <3>2
  <2>2. CASE h # 1
    <3>1. h - 1 \in 0..(h - 1) /\ h - 1 \in 1..Height
      BY <2>2, Heights
    <3>2. \A c \in Trees[(h - 1) - 1] : P[(h - 1) - 1][c] = P[h - 1][c]
      BY <1>1, <3>1
    <3>3. e \in Trees[h]
      BY TreesRise
    <3>4. P[h][e] = PartsOf(e, o, P[h - 1]) /\ P[h - 1][e] = PartsOf(e, o, P[(h - 1) - 1])
      BY <3>1, <3>3, PartsAre DEF P
    <3>5. \A c \in Children(e) : P[(h - 1) - 1][c] = P[h - 1][c]
      BY <3>1, <3>2, ChildrenBelow
    <3>6. PartsOf(e, o, P[(h - 1) - 1]) = PartsOf(e, o, P[h - 1])
      BY <3>5, PartsAlike
    <3> QED
      BY <3>4, <3>6
  <2> QED
    BY <2>1, <2>2
<1> HIDE DEF S
<1>2. Nat \subseteq S
  BY <1>1, SmallerFirst
<1> QED
  BY <1>2, Heights DEF S, P

LEMMA PartsSettle ==
  ASSUME NEW o, NEW h \in 0..Height, NEW e \in Trees[h]
  PROVE  e \in Trees[Height] /\ AllParts(o)[h][e] = AllParts(o)[Height][e]
<1> DEFINE P == AllParts(o)
           S == {n \in Nat : n <= Height =>
                   \A c \in Trees[Height - n] : c \in Trees[Height] /\ P[Height - n][c] = P[Height][c]}
<1> HIDE DEF P
<1>1. ASSUME NEW n \in Nat, \A k \in 0..(n - 1) : k \in S
      PROVE  n \in S
  <2> SUFFICES ASSUME n <= Height, NEW c \in Trees[Height - n]
               PROVE  c \in Trees[Height] /\ P[Height - n][c] = P[Height][c]
    OBVIOUS
  <2>1. CASE n = 0
    BY <2>1, Heights
  <2>2. CASE n # 0
    <3>1. n - 1 \in 0..(n - 1) /\ n - 1 <= Height /\ Height - (n - 1) \in 1..Height
          /\ (Height - (n - 1)) - 1 = Height - n
      BY <2>2, Heights
    <3>2. c \in Trees[Height - (n - 1)]
      BY <3>1, TreesRise
    <3>3. P[Height - n][c] = P[Height - (n - 1)][c]
      BY <3>1, PartsRise DEF P
    <3>4. c \in Trees[Height] /\ P[Height - (n - 1)][c] = P[Height][c]
      BY <1>1, <3>1, <3>2
    <3> QED
      BY <3>3, <3>4
  <2> QED
    BY <2>1, <2>2
<1> HIDE DEF S
<1>2. Nat \subseteq S
  BY <1>1, SmallerFirst
<1>3. Height - h \in Nat /\ Height - h <= Height /\ Height - (Height - h) = h
  BY Heights
<1>4. Height - h \in S
  BY <1>2, <1>3
<1> QED
  BY <1>3, <1>4 DEF S, P

(* Where fewer kinds are opaque, there are more parts.                     *)
LEMMA PartsGrow ==
  ASSUME NEW o, NEW u \in SUBSET o
  PROVE  \A h \in 0..Height : \A e \in Trees[h] : AllParts(o)[h][e] \subseteq AllParts(u)[h][e]
<1> DEFINE P == AllParts(o)
           Q == AllParts(u)
           S == {h \in Nat : h <= Height => \A e \in Trees[h] : P[h][e] \subseteq Q[h][e]}
<1> HIDE DEF P, Q
<1>1. ASSUME NEW h \in Nat, \A k \in 0..(h - 1) : k \in S
      PROVE  h \in S
  <2> SUFFICES ASSUME h <= Height, NEW e \in Trees[h] PROVE P[h][e] \subseteq Q[h][e]
    OBVIOUS
  <2>1. CASE h = 0
    BY <2>1, TreesAre, PartsAre DEF P, Q
  <2>2. CASE h # 0
    <3>1. h \in 1..Height /\ h - 1 \in 0..(h - 1) /\ h - 1 <= Height
      BY <2>2, Heights
    <3>2. \A c \in Children(e) : P[h - 1][c] \subseteq Q[h - 1][c]
      BY <1>1, <3>1, ChildrenBelow
    <3>3. P[h][e] = PartsOf(e, o, P[h - 1]) /\ Q[h][e] = PartsOf(e, u, Q[h - 1])
      BY <3>1, PartsAre DEF P, Q
    <3> QED
      BY <3>2, <3>3 DEF PartsOf
  <2> QED
    BY <2>1, <2>2
<1> HIDE DEF S
<1>2. Nat \subseteq S
  BY <1>1, SmallerFirst
<1> QED
  BY <1>2, Heights DEF S, P, Q

LEMMA ReturnTokenIs ==
  ASSUME NEW h \in 1..Height, NEW m, m.e \in Seq(Trees[h - 1])
  PROVE  ReturnToken(m) <=> \E j \in DOMAIN m.e : \E r \in AllParts({})[h - 1][m.e[j]] : r.k = "return"
<1>1. ReturnToken(m) <=> \E r \in UNION {AllParts({})[Height][m.e[j]] : j \in DOMAIN m.e} : r.k = "return"
  BY PartsAre DEF ReturnToken
<1>2. h - 1 \in 0..Height
  BY Heights
<1>3. \A j \in DOMAIN m.e : AllParts({})[h - 1][m.e[j]] = AllParts({})[Height][m.e[j]]
  BY <1>2, Statements, PartsSettle
<1> QED
  BY <1>1, <1>3

----------------------------------------------------------------------------
(* What shows no return does not return.                                   *)

Quiet == {r \in Ways : r.out # "return"}

LEMMA AfterIsQuiet ==
  ASSUME NEW r \in Quiet, NEW S \in SUBSET Quiet
  PROVE  After(r, S) \subseteq Quiet
<1>1. r \in Ways /\ S \in SUBSET Ways /\ After(r, S) \subseteq Ways
  BY AfterIsWays DEF Quiet
<1>2. \A x \in After(r, S) : x.out # "return"
  BY WaysAre DEF After, Quiet
<1> QED
  BY <1>1, <1>2 DEF Quiet

LEMMA ThroughIsQuiet == Through \in Quiet
BY ThroughIsWay DEF Quiet

LEMMA EndingIsQuiet ==
  ASSUME NEW S \in SUBSET Ways, NEW from, NEW to \in Outs \ {"return"}, S \subseteq Quiet \/ "return" \in from
  PROVE  Ending(S, from, to) \subseteq Quiet
<1>1. Ending(S, from, to) \subseteq Ways
  BY EndingIsWays
<1>2. \A r \in Ending(S, from, to) : r.out # "return"
  BY WaysAre DEF Ending, Quiet
<1> QED
  BY <1>1, <1>2 DEF Quiet

LEMMA RepeatedIsQuiet ==
  ASSUME NEW S \in SUBSET Quiet
  PROVE  Repeated(S) \subseteq Quiet
BY AfterIsQuiet, ThroughIsQuiet DEF Repeated, Onward

LEMMA LeavesAreQuiet ==
  \A e \in Leaves : \A ev : RunsOf(e, ev) \subseteq Quiet
<1> SUFFICES ASSUME NEW e \in Leaves, NEW ev PROVE RunsOf(e, ev) \subseteq Quiet
  OBVIOUS
<1>1. CASE e.k = "value"
  BY <1>1, RunsOfKinds, ThroughIsQuiet
<1>2. CASE e.k \in {"work", "assert"}
  <2>1. RunsOf(e, ev) = {Way(<<e.k>>, "value")}
    BY <1>2, RunsOfKinds
  <2> QED
    BY <2>1, LeavesAreWays, WaysAre DEF Quiet
<1> QED
  BY <1>1, <1>2 DEF Leaves, Value, Work, Assertion

LEMMA QuietParts ==
  \A h \in 0..Height : \A e \in Trees[h] :
    (\A r \in AllParts({})[h][e] : r.k # "return") => Runs[h][e] \subseteq Quiet
<1> DEFINE P == AllParts({})
           S == {h \in Nat : h <= Height =>
                   \A e \in Trees[h] : (\A r \in P[h][e] : r.k # "return") => Runs[h][e] \subseteq Quiet}
<1> HIDE DEF P
<1>1. ASSUME NEW h \in Nat, \A k \in 0..(h - 1) : k \in S
      PROVE  h \in S
  <2> SUFFICES ASSUME h <= Height, NEW e \in Trees[h], \A r \in P[h][e] : r.k # "return"
               PROVE  Runs[h][e] \subseteq Quiet
    OBVIOUS
  <2>1. CASE h = 0
    BY <2>1, TreesAre, RunsAre, LeavesAreQuiet
  <2>2. CASE h # 0
    <3>1. h \in 1..Height /\ h - 1 \in 0..(h - 1) /\ h - 1 <= Height /\ h - 1 \in 0..Height
      BY <2>2, Heights
    <3> DEFINE ev == Runs[h - 1]
    <3>2. Runs[h][e] = RunsOf(e, ev)
      BY <3>1, RunsAre
    <3>3. \A c \in Trees[h - 1] : ev[c] \subseteq Ways
      BY <3>1, RunsAreWays
    <3> HIDE DEF ev
    <3>4. P[h][e] = {e} \cup UNION {P[h - 1][c] : c \in Children(e)}
      BY <3>1, PartsAre DEF P, PartsOf
    <3>5. e.k # "return"
      BY <3>4
    <3>6. \A c \in Children(e) : ev[c] \subseteq Quiet
      BY <1>1, <3>1, <3>4, ChildrenBelow DEF ev
    <3>7. ASSUME NEW s \in Seq(Trees[h - 1]), {s[j] : j \in DOMAIN s} \subseteq Children(e)
          PROVE  InOrder(s, ev) \subseteq Quiet
      <4>1. Len(s) \in Nat /\ \A j \in 1..Len(s) : ev[s[j]] \subseteq Quiet
        BY <3>6, <3>7, Statements
      <4> QED
        BY <4>1, WalksWithin, AfterIsQuiet, ThroughIsQuiet
    <3>8. ASSUME NEW s \in Seq(Trees[h - 1])
          PROVE  InOrder(s, ev) \in SUBSET Ways
      BY <3>3, Statements, WalksAreWays
    <3>9. CASE e \in Leaves
      BY <3>2, <3>9, LeavesAreQuiet
    <3>10. CASE e.k \in Plain /\ e.e \in Seq(Trees[h - 1])
      <4> DEFINE I == InOrder(e.e, ev)
      <4>1. I \subseteq Quiet /\ I \in SUBSET Ways
        BY <3>7, <3>8, <3>10, ChildrenAre
      <4> HIDE DEF I
      <4>2. Repeated(I) \subseteq Quiet
        BY <4>1, RepeatedIsQuiet
      <4>3. \A from : \A to \in Outs \ {"return"} : Ending(I, from, to) \subseteq Quiet
        BY <4>1, EndingIsQuiet
      <4>4. CASE e.k = "try"
        <5>1. RunsOf(e, ev) = I \cup Ending(I, {"value"}, "error")
          BY <4>4, RunsOfKinds DEF I
        <5> QED
          BY <3>2, <4>1, <4>3, <5>1 DEF Outs
      <4>5. CASE e.k = "loop"
        <5>1. RunsOf(e, ev) = Repeated(I)
          BY <4>5, RunsOfKinds DEF I
        <5> QED
          BY <3>2, <4>2, <5>1
      <4>6. CASE e.k = "block"
        <5>1. RunsOf(e, ev) = I
          BY <4>6, RunsOfKinds DEF I
        <5> QED
          BY <3>2, <4>1, <5>1
      <4>7. CASE e.k = "inner"
        <5>1. RunsOf(e, ev) = Ending(I, {"return", "error", "hidden"}, "value")
          BY <4>7, RunsOfKinds DEF I
        <5> QED
          BY <3>2, <4>3, <5>1 DEF Outs
      <4>8. CASE e.k = "closure"
        <5>1. RunsOf(e, ev) = {Through}
          BY <4>8, RunsOfKinds
        <5> QED
          BY <3>2, <5>1, ThroughIsQuiet
      <4> QED
        BY <3>5, <3>10, <4>4, <4>5, <4>6, <4>7, <4>8 DEF Plain
    <3>11. CASE e.k = "if" /\ e.a \in Seq(Trees[h - 1]) /\ e.b \in Seq(Trees[h - 1])
      <4>1. InOrder(e.a, ev) \subseteq Quiet /\ InOrder(e.b, ev) \subseteq Quiet
        BY <3>7, <3>11, ChildrenAre
      <4>2. RunsOf(e, ev) = InOrder(e.a, ev) \cup InOrder(e.b, ev)
        BY <3>11, RunsOfKinds
      <4> QED
        BY <3>2, <4>1, <4>2
    <3>12. CASE e.k = "macro" /\ e.e \in Seq(Trees[h - 1])
      <4>1. CASE e.written
        <5>1. InOrder(e.e, ev) \subseteq Quiet
          BY <3>7, <3>12, <4>1, ChildrenAre
        <5>2. RunsOf(e, ev) = InOrder(e.e, ev)
          BY <3>12, <4>1, RunsOfKinds
        <5> QED
          BY <3>2, <5>1, <5>2
      <4>2. CASE ~ e.written
        <5>1. RunsOf(e, ev) = Ending(InOrder(e.e, ev), {"return"}, "hidden")
          BY <3>12, <4>2, RunsOfKinds
        <5>2. InOrder(e.e, ev) \in SUBSET Ways
          BY <3>8, <3>12
        <5> QED
          BY <3>2, <5>1, <5>2, EndingIsQuiet DEF Outs
      <4> QED
        BY <4>1, <4>2
    <3> QED
      BY <3>1, <3>9, <3>10, <3>11, <3>12, TreeKinds
  <2> QED
    BY <2>1, <2>2
<1> HIDE DEF S
<1>2. Nat \subseteq S
  BY <1>1, SmallerFirst
<1> QED
  BY <1>2, Heights DEF S, P

----------------------------------------------------------------------------
(* A rewritten tree runs as it did, with an assertion on each return.      *)

LEMMA MarkQuiet ==
  ASSUME NEW S \in SUBSET Quiet
  PROVE  Mark(S) = S
<1>1. \A r \in S : Marked(r) = r
  BY MarkedIsWay DEF Quiet
<1> QED
  BY <1>1 DEF Mark

LEMMA MarkError ==
  ASSUME NEW S \in SUBSET Ways
  PROVE  Ending(Mark(S), {"value"}, "error") = Mark(Ending(S, {"value"}, "error"))
<1> DEFINE to(r) == IF r.out \in {"value"} THEN Way(r.trace, "error") ELSE r
<1>1. ASSUME NEW r \in S
      PROVE  to(Marked(r)) = Marked(to(r))
  <2>1. CASE r.out = "value"
    <3>1. Marked(r) = r /\ to(r) = Way(r.trace, "error")
      BY <2>1, MarkedIsWay
    <3>2. Marked(Way(r.trace, "error")) = Way(r.trace, "error")
      BY WaysAre DEF Marked
    <3> QED
      BY <3>1, <3>2
  <2>2. CASE r.out # "value"
    BY <2>2, MarkedIsWay
  <2> QED
    BY <2>1, <2>2
<1>2. \A T : Ending(T, {"value"}, "error") = {to(r) : r \in T}
  BY DEF Ending
<1> HIDE DEF to
<1> QED
  BY <1>1, <1>2 DEF Mark

LEMMA MarkRepeated ==
  ASSUME NEW S \in SUBSET Ways
  PROVE  Repeated(Mark(S)) = Mark(Repeated(S))
<1>1. Mark(Onward(S, S)) = Onward(Mark(S), Mark(S))
  BY MarkOnward
<1>2. Mark({Through}) = {Through}
  BY ThroughIsWay, MarkedIsWay DEF Mark
<1>3. Mark(Repeated(S)) = Mark({Through}) \cup Mark(S) \cup Mark(Onward(S, S))
  BY DEF Mark, Repeated
<1> QED
  BY <1>1, <1>2, <1>3 DEF Repeated

LEMMA MarkIsWays ==
  ASSUME NEW S \in SUBSET Ways
  PROVE  Mark(S) \in SUBSET Ways
BY MarkedIsWay DEF Mark

LEMMA MarkReturn ==
  ASSUME NEW S \in SUBSET Ways
  PROVE  Ending(Onward(Onward(Mark(S), {Way(Asserted, "value")}), {Through}), {"value"}, "return")
           = Mark(Ending(S, {"value"}, "return"))
<1> DEFINE to(r) == IF r.out \in {"value"} THEN Way(r.trace, "return") ELSE r
           T == Onward(Mark(S), {Way(Asserted, "value")})
<1>1. T = {Closed(r) : r \in Mark(S)} /\ T \in SUBSET Ways
  BY MarkIsWays, OnwardAssert
<1>2. Onward(T, {Through}) = T
  BY <1>1, OnwardThrough
<1>3. \A U : Ending(U, {"value"}, "return") = {to(r) : r \in U}
  BY DEF Ending
<1>4. ASSUME NEW r \in S
      PROVE  to(Closed(Marked(r))) = Marked(to(r))
  <2>1. CASE r.out = "value"
    <3>1. Marked(r) = r /\ to(r) = Way(r.trace, "return")
      BY <2>1, MarkedIsWay
    <3>2. Closed(r) = Way(r.trace \o Asserted, "value")
      BY <2>1 DEF Closed
    <3>3. to(Way(r.trace \o Asserted, "value")) = Way(r.trace \o Asserted, "return")
      BY WaysAre
    <3>4. Marked(Way(r.trace, "return")) = Way(r.trace \o Asserted, "return")
      BY WaysAre DEF Marked
    <3> QED
      BY <3>1, <3>2, <3>3, <3>4
  <2>2. CASE r.out # "value"
    <3>1. Marked(r).out # "value"
      BY <2>2, MarkedIsWay
    <3> QED
      BY <2>2, <3>1 DEF Closed
  <2> QED
    BY <2>1, <2>2
<1> HIDE DEF to, T
<1>5. Ending(Onward(T, {Through}), {"value"}, "return") = {to(r) : r \in T}
  BY <1>2, <1>3
<1>6. \A x : x \in {to(r) : r \in T} <=> \E r \in S : x = to(Closed(Marked(r)))
  BY <1>1 DEF Mark
<1>7. \A x : x \in Mark(Ending(S, {"value"}, "return")) <=> \E r \in S : x = Marked(to(r))
  BY <1>3 DEF Mark
<1>8. Ending(Onward(T, {Through}), {"value"}, "return") = Mark(Ending(S, {"value"}, "return"))
  BY <1>4, <1>5, <1>6, <1>7
<1> QED
  BY <1>8 DEF T

LEMMA EachIs ==
  ASSUME NEW T, NEW s \in Seq(T), NEW rw, \A c \in T : rw[c] \in T
  PROVE  /\ Each(s, rw) \in Seq(T)
         /\ Len(Each(s, rw)) = Len(s)
         /\ \A j \in 1..Len(s) : Each(s, rw)[j] = rw[s[j]]
<1>1. Len(s) \in Nat /\ DOMAIN s = 1..Len(s) /\ \A j \in 1..Len(s) : rw[s[j]] \in T
  BY Statements
<1>2. Each(s, rw) = [j \in 1..Len(s) |-> rw[s[j]]]
  BY <1>1 DEF Each
<1> QED
  BY <1>1, <1>2

LEMMA RewriteKinds ==
  ASSUME NEW e, NEW rw
  PROVE  /\ e.k = "return" => RewriteOf(e, rw) = Return(Each(e.e, rw) \o <<Assertion, Value>>)
         /\ e.k \in {"try", "loop", "block"} => RewriteOf(e, rw) = [k |-> e.k, e |-> Each(e.e, rw)]
         /\ e.k = "if" => RewriteOf(e, rw) = If(Each(e.a, rw), Each(e.b, rw))
         /\ e.k \notin {"return", "try", "loop", "block", "if"} => RewriteOf(e, rw) = e
BY DEF RewriteOf, Asserting

LEMMA Pairs ==
  ASSUME NEW T, NEW x \in T, NEW y \in T
  PROVE  <<x, y>> \in Seq(T) /\ Len(<<x, y>>) = 2 /\ <<x>> \in Seq(T) /\ Len(<<x>>) = 1
OBVIOUS

LEMMA Guarded ==
  ASSUME NEW h \in 1..Height, NEW s \in Seq(Trees[h - 1])
  PROVE  /\ s \o <<Assertion, Value>> \in Seq(Trees[h - 1])
         /\ Len(s \o <<Assertion, Value>>) = Len(s) + 2
         /\ \A j \in 1..(Len(s) + 2) :
              (s \o <<Assertion, Value>>)[j] =
                IF j <= Len(s) THEN s[j] ELSE IF j = Len(s) + 1 THEN Assertion ELSE Value
<1>1. Assertion \in Trees[h - 1] /\ Value \in Trees[h - 1]
  <2>1. h - 1 \in 0..Height
    BY Heights
  <2> QED
    BY <2>1, LeavesAreTrees DEF Leaves
<1>2. <<Assertion, Value>> \in Seq(Trees[h - 1]) /\ Len(<<Assertion, Value>>) = 2
  BY <1>1, Pairs
<1>3. Len(s) \in Nat
  BY Statements
<1>4. /\ s \o <<Assertion, Value>> \in Seq(Trees[h - 1])
      /\ Len(s \o <<Assertion, Value>>) = Len(s) + 2
      /\ \A j \in 1..(Len(s) + 2) :
           (s \o <<Assertion, Value>>)[j] = IF j <= Len(s) THEN s[j] ELSE <<Assertion, Value>>[j - Len(s)]
  BY <1>2, ConcatProperties
<1>5. \A j \in 1..(Len(s) + 2) :
        ~(j <= Len(s)) => <<Assertion, Value>>[j - Len(s)] = IF j = Len(s) + 1 THEN Assertion ELSE Value
  BY <1>3
<1> QED
  BY <1>4, <1>5

LEMMA RewritesAreTrees ==
  \A h \in 0..Height : \A e \in Trees[h] : Rewrites[h][e] \in Trees[h]
<1> DEFINE S == {h \in Nat : h <= Height => \A e \in Trees[h] : Rewrites[h][e] \in Trees[h]}
<1>1. ASSUME NEW h \in Nat, \A k \in 0..(h - 1) : k \in S
      PROVE  h \in S
  <2> SUFFICES ASSUME h <= Height, NEW e \in Trees[h] PROVE Rewrites[h][e] \in Trees[h]
    OBVIOUS
  <2>1. CASE h = 0
    BY <2>1, TreesAre, RewritesAre
  <2>2. CASE h # 0
    <3>1. h \in 1..Height /\ h - 1 \in 0..(h - 1) /\ h - 1 <= Height
      BY <2>2, Heights
    <3> DEFINE rw == Rewrites[h - 1]
    <3>2. Rewrites[h][e] = RewriteOf(e, rw)
      BY <3>1, RewritesAre
    <3>3. \A c \in Trees[h - 1] : rw[c] \in Trees[h - 1]
      BY <1>1, <3>1
    <3> HIDE DEF rw
    <3>4. \A s \in Seq(Trees[h - 1]) : Each(s, rw) \in Seq(Trees[h - 1])
      BY <3>3, EachIs
    <3>5. CASE e.k = "return" /\ e.e \in Seq(Trees[h - 1])
      <4>1. Each(e.e, rw) \o <<Assertion, Value>> \in Seq(Trees[h - 1])
        BY <3>1, <3>4, <3>5, Guarded
      <4>2. RewriteOf(e, rw) = [k |-> "return", e |-> Each(e.e, rw) \o <<Assertion, Value>>]
        BY <3>5, RewriteKinds DEF Return
      <4> QED
        BY <3>1, <3>2, <4>1, <4>2, TreesMade DEF Plain
    <3>6. CASE e.k \in {"try", "loop", "block"} /\ e.e \in Seq(Trees[h - 1])
      <4>1. RewriteOf(e, rw) = [k |-> e.k, e |-> Each(e.e, rw)]
        BY <3>6, RewriteKinds
      <4> QED
        BY <3>1, <3>2, <3>4, <3>6, <4>1, TreesMade DEF Plain
    <3>7. CASE e.k = "if" /\ e.a \in Seq(Trees[h - 1]) /\ e.b \in Seq(Trees[h - 1])
      <4>1. RewriteOf(e, rw) = If(Each(e.a, rw), Each(e.b, rw))
        BY <3>7, RewriteKinds
      <4> QED
        BY <3>1, <3>2, <3>4, <3>7, <4>1, TreesMade
    <3>8. CASE e.k \notin {"return", "try", "loop", "block", "if"}
      BY <3>2, <3>8, RewriteKinds
    <3>9. e \in Leaves => e.k \notin {"return", "try", "loop", "block", "if"}
      BY DEF Leaves, Value, Work, Assertion
    <3> QED
      BY <3>1, <3>5, <3>6, <3>7, <3>8, <3>9, TreeKinds DEF Plain
  <2> QED
    BY <2>1, <2>2
<1> HIDE DEF S
<1>2. Nat \subseteq S
  BY <1>1, SmallerFirst
<1> QED
  BY <1>2, Heights DEF S

\* What a visit does not enter.
Opaque == {"inner", "closure", "macro"}
Visited(h, e) == AllParts(Opaque)[h][e]
Refused(m) == m.k = "macro" /\ m.written /\ ReturnToken(m)

(* The rewriting leaves macro calls alone and adds none.                   *)
LEMMA MacrosKept ==
  \A h \in 0..Height : \A e \in Trees[h] :
    \A m \in Visited(h, Rewrites[h][e]) : m.k = "macro" => m \in Visited(h, e)
<1> DEFINE Kept(h, e) == \A m \in Visited(h, Rewrites[h][e]) : m.k = "macro" => m \in Visited(h, e)
           S == {h \in Nat : h <= Height => \A e \in Trees[h] : Kept(h, e)}
<1>1. ASSUME NEW h \in Nat, \A k \in 0..(h - 1) : k \in S
      PROVE  h \in S
  <2> SUFFICES ASSUME h <= Height, NEW e \in Trees[h] PROVE Kept(h, e)
    OBVIOUS
  <2>1. CASE h = 0
    <3>1. e \in Leaves /\ Rewrites[0][e] = e
      BY <2>1, TreesAre, RewritesAre
    <3> QED
      BY <2>1, <3>1
  <2>2. CASE h # 0
    <3>1. h \in 1..Height /\ h - 1 \in 0..(h - 1) /\ h - 1 <= Height /\ h - 1 \in 0..Height
      BY <2>2, Heights
    <3> DEFINE rw == Rewrites[h - 1]
               f == Rewrites[h][e]
    <3>2. f = RewriteOf(e, rw) /\ f \in Trees[h]
      BY <3>1, RewritesAre, RewritesAreTrees
    <3>3. \A c \in Trees[h - 1] : rw[c] \in Trees[h - 1]
      BY <3>1, RewritesAreTrees
    <3>4. \A c \in Trees[h - 1] : Kept(h - 1, c)
      BY <1>1, <3>1
    <3>5. \A c \in Trees[h - 1] : \A m \in Visited(h - 1, rw[c]) : m.k = "macro" => m \in Visited(h - 1, c)
      BY <3>4
    <3> HIDE DEF rw, f
    <3>6. \A t \in Trees[h] : Visited(h, t) = PartsOf(t, Opaque, AllParts(Opaque)[h - 1])
      BY <3>1, PartsAre DEF Visited
    <3>7. \A x \in Leaves : Visited(h - 1, x) = {x} /\ x.k # "macro"
      BY <3>1, LeafParts DEF Visited, Leaves, Value, Work, Assertion
    <3>8. ASSUME NEW s \in Seq(Trees[h - 1])
          PROVE  /\ Each(s, rw) \in Seq(Trees[h - 1])
                 /\ Len(Each(s, rw)) = Len(s) /\ Len(s) \in Nat
                 /\ DOMAIN s = 1..Len(s) /\ DOMAIN Each(s, rw) = 1..Len(s)
                 /\ \A j \in 1..Len(s) : Each(s, rw)[j] = rw[s[j]] /\ s[j] \in Trees[h - 1]
      BY <3>3, EachIs, Statements
    <3>9. ASSUME e.k \notin Opaque, f.k # "macro",
                 \A d \in Children(f) : d \in Leaves \/ \E c \in Children(e) : d = rw[c]
          PROVE  \A m \in Visited(h, f) : m.k = "macro" => m \in Visited(h, e)
      <4> SUFFICES ASSUME NEW m \in Visited(h, f), m.k = "macro" PROVE m \in Visited(h, e)
        OBVIOUS
      <4>1. PICK d \in Children(f) : m \in Visited(h - 1, d)
        BY <3>2, <3>6, <3>9 DEF PartsOf, Visited
      <4>2. d \notin Leaves
        BY <3>7, <4>1
      <4>3. PICK c \in Children(e) : d = rw[c]
        BY <3>9, <4>2
      <4>4. c \in Trees[h - 1]
        BY <3>1, ChildrenBelow
      <4>5. m \in Visited(h - 1, c)
        BY <3>5, <4>1, <4>3, <4>4
      <4>6. Visited(h, e) = {e} \cup UNION {Visited(h - 1, x) : x \in Children(e)}
        BY <3>6, <3>9 DEF PartsOf, Visited
      <4> QED
        BY <4>5, <4>6
    <3>10. CASE e.k = "return" /\ e.e \in Seq(Trees[h - 1])
      <4> DEFINE g == Each(e.e, rw) \o <<Assertion, Value>>
      <4>1. f = [k |-> "return", e |-> g]
        BY <3>2, <3>10, RewriteKinds DEF Return
      <4>2. /\ g \in Seq(Trees[h - 1]) /\ Len(g) = Len(e.e) + 2
            /\ \A j \in 1..(Len(e.e) + 2) :
                 g[j] = IF j <= Len(e.e) THEN Each(e.e, rw)[j] ELSE IF j = Len(e.e) + 1 THEN Assertion ELSE Value
        <5> DEFINE q == Each(e.e, rw)
        <5>1. q \in Seq(Trees[h - 1]) /\ Len(q) = Len(e.e)
          BY <3>8, <3>10
        <5> HIDE DEF q
        <5>2. /\ q \o <<Assertion, Value>> \in Seq(Trees[h - 1])
              /\ Len(q \o <<Assertion, Value>>) = Len(q) + 2
              /\ \A j \in 1..(Len(q) + 2) :
                   (q \o <<Assertion, Value>>)[j] =
                     IF j <= Len(q) THEN q[j] ELSE IF j = Len(q) + 1 THEN Assertion ELSE Value
          BY <3>1, <5>1, Guarded
        <5>3. g = q \o <<Assertion, Value>>
          BY DEF q
        <5> HIDE DEF g
        <5>4. /\ g \in Seq(Trees[h - 1]) /\ Len(g) = Len(e.e) + 2
              /\ \A j \in 1..(Len(e.e) + 2) :
                   g[j] = IF j <= Len(e.e) THEN q[j] ELSE IF j = Len(e.e) + 1 THEN Assertion ELSE Value
          BY <5>1, <5>2, <5>3
        <5> QED
          BY <5>4 DEF q
      <4> HIDE DEF g
      <4>3. DOMAIN g = 1..(Len(e.e) + 2)
        BY <4>2, Statements
      <4>4. ASSUME NEW j \in DOMAIN g
            PROVE  g[j] \in Leaves \/ \E c \in Children(e) : g[j] = rw[c]
        <5>1. CASE j <= Len(e.e)
          <6>1. j \in 1..Len(e.e) /\ j \in DOMAIN e.e
            BY <3>8, <3>10, <4>3, <5>1
          <6>2. g[j] = rw[e.e[j]]
            BY <3>8, <3>10, <4>2, <4>3, <5>1, <6>1
          <6>3. e.e[j] \in Children(e)
            BY <3>10, <6>1, ChildrenAre DEF Plain
          <6> QED
            BY <6>2, <6>3
        <5>2. CASE ~(j <= Len(e.e))
          BY <4>2, <4>3, <5>2 DEF Leaves
        <5> QED
          BY <5>1, <5>2
      <4>5. f.k = "return" /\ f.e = g /\ Children(f) = {g[j] : j \in DOMAIN g}
        BY <4>1, ChildrenAre DEF Plain
      <4> QED
        BY <3>9, <3>10, <4>4, <4>5 DEF Opaque, f
    <3>11. CASE e.k \in {"try", "loop", "block"} /\ e.e \in Seq(Trees[h - 1])
      <4>1. f = [k |-> e.k, e |-> Each(e.e, rw)]
        BY <3>2, <3>11, RewriteKinds
      <4>2. f.k = e.k /\ f.e = Each(e.e, rw)
        BY <4>1
      <4>3. Children(f) = {f.e[j] : j \in DOMAIN f.e} /\ Children(e) = {e.e[j] : j \in DOMAIN e.e}
        BY <3>11, <4>2, ChildrenAre DEF Plain
      <4>4. \A d \in Children(f) : \E c \in Children(e) : d = rw[c]
        BY <3>8, <3>11, <4>2, <4>3
      <4> QED
        BY <3>9, <3>11, <4>2, <4>4 DEF Opaque, f
    <3>12. CASE e.k = "if" /\ e.a \in Seq(Trees[h - 1]) /\ e.b \in Seq(Trees[h - 1])
      <4>1. f = If(Each(e.a, rw), Each(e.b, rw))
        BY <3>2, <3>12, RewriteKinds
      <4>2. f.k = "if" /\ f.a = Each(e.a, rw) /\ f.b = Each(e.b, rw)
        BY <4>1 DEF If
      <4>3. /\ Children(f) = {f.a[j] : j \in DOMAIN f.a} \cup {f.b[j] : j \in DOMAIN f.b}
            /\ Children(e) = {e.a[j] : j \in DOMAIN e.a} \cup {e.b[j] : j \in DOMAIN e.b}
        BY <3>12, <4>2, ChildrenAre
      <4>4. ASSUME NEW d \in Children(f)
            PROVE  \E c \in Children(e) : d = rw[c]
        <5>1. CASE \E j \in DOMAIN f.a : d = f.a[j]
          <6>1. PICK j \in DOMAIN f.a : d = f.a[j]
            BY <5>1
          <6>2. j \in DOMAIN e.a /\ f.a[j] = rw[e.a[j]]
            BY <3>8, <3>12, <4>2
          <6>3. e.a[j] \in Children(e)
            BY <4>3, <6>2
          <6> QED
            BY <6>1, <6>2, <6>3
        <5>2. CASE \E j \in DOMAIN f.b : d = f.b[j]
          <6>1. PICK j \in DOMAIN f.b : d = f.b[j]
            BY <5>2
          <6>2. j \in DOMAIN e.b /\ f.b[j] = rw[e.b[j]]
            BY <3>8, <3>12, <4>2
          <6>3. e.b[j] \in Children(e)
            BY <4>3, <6>2
          <6> QED
            BY <6>1, <6>2, <6>3
        <5> QED
          BY <4>3, <5>1, <5>2
      <4> QED
        BY <3>9, <3>12, <4>2, <4>4 DEF Opaque, f
    <3>13. CASE e.k \notin {"return", "try", "loop", "block", "if"}
      BY <3>2, <3>13, RewriteKinds DEF f
    <3>14. e \in Leaves => e.k \notin {"return", "try", "loop", "block", "if"}
      BY DEF Leaves, Value, Work, Assertion
    <3> QED
      BY <3>1, <3>10, <3>11, <3>12, <3>13, <3>14, TreeKinds DEF Plain
  <2> QED
    BY <2>1, <2>2
<1> HIDE DEF S
<1>2. Nat \subseteq S
  BY <1>1, SmallerFirst
<1> QED
  BY <1>2, Heights DEF S

LEMMA RewriteRuns ==
  \A h \in 0..Height : \A e \in Trees[h] :
    (\A m \in Visited(h, e) : ~ Refused(m)) => Runs[h][Rewrites[h][e]] = Mark(Runs[h][e])
<1> DEFINE Good(h, e) == (\A m \in Visited(h, e) : ~ Refused(m)) => Runs[h][Rewrites[h][e]] = Mark(Runs[h][e])
           S == {h \in Nat : h <= Height => \A e \in Trees[h] : Good(h, e)}
<1>1. ASSUME NEW h \in Nat, \A k \in 0..(h - 1) : k \in S
      PROVE  h \in S
  <2> SUFFICES ASSUME h <= Height, NEW e \in Trees[h], \A m \in Visited(h, e) : ~ Refused(m)
               PROVE  Runs[h][Rewrites[h][e]] = Mark(Runs[h][e])
    OBVIOUS
  <2>1. CASE h = 0
    <3>1. e \in Leaves /\ Rewrites[0][e] = e /\ Runs[0][e] = RunsOf(e, <<>>)
      BY <2>1, TreesAre, RewritesAre, RunsAre
    <3>2. Mark(RunsOf(e, <<>>)) = RunsOf(e, <<>>)
      BY <3>1, LeavesAreQuiet, MarkQuiet
    <3> QED
      BY <2>1, <3>1, <3>2
  <2>2. CASE h # 0
    <3>1. h \in 1..Height /\ h - 1 \in 0..(h - 1) /\ h - 1 <= Height /\ h - 1 \in 0..Height
      BY <2>2, Heights
    <3> DEFINE rw == Rewrites[h - 1]
               ev == Runs[h - 1]
               f == Rewrites[h][e]
    <3>2. f = RewriteOf(e, rw) /\ f \in Trees[h]
      BY <3>1, RewritesAre, RewritesAreTrees
    <3>3. Runs[h][e] = RunsOf(e, ev) /\ Runs[h][f] = RunsOf(f, ev)
      BY <3>1, <3>2, RunsAre
    <3>4. \A c \in Trees[h - 1] : rw[c] \in Trees[h - 1] /\ ev[c] \subseteq Ways
      BY <3>1, RewritesAreTrees, RunsAreWays
    <3>5. \A c \in Trees[h - 1] : (\A m \in Visited(h - 1, c) : ~ Refused(m)) => ev[rw[c]] = Mark(ev[c])
      BY <1>1, <3>1
    <3>6. ev[Value] = {Through} /\ ev[Assertion] = {Way(Asserted, "value")}
      BY <3>1, LeavesRun
    <3>7. Value \in Trees[h - 1] /\ Assertion \in Trees[h - 1]
      BY <3>1, LeavesAreTrees DEF Leaves
    <3> HIDE DEF rw, ev, f
    <3>8. Visited(h, e) = {e} \cup IF e.k \in Opaque THEN {} ELSE UNION {Visited(h - 1, c) : c \in Children(e)}
      BY <3>1, PartsAre DEF Visited, PartsOf
    <3>9. ASSUME e.k \notin Opaque
          PROVE  \A c \in Children(e) : ev[rw[c]] = Mark(ev[c])
      <4>1. \A c \in Children(e) : \A m \in Visited(h - 1, c) : ~ Refused(m)
        BY <3>8, <3>9
      <4> QED
        BY <3>1, <3>5, <4>1, ChildrenBelow
    <3>10. ASSUME e.k \notin Opaque, NEW s \in Seq(Trees[h - 1]), {s[j] : j \in DOMAIN s} \subseteq Children(e)
           PROVE  /\ InOrder(s, ev) \in SUBSET Ways
                  /\ InOrder(Each(s, rw), ev) = Mark(InOrder(s, ev))
      <4>1. Len(s) \in Nat /\ DOMAIN s = 1..Len(s) /\ Len(Each(s, rw)) = Len(s)
            /\ \A j \in 1..Len(s) : s[j] \in Trees[h - 1] /\ Each(s, rw)[j] = rw[s[j]]
        BY <3>4, Statements, EachIs
      <4>2. MarkedAlike(s, ev, Each(s, rw), ev, Len(s))
        BY <3>4, <3>9, <3>10, <4>1 DEF MarkedAlike
      <4> QED
        BY <4>1, <4>2, WalksMarked
    <3>11. ASSUME Runs[h][f] = Runs[h][e], Runs[h][e] \subseteq Quiet
           PROVE  Runs[h][f] = Mark(Runs[h][e])
      BY <3>11, MarkQuiet
    <3>12. CASE e.k = "return" /\ e.e \in Seq(Trees[h - 1])
      <4> DEFINE I == InOrder(e.e, ev)
                 q == Each(e.e, rw)
      <4>1. I \in SUBSET Ways /\ InOrder(q, ev) = Mark(I)
        BY <3>10, <3>12, ChildrenAre DEF Plain, Opaque
      <4>2. q \in Seq(Trees[h - 1])
        BY <3>4, <3>12, EachIs
      <4>3. f.k = "return" /\ f.e = q \o <<Assertion, Value>>
        BY <3>2, <3>12, RewriteKinds DEF Return
      <4>4. RunsOf(e, ev) = Ending(I, {"value"}, "return")
        BY <3>12, RunsOfKinds
      <4> HIDE DEF I, q
      <4>5. RunsOf(f, ev) = Ending(InOrder(q \o <<Assertion, Value>>, ev), {"value"}, "return")
        BY <4>3, RunsOfKinds
      <4>6. InOrder(q \o <<Assertion, Value>>, ev) = Onward(Onward(InOrder(q, ev), ev[Assertion]), ev[Value])
        BY <3>7, <4>2, InOrderTwo
      <4>7. InOrder(q \o <<Assertion, Value>>, ev) = Onward(Onward(Mark(I), {Way(Asserted, "value")}), {Through})
        BY <3>6, <4>1, <4>6
      <4>8. Ending(Onward(Onward(Mark(I), {Way(Asserted, "value")}), {Through}), {"value"}, "return")
              = Mark(Ending(I, {"value"}, "return"))
        BY <4>1, MarkReturn
      <4>9. RunsOf(f, ev) = Mark(RunsOf(e, ev))
        BY <4>4, <4>5, <4>7, <4>8
      <4> QED
        BY <3>3, <4>9 DEF f
    <3>13. CASE e.k \in {"try", "loop", "block"} /\ e.e \in Seq(Trees[h - 1])
      <4> DEFINE I == InOrder(e.e, ev)
                 J == InOrder(Each(e.e, rw), ev)
      <4>1. I \in SUBSET Ways /\ J = Mark(I)
        BY <3>10, <3>13, ChildrenAre DEF Plain, Opaque
      <4>2. f.k = e.k /\ f.e = Each(e.e, rw)
        BY <3>2, <3>13, RewriteKinds
      <4>3. CASE e.k = "try"
        <5>1. RunsOf(e, ev) = I \cup Ending(I, {"value"}, "error")
          BY <4>3, RunsOfKinds
        <5>2. RunsOf(f, ev) = J \cup Ending(J, {"value"}, "error")
          BY <4>2, <4>3, RunsOfKinds
        <5> HIDE DEF I, J
        <5>3. Mark(I \cup Ending(I, {"value"}, "error")) = Mark(I) \cup Mark(Ending(I, {"value"}, "error"))
          BY DEF Mark
        <5>4. RunsOf(f, ev) = Mark(RunsOf(e, ev))
          BY <4>1, <5>1, <5>2, <5>3, MarkError
        <5> QED
          BY <3>3, <5>4 DEF f
      <4>4. CASE e.k = "loop"
        <5>1. RunsOf(e, ev) = Repeated(I) /\ RunsOf(f, ev) = Repeated(J)
          BY <4>2, <4>4, RunsOfKinds
        <5> HIDE DEF I, J
        <5>2. RunsOf(f, ev) = Mark(RunsOf(e, ev))
          BY <4>1, <5>1, MarkRepeated
        <5> QED
          BY <3>3, <5>2 DEF f
      <4>5. CASE e.k = "block"
        <5>1. RunsOf(e, ev) = I /\ RunsOf(f, ev) = J
          BY <4>2, <4>5, RunsOfKinds
        <5> HIDE DEF I, J
        <5> QED
          BY <3>3, <4>1, <5>1 DEF f
      <4> QED
        BY <3>13, <4>3, <4>4, <4>5
    <3>14. CASE e.k = "if" /\ e.a \in Seq(Trees[h - 1]) /\ e.b \in Seq(Trees[h - 1])
      <4>1. f.k = "if" /\ f.a = Each(e.a, rw) /\ f.b = Each(e.b, rw)
        BY <3>2, <3>14, RewriteKinds DEF If
      <4>2. RunsOf(e, ev) = InOrder(e.a, ev) \cup InOrder(e.b, ev)
        BY <3>14, RunsOfKinds
      <4>3. RunsOf(f, ev) = InOrder(f.a, ev) \cup InOrder(f.b, ev)
        BY <4>1, RunsOfKinds
      <4>4. {e.a[j] : j \in DOMAIN e.a} \subseteq Children(e) /\ {e.b[j] : j \in DOMAIN e.b} \subseteq Children(e)
        BY <3>14, ChildrenAre
      <4>5. InOrder(f.a, ev) = Mark(InOrder(e.a, ev)) /\ InOrder(f.b, ev) = Mark(InOrder(e.b, ev))
        BY <3>10, <3>14, <4>1, <4>4 DEF Opaque
      <4>6. RunsOf(f, ev) = Mark(RunsOf(e, ev))
        BY <4>2, <4>3, <4>5 DEF Mark
      <4> QED
        BY <3>3, <4>6 DEF f
    <3>15. CASE e \in Leaves
      <4>1. f = e
        BY <3>2, <3>15, RewriteKinds DEF Leaves, Value, Work, Assertion
      <4>2. Runs[h][e] \subseteq Quiet
        BY <3>3, <3>15, LeavesAreQuiet
      <4> QED
        BY <3>11, <4>1, <4>2 DEF f
    <3>16. CASE e.k = "closure"
      <4>1. f = e
        BY <3>2, <3>16, RewriteKinds
      <4>2. Runs[h][e] = {Through}
        BY <3>3, <3>16, RunsOfKinds
      <4> QED
        BY <3>11, <4>1, <4>2, ThroughIsQuiet DEF f
    <3>17. CASE e.k = "inner" /\ e.e \in Seq(Trees[h - 1])
      <4>1. f = e
        BY <3>2, <3>17, RewriteKinds
      <4>2. Runs[h][e] = Ending(InOrder(e.e, ev), {"return", "error", "hidden"}, "value")
        BY <3>3, <3>17, RunsOfKinds
      <4>3. InOrder(e.e, ev) \in SUBSET Ways
        BY <3>4, <3>17, Statements, WalksAreWays
      <4>4. Runs[h][e] \subseteq Quiet
        BY <4>2, <4>3, EndingIsQuiet DEF Outs
      <4> QED
        BY <3>11, <4>1, <4>4 DEF f
    <3>18. CASE e.k = "macro" /\ e.e \in Seq(Trees[h - 1]) /\ e.written \in BOOLEAN
      <4>1. f = e
        BY <3>2, <3>18, RewriteKinds
      <4>2. InOrder(e.e, ev) \in SUBSET Ways
        BY <3>4, <3>18, Statements, WalksAreWays
      <4>3. CASE e.written
        <5>1. e \in Visited(h, e)
          BY <3>8
        <5>2. ~ ReturnToken(e)
          BY <3>18, <4>3, <5>1 DEF Refused
        <5>3. \A j \in DOMAIN e.e : \A r \in AllParts({})[h - 1][e.e[j]] : r.k # "return"
          BY <3>1, <3>18, <5>2, ReturnTokenIs
        <5>4. \A j \in 1..Len(e.e) : ev[e.e[j]] \subseteq Quiet
          BY <3>1, <3>18, <5>3, Statements, QuietParts DEF ev
        <5>5. InOrder(e.e, ev) \subseteq Quiet
          BY <3>18, <5>4, Statements, WalksWithin, AfterIsQuiet, ThroughIsQuiet
        <5>6. Runs[h][e] = InOrder(e.e, ev)
          BY <3>3, <3>18, <4>3, RunsOfKinds
        <5> QED
          BY <3>11, <4>1, <5>5, <5>6 DEF f
      <4>4. CASE ~ e.written
        <5>1. Runs[h][e] = Ending(InOrder(e.e, ev), {"return"}, "hidden")
          BY <3>3, <3>18, <4>4, RunsOfKinds
        <5>2. Runs[h][e] \subseteq Quiet
          BY <4>2, <5>1, EndingIsQuiet DEF Outs
        <5> QED
          BY <3>11, <4>1, <5>2 DEF f
      <4> QED
        BY <4>3, <4>4
    <3> QED
      BY <3>1, <3>12, <3>13, <3>14, <3>15, <3>16, <3>17, <3>18, TreeKinds DEF Plain
  <2> QED
    BY <2>1, <2>2
<1> HIDE DEF S
<1>2. Nat \subseteq S
  BY <1>1, SmallerFirst
<1> QED
  BY <1>2, Heights DEF S

----------------------------------------------------------------------------
(* What an attribute makes of a body.                                      *)

LEMMA PreludeIs ==
  /\ Prelude \in Trees[Height]
  /\ Runs[Height][Prelude] = {Through}
  /\ Visited(Height, Prelude) = {Prelude}
  /\ Prelude.k = "closure"
<1>1. 0 \in 0..Height /\ 1 \in 1..Height /\ 2 \in 1..Height /\ 2 \in 0..Height /\ 1 - 1 = 0 /\ 2 - 1 = 1
      /\ Height \in 1..Height
  BY Heights
<1>2. <<Value>> \in Seq(Trees[0])
  <2>1. Value \in Trees[0]
    BY <1>1, LeavesAreTrees DEF Leaves
  <2> QED
    BY <2>1, Pairs
<1>3. Return(<<Value>>) \in Trees[1] /\ Macro(<<Value>>, TRUE) \in Trees[1]
  BY <1>1, <1>2, TreesMade DEF Return, Plain
<1>4. <<Return(<<Value>>), Macro(<<Value>>, TRUE)>> \in Seq(Trees[1])
  BY <1>3, Pairs
<1>5. Prelude \in Trees[2]
  BY <1>1, <1>4, TreesMade DEF Prelude, Plain
<1>6. Prelude \in Trees[Height]
  BY <1>1, <1>5, PartsSettle
<1>7. Prelude.k = "closure"
  BY DEF Prelude
<1>8. Runs[Height][Prelude] = {Through}
  <2>1. Runs[Height][Prelude] = RunsOf(Prelude, Runs[Height - 1])
    BY <1>1, <1>6, RunsAre
  <2>2. RunsOf(Prelude, Runs[Height - 1]) = {Through}
    BY <1>7, RunsOfKinds
  <2> QED
    BY <2>1, <2>2
<1>9. Visited(Height, Prelude) = PartsOf(Prelude, Opaque, AllParts(Opaque)[Height - 1])
  BY <1>1, <1>6, PartsAre DEF Visited
<1>10. Visited(Height, Prelude) = {Prelude}
  BY <1>7, <1>9 DEF PartsOf, Opaque
<1> QED
  BY <1>6, <1>7, <1>8, <1>10

LEMMA MacroReturnIs ==
  ASSUME NEW stmts
  PROVE  MacroReturn(stmts) <=> \E j \in DOMAIN stmts : \E m \in Visited(Height, stmts[j]) : Refused(m)
<1>1. Parts(stmts, Opaque) = UNION {AllParts(Opaque)[Height][stmts[j]] : j \in DOMAIN stmts}
  BY PartsAre
<1> QED
  BY <1>1 DEF MacroReturn, Opaque, Refused, Visited

LEMMA WithAssertsIs ==
  ASSUME NEW r \in Ways
  PROVE  /\ WithAsserts(r, 1) = Closed(Marked(r))
         /\ WithAsserts(r, 0) = r
         /\ \A n \in Nat : WithAsserts(WithAsserts(r, n), 1) = WithAsserts(r, n + 1)
<1> DEFINE A(n) == [j \in 1 .. n |-> "assert"]
<1>1. A(1) = Asserted
  BY DEF Asserted
<1>2. A(0) = <<>>
  OBVIOUS
<1>3. \A n \in Nat : A(n) \in Seq({"work", "assert"})
  OBVIOUS
<1>4. ASSUME NEW n \in Nat
      PROVE  A(n) \o Asserted = A(n + 1)
  BY DEF Asserted
<1>5. \A q : \A n : WithAsserts(q, n) = IF q.out \in {"value", "return"} THEN Way(q.trace \o A(n), q.out) ELSE q
  BY DEF WithAsserts
<1> HIDE DEF A
<1>6. WithAsserts(r, 1) = Closed(Marked(r))
  BY <1>1, <1>5, WaysAre DEF Closed, Marked
<1>7. WithAsserts(r, 0) = r
  BY <1>2, <1>5, WaysMade, ConcatEmptySeq
<1>8. ASSUME NEW n \in Nat
      PROVE  WithAsserts(WithAsserts(r, n), 1) = WithAsserts(r, n + 1)
  <2>1. CASE r.out \in {"value", "return"}
    <3>1. WithAsserts(r, n) = Way(r.trace \o A(n), r.out)
      BY <1>5, <2>1
    <3>2. WithAsserts(WithAsserts(r, n), 1) = Way((r.trace \o A(n)) \o Asserted, r.out)
      BY <1>1, <1>5, <2>1, <3>1, WaysAre
    <3>3. (r.trace \o A(n)) \o Asserted = r.trace \o (A(n) \o Asserted)
      BY <1>3, WaysMade, AssertedIsTrace, Associates, ZenonT(30)
    <3>4. WithAsserts(r, n + 1) = Way(r.trace \o A(n + 1), r.out)
      BY <1>5, <2>1
    <3> QED
      BY <1>4, <3>2, <3>3, <3>4
  <2>2. CASE r.out \notin {"value", "return"}
    BY <1>5, <2>2
  <2> QED
    BY <2>1, <2>2
<1> QED
  BY <1>6, <1>7, <1>8

LEMMA BodiesAre ==
  ASSUME NEW b \in Bodies
  PROVE  b.stmts \in Seq(Trees[Height]) /\ b.tail \in BOOLEAN /\ Eval(b.stmts) \in SUBSET Ways
<1>1. b.stmts \in Seq(Trees[Height]) /\ b.tail \in BOOLEAN
  BY DEF Bodies
<1>2. Height \in 0..Height
  BY Heights
<1>3. Eval(b.stmts) \subseteq Ways
  BY <1>1, <1>2, Statements, RunsAreWays, WalksAreWays DEF Eval
<1> QED
  BY <1>1, <1>3

(* What is emitted: a body again, with one assertion more on what ends with *)
(* a value or a return, and with nothing in it that a later attribute would *)
(* refuse.                                                                 *)
LEMMA Instrumented ==
  ASSUME NEW b \in Bodies, ~ MacroReturn(b.stmts)
  PROVE  /\ Instrument(b) \in Bodies
         /\ Eval(Instrument(b).stmts) = {WithAsserts(r, 1) : r \in Eval(b.stmts)}
         /\ ~ MacroReturn(Instrument(b).stmts)
         /\ ~ EndsIn(Instrument(b), {"return"})
<1> DEFINE T == Trees[Height]
           ev == Runs[Height]
           rw == Rewrites[Height]
           s == b.stmts
           q == Rewrite(s)
           l == <<Prelude>> \o q
           tail == b.tail /\ b.stmts # <<>> /\ ~ EndsIn(b, {"return"})
           out == IF tail THEN l \o <<Assertion, Value>> ELSE l \o <<Assertion>>
           n == Len(s)
<1>1. Height \in 0..Height /\ Height \in 1..Height
  BY Heights
<1>2. s \in Seq(T) /\ Eval(s) \in SUBSET Ways /\ Eval(s) = InOrder(s, ev)
  BY BodiesAre DEF Eval
<1>3. Instrument(b) = [stmts |-> out, tail |-> TRUE]
  BY DEF Instrument
<1>4. Prelude \in T /\ Assertion \in T /\ Value \in T
  BY <1>1, PreludeIs, LeavesAreTrees DEF Leaves
<1>5. \A c \in T : rw[c] \in T /\ ev[c] \subseteq Ways
  BY <1>1, RewritesAreTrees, RunsAreWays
<1>6. n \in Nat /\ DOMAIN s = 1..n /\ \A j \in 1..n : s[j] \in T
  BY <1>2, Statements
<1>7. q \in Seq(T) /\ Len(q) = n /\ \A j \in 1..n : q[j] = rw[s[j]]
  BY <1>2, <1>5, EachIs DEF Rewrite
<1>8. \A j \in 1..n : \A m \in Visited(Height, s[j]) : ~ Refused(m)
  BY <1>6, MacroReturnIs
<1>9. ev[Value] = {Through} /\ ev[Assertion] = {Way(Asserted, "value")} /\ ev[Prelude] = {Through}
  BY <1>1, LeavesRun, PreludeIs
<1>10. \A j \in 1..n : ev[q[j]] = Mark(ev[s[j]])
  BY <1>1, <1>6, <1>7, <1>8, RewriteRuns
<1>11. \A j \in 1..n : \A m \in Visited(Height, q[j]) : m.k = "macro" => m \in Visited(Height, s[j])
  BY <1>1, <1>6, <1>7, MacrosKept
<1> HIDE DEF T, ev, rw, q, s, n
<1>12. l \in Seq(T) /\ Len(l) = n + 1 /\ l[1] = Prelude /\ \A j \in 1..n : l[j + 1] = q[j]
  <2>1. <<Prelude>> \in Seq(T) /\ Len(<<Prelude>>) = 1 /\ <<Prelude>>[1] = Prelude
    BY <1>4, Pairs
  <2>2. l \in Seq(T) /\ Len(l) = 1 + n
        /\ \A j \in 1..(1 + n) : l[j] = IF j <= 1 THEN <<Prelude>>[j] ELSE q[j - 1]
    BY <1>7, <2>1, ConcatProperties
  <2>3. \A j \in 1..n : j + 1 \in 1..(1 + n) /\ ~(j + 1 <= 1) /\ (j + 1) - 1 = j
    BY <1>6
  <2> HIDE DEF l
  <2> QED
    BY <1>6, <2>1, <2>2, <2>3
<1>13. InOrder(l, ev) = Mark(Eval(s))
  <2>1. InOrder(l, ev) = InOrder(q, ev)
    BY <1>4, <1>7, <1>9, InOrderIdle
  <2>2. MarkedAlike(s, ev, q, ev, Len(s))
    BY <1>5, <1>6, <1>10 DEF MarkedAlike, n
  <2>3. InOrder(q, ev) = Mark(InOrder(s, ev))
    BY <1>6, <1>7, <2>2, WalksMarked DEF n
  <2> QED
    BY <1>2, <2>1, <2>3
<1> HIDE DEF l, tail
<1>14. PICK k \in {1, 2} :
         /\ out \in Seq(T) /\ Len(out) = n + 1 + k
         /\ \A j \in 1..(n + 1) : out[j] = l[j]
         /\ \A j \in (n + 2)..(n + 1 + k) : out[j] \in {Assertion, Value}
         /\ InOrder(out, ev) = Onward(Mark(Eval(s)), {Way(Asserted, "value")})
  <2>1. CASE tail
    <3>1. <<Assertion, Value>> \in Seq(T) /\ Len(<<Assertion, Value>>) = 2
          /\ <<Assertion, Value>>[1] = Assertion /\ <<Assertion, Value>>[2] = Value
      BY <1>4, Pairs
    <3>2. l \o <<Assertion, Value>> \in Seq(T) /\ Len(l \o <<Assertion, Value>>) = n + 1 + 2
          /\ \A j \in 1..(n + 1 + 2) : (l \o <<Assertion, Value>>)[j] =
                                        IF j <= n + 1 THEN l[j] ELSE <<Assertion, Value>>[j - (n + 1)]
      BY <1>12, <3>1, ConcatProperties
    <3>3. \A j \in (n + 2)..(n + 1 + 2) : <<Assertion, Value>>[j - (n + 1)] \in {Assertion, Value}
      BY <1>6, <3>1
    <3>4. InOrder(l \o <<Assertion, Value>>, ev) = Onward(Onward(InOrder(l, ev), ev[Assertion]), ev[Value])
      BY <1>4, <1>12, InOrderTwo
    <3>5. Onward(Mark(Eval(s)), {Way(Asserted, "value")}) \in SUBSET Ways
      BY <1>2, MarkIsWays, OnwardAssert
    <3>6. InOrder(l \o <<Assertion, Value>>, ev) = Onward(Mark(Eval(s)), {Way(Asserted, "value")})
      BY <1>9, <1>13, <3>4, <3>5, OnwardThrough
    <3>7. \A j \in 1..(n + 1) : (l \o <<Assertion, Value>>)[j] = l[j]
      BY <1>6, <3>2
    <3>8. \A j \in (n + 2)..(n + 1 + 2) : (l \o <<Assertion, Value>>)[j] \in {Assertion, Value}
      <4>1. \A j \in (n + 2)..(n + 1 + 2) : j \in 1..(n + 1 + 2) /\ ~(j <= n + 1)
        BY <1>6
      <4> QED
        BY <3>2, <3>3, <4>1
    <3> HIDE <3>1, <3>3, <3>4
    <3>9. out = l \o <<Assertion, Value>>
      BY <2>1
    <3> HIDE DEF out
    <3> QED
      BY <3>2, <3>6, <3>7, <3>8, <3>9
  <2>2. CASE ~ tail
    <3>1. <<Assertion>> \in Seq(T) /\ Len(<<Assertion>>) = 1 /\ <<Assertion>>[1] = Assertion
      BY <1>4, Pairs
    <3>2. l \o <<Assertion>> \in Seq(T) /\ Len(l \o <<Assertion>>) = n + 1 + 1
          /\ \A j \in 1..(n + 1 + 1) : (l \o <<Assertion>>)[j] =
                                        IF j <= n + 1 THEN l[j] ELSE <<Assertion>>[j - (n + 1)]
      BY <1>12, <3>1, ConcatProperties
    <3>3. \A j \in (n + 2)..(n + 1 + 1) : <<Assertion>>[j - (n + 1)] = Assertion
      BY <1>6, <3>1
    <3>4. InOrder(l \o <<Assertion>>, ev) = Onward(InOrder(l, ev), ev[Assertion])
      BY <1>4, <1>12, InOrderOne
    <3>5. InOrder(l \o <<Assertion>>, ev) = Onward(Mark(Eval(s)), {Way(Asserted, "value")})
      BY <1>9, <1>13, <3>4
    <3>6. \A j \in 1..(n + 1) : (l \o <<Assertion>>)[j] = l[j]
      BY <1>6, <3>2
    <3>7. \A j \in (n + 2)..(n + 1 + 1) : (l \o <<Assertion>>)[j] \in {Assertion, Value}
      <4>1. \A j \in (n + 2)..(n + 1 + 1) : j \in 1..(n + 1 + 1) /\ ~(j <= n + 1)
        BY <1>6
      <4> QED
        BY <3>2, <3>3, <4>1
    <3>8. out = l \o <<Assertion>>
      BY <2>2
    <3> HIDE DEF out
    <3> QED
      BY <3>2, <3>5, <3>6, <3>7, <3>8
  <2> QED
    BY <2>1, <2>2
<1> HIDE DEF out
<1>15. Instrument(b) \in Bodies
  BY <1>3, <1>14 DEF Bodies, T
<1>16. Eval(Instrument(b).stmts) = {WithAsserts(r, 1) : r \in Eval(b.stmts)}
  <2>1. Eval(Instrument(b).stmts) = InOrder(out, ev)
    BY <1>3 DEF Eval, ev
  <2>2. Mark(Eval(s)) \in SUBSET Ways
    BY <1>2, MarkIsWays
  <2>3. InOrder(out, ev) = {Closed(r) : r \in Mark(Eval(s))}
    BY <1>14, <2>2, OnwardAssert
  <2>4. \A r \in Eval(s) : WithAsserts(r, 1) = Closed(Marked(r))
    BY <1>2, WithAssertsIs
  <2>5. {Closed(r) : r \in Mark(Eval(s))} = {WithAsserts(r, 1) : r \in Eval(s)}
    BY <2>4 DEF Mark
  <2> QED
    BY <2>1, <2>3, <2>5 DEF s
<1>17. DOMAIN out = 1..(n + 1 + k) /\ n + 1 + k \in Nat
  BY <1>6, <1>14, Statements
<1>18. ~ MacroReturn(Instrument(b).stmts)
  <2> SUFFICES ASSUME NEW j \in DOMAIN out, NEW m \in Visited(Height, out[j]), Refused(m)
               PROVE  FALSE
    BY <1>3, MacroReturnIs
  <2>1. m.k = "macro"
    BY DEF Refused
  <2>2. CASE j = 1
    <3>1. out[j] = Prelude
      BY <1>6, <1>12, <1>14, <2>2
    <3> QED
      BY <2>1, <3>1, PreludeIs
  <2>3. CASE j # 1 /\ j <= n + 1
    <3>1. j - 1 \in 1..n /\ j \in 1..(n + 1) /\ (j - 1) + 1 = j
      BY <1>6, <1>17, <2>3
    <3>2. out[j] = q[j - 1]
      BY <1>12, <1>14, <3>1
    <3> QED
      BY <1>8, <1>11, <2>1, <3>1, <3>2
  <2>4. CASE ~(j <= n + 1)
    <3>1. j \in (n + 2)..(n + 1 + k)
      BY <1>6, <1>17, <2>4
    <3>2. out[j] \in Leaves /\ out[j].k # "macro"
      BY <1>14, <3>1 DEF Leaves, Assertion, Value
    <3>3. Visited(Height, out[j]) = {out[j]}
      BY <1>1, <3>2, LeafParts DEF Visited
    <3> QED
      BY <2>1, <3>2, <3>3
  <2> QED
    BY <2>2, <2>3, <2>4
<1>19. ~ EndsIn(Instrument(b), {"return"})
  <2>1. Last(out) = out[n + 1 + k]
    BY <1>14 DEF Last
  <2>2. n + 1 + k \in (n + 2)..(n + 1 + k)
    BY <1>6
  <2>3. Last(out).k # "return"
    BY <1>14, <2>1, <2>2 DEF Assertion, Value
  <2> QED
    BY <1>3, <2>3 DEF EndsIn
<1> QED
  BY <1>15, <1>16, <1>18, <1>19

----------------------------------------------------------------------------
(* Attribute by attribute.                                                 *)

\* What is annotated stays what it was, but for the attributes that are expanded,
\* the block's before any other.
Annotated ==
  /\ source \in Items
  /\ block \in Nat /\ block <= source.block
  /\ DOMAIN own = DOMAIN source.own /\ DOMAIN body = DOMAIN source.own
  /\ \A i \in DOMAIN own : own[i] \in Nat /\ own[i] <= source.own[i] /\ body[i] \in Bodies
  /\ error \in BOOLEAN
  /\ block > 0 => \A i \in DOMAIN own : own[i] = source.own[i]

\* No attribute has put anything into a body that a later one refuses.
NothingAdded ==
  \A i \in DOMAIN body :
    /\ MacroReturn(body[i].stmts) => MacroReturn(source.body[i].stmts)
    /\ EndsIn(body[i], {"return"}) => EndsIn(source.body[i], {"return"})

RewriteInv == Annotated /\ NothingAdded /\ AssertedOnEveryExit /\ RefusedAsWritten

LEMMA Origins ==
  ASSUME Annotated
  PROVE  /\ source.block \in Nat
         /\ DOMAIN body = DOMAIN own /\ DOMAIN source.own = DOMAIN own
         /\ \A i \in DOMAIN own : source.own[i] \in Nat /\ source.body[i] \in Bodies
BY ItemsAssumption DEF Annotated

LEMMA WrittenSo ==
  ASSUME NEW b \in Bodies, MacroReturn(b.stmts)
  PROVE  WrittenInMacro(b.stmts)
<1> PICK j \in DOMAIN b.stmts : \E m \in Visited(Height, b.stmts[j]) : Refused(m)
  BY MacroReturnIs
<1>1. PICK m \in Visited(Height, b.stmts[j]) : Refused(m)
  OBVIOUS
<1>2. b.stmts[j] \in Trees[Height] /\ Height \in 0..Height
  BY BodiesAre, Statements, Heights
<1>3. {"inner"} \in SUBSET Opaque
  BY DEF Opaque
<1>4. m \in AllParts({"inner"})[Height][b.stmts[j]]
  BY <1>1, <1>2, <1>3, PartsGrow DEF Visited
<1>5. Parts(b.stmts, {"inner"}) = UNION {AllParts({"inner"})[Height][b.stmts[i]] : i \in DOMAIN b.stmts}
  BY PartsAre
<1>6. m \in Parts(b.stmts, {"inner"})
  BY <1>1, <1>4, <1>5
<1> QED
  BY <1>1, <1>6 DEF WrittenInMacro, Refused

LEMMA RewriteInitially == RewriteInit => RewriteInv
<1> SUFFICES ASSUME RewriteInit PROVE RewriteInv
  OBVIOUS
<1>1. Annotated
  <2>1. /\ source \in Items /\ source.block \in Nat /\ DOMAIN source.body = DOMAIN source.own
        /\ \A i \in DOMAIN source.own : source.own[i] \in Nat /\ source.body[i] \in Bodies
    BY ItemsAssumption DEF RewriteInit
  <2>2. block = source.block /\ own = source.own /\ body = source.body
    BY DEF RewriteInit
  <2>3. error \in BOOLEAN
    BY DEF RewriteInit
  <2>4. \A i \in DOMAIN own : own[i] \in Nat /\ own[i] <= source.own[i] /\ body[i] \in Bodies
    BY <2>1, <2>2
  <2>5. DOMAIN own = DOMAIN source.own /\ DOMAIN body = DOMAIN source.own
    BY <2>1, <2>2
  <2>6. block \in Nat /\ block <= source.block /\ \A i \in DOMAIN own : own[i] = source.own[i]
    BY <2>1, <2>2
  <2> HIDE <2>2
  <2> QED
    BY <2>1, <2>3, <2>4, <2>5, <2>6 DEF Annotated
<1>2. NothingAdded
  BY DEF RewriteInit, NothingAdded
<1>3. RefusedAsWritten
  BY DEF RewriteInit, RefusedAsWritten
<1>4. AssertedOnEveryExit
  <2> SUFFICES ASSUME NEW i \in DOMAIN body
               PROVE  Eval(body[i].stmts) = {WithAsserts(r, Applied(i)) : r \in Eval(source.body[i].stmts)}
    BY DEF AssertedOnEveryExit
  <2>1. i \in DOMAIN own /\ source.body[i] \in Bodies /\ source.own[i] \in Nat /\ source.block \in Nat
    BY <1>1, Origins
  <2>2. Applied(i) = 0
    BY <2>1 DEF RewriteInit, Applied
  <2>3. \A r \in Eval(source.body[i].stmts) : WithAsserts(r, 0) = r
    BY <2>1, BodiesAre, WithAssertsIs
  <2>4. body[i] = source.body[i]
    BY DEF RewriteInit
  <2> QED
    BY <2>2, <2>3, <2>4
<1> QED
  BY <1>1, <1>2, <1>3, <1>4 DEF RewriteInv

(* An attribute that refuses was given what was written so.                *)
LEMMA RefuseStep ==
  ASSUME RewriteInv, NEW W \in SUBSET DOMAIN own, Refuse(W), UNCHANGED source,
         DOMAIN own' = DOMAIN own,
         \A i \in W : source.block + source.own[i] > 0,
         W = {} => source.block > 0 /\ \A i \in DOMAIN own : source.own[i] > 0
  PROVE  RefusedAsWritten' /\ AssertedOnEveryExit' /\ NothingAdded'
<1>1. error' /\ body' = body /\ source' = source
  BY DEF Refuse
<1>2. AssertedOnEveryExit' /\ NothingAdded'
  BY <1>1 DEF AssertedOnEveryExit, NothingAdded, RewriteInv
<1>3. CASE W = {}
  BY <1>1, <1>2, <1>3 DEF RefusedAsWritten
<1>4. CASE \E i \in W : MacroReturn(body[i].stmts) \/ EndsIn(body[i], {"return"})
  <2>1. PICK i \in W : MacroReturn(body[i].stmts) \/ EndsIn(body[i], {"return"})
    BY <1>4
  <2>2. i \in DOMAIN own /\ i \in DOMAIN body /\ source.body[i] \in Bodies
    BY Origins DEF RewriteInv
  <2>3. WrittenInMacro(source.body[i].stmts) \/ EndsIn(source.body[i], {"return"})
    BY <2>1, <2>2, WrittenSo DEF RewriteInv, NothingAdded
  <2> QED
    BY <1>1, <1>2, <2>1, <2>2, <2>3 DEF RefusedAsWritten
<1> QED
  BY <1>2, <1>3, <1>4 DEF Refuse, Unreachable

(* An attribute that rewrites adds its one assertion to the bodies in W.   *)
LEMMA RebuildStep ==
  ASSUME RewriteInv, ~ error, NEW W \in SUBSET DOMAIN own, Rebuild(W), UNCHANGED source,
         DOMAIN own' = DOMAIN own,
         \A i \in DOMAIN own : Applied(i) \in Nat /\ Applied(i)' = Applied(i) + (IF i \in W THEN 1 ELSE 0)
  PROVE  /\ RefusedAsWritten' /\ AssertedOnEveryExit' /\ NothingAdded'
         /\ DOMAIN body' = DOMAIN body /\ \A i \in DOMAIN body : body'[i] \in Bodies
<1>1. /\ ~ error' /\ source' = source
      /\ body' = [i \in DOMAIN body |-> IF i \in W THEN Instrument(body[i]) ELSE body[i]]
      /\ \A i \in W : ~ MacroReturn(body[i].stmts)
  BY DEF Rebuild, Unreachable
<1>2. DOMAIN body = DOMAIN own /\ \A i \in DOMAIN own : body[i] \in Bodies /\ source.body[i] \in Bodies
  BY Origins DEF RewriteInv, Annotated
<1>3. \A i \in W : /\ body'[i] \in Bodies
                   /\ Eval(body'[i].stmts) = {WithAsserts(r, 1) : r \in Eval(body[i].stmts)}
                   /\ ~ MacroReturn(body'[i].stmts)
                   /\ ~ EndsIn(body'[i], {"return"})
  BY <1>1, <1>2, Instrumented
<1>4. \A i \in DOMAIN own : i \notin W => body'[i] = body[i]
  BY <1>1, <1>2
<1>5. RefusedAsWritten'
  BY <1>1 DEF RefusedAsWritten
<1>6. NothingAdded'
  BY <1>1, <1>2, <1>3, <1>4 DEF NothingAdded, RewriteInv
<1>7. AssertedOnEveryExit'
  <2> SUFFICES ASSUME NEW i \in DOMAIN own
               PROVE  Eval(body'[i].stmts) = {WithAsserts(r, Applied(i)') : r \in Eval(source.body[i].stmts)}
    BY <1>1, <1>2 DEF AssertedOnEveryExit
  <2> DEFINE R == Eval(source.body[i].stmts)
             n == Applied(i)
  <2>1. Eval(body[i].stmts) = {WithAsserts(r, n) : r \in R}
    BY <1>2 DEF RewriteInv, AssertedOnEveryExit
  <2>2. R \in SUBSET Ways /\ n \in Nat
    BY <1>2, BodiesAre
  <2>3. CASE i \in W
    <3>1. Applied(i)' = n + 1
      BY <2>3
    <3>2. Eval(body'[i].stmts) = {WithAsserts(r, 1) : r \in Eval(body[i].stmts)}
      BY <1>3, <2>3
    <3> HIDE DEF R, n
    <3>3. \A r \in R : WithAsserts(WithAsserts(r, n), 1) = WithAsserts(r, n + 1)
      BY <2>2, WithAssertsIs
    <3>4. {WithAsserts(r, 1) : r \in {WithAsserts(x, n) : x \in R}} = {WithAsserts(r, n + 1) : r \in R}
      BY <3>3
    <3>5. Eval(body'[i].stmts) = {WithAsserts(r, n + 1) : r \in R}
      BY <2>1, <3>2, <3>4
    <3> QED
      BY <3>1, <3>5 DEF R
  <2>4. CASE i \notin W
    <3>1. Applied(i)' = n /\ body'[i] = body[i]
      BY <1>4, <2>2, <2>4
    <3> QED
      BY <2>1, <3>1
  <2> QED
    BY <2>3, <2>4
<1>8. DOMAIN body' = DOMAIN body /\ \A i \in DOMAIN body : body'[i] \in Bodies
  BY <1>1, <1>2, <1>3, <1>4
<1> QED
  BY <1>5, <1>6, <1>7, <1>8

LEMMA BlockStep ==
  ASSUME RewriteInv, ExpandBlock
  PROVE  RewriteInv'
<1> DEFINE W == WithoutOwn
<1>1. /\ ~ error /\ block > 0 /\ block' = block - 1 /\ own' = own /\ source' = source
      /\ Refuse(W) \/ Rebuild(W)
  BY DEF ExpandBlock
<1>2. /\ block \in Nat /\ block <= source.block /\ source.block \in Nat /\ source \in Items
      /\ DOMAIN body = DOMAIN own /\ DOMAIN source.own = DOMAIN own
      /\ \A i \in DOMAIN own : own[i] \in Nat /\ own[i] = source.own[i] /\ body[i] \in Bodies
  BY <1>1, Origins DEF RewriteInv, Annotated
<1>3. W \in SUBSET DOMAIN own /\ \A i \in DOMAIN own : i \in W <=> own[i] = 0
  BY DEF WithoutOwn
<1> HIDE DEF W
<1>4. CASE Refuse(W)
  <2>1. RefusedAsWritten' /\ AssertedOnEveryExit' /\ NothingAdded'
    <3>1. \A i \in W : source.block + source.own[i] > 0
      BY <1>1, <1>2, <1>3
    <3>2. W = {} => source.block > 0 /\ \A i \in DOMAIN own : source.own[i] > 0
      BY <1>1, <1>2, <1>3
    <3> QED
      BY <1>1, <1>3, <1>4, <3>1, <3>2, RefuseStep
  <2>2. Annotated'
    BY <1>1, <1>2, <1>4 DEF Annotated, Refuse
  <2> QED
    BY <2>1, <2>2 DEF RewriteInv
<1>5. CASE Rebuild(W)
  <2>1. \A i \in DOMAIN own : Applied(i) \in Nat /\ Applied(i)' = Applied(i) + (IF i \in W THEN 1 ELSE 0)
    BY <1>1, <1>2, <1>3 DEF Applied
  <2>2. /\ RefusedAsWritten' /\ AssertedOnEveryExit' /\ NothingAdded'
        /\ DOMAIN body' = DOMAIN body /\ \A i \in DOMAIN body : body'[i] \in Bodies
    BY <1>1, <1>3, <1>5, <2>1, RebuildStep
  <2>3. error' \in BOOLEAN
    BY <1>5 DEF Rebuild, RewriteInv, Annotated
  <2>4. \A i \in DOMAIN own : body'[i] \in Bodies
    BY <1>2, <2>2
  <2>5. Annotated'
    BY <1>1, <1>2, <2>2, <2>3, <2>4 DEF Annotated
  <2> QED
    BY <2>2, <2>5 DEF RewriteInv
<1> QED
  BY <1>1, <1>4, <1>5

LEMMA MethodStep ==
  ASSUME RewriteInv, NEW k \in DOMAIN own, ExpandMethod(k)
  PROVE  RewriteInv'
<1>1. /\ ~ error /\ block = 0 /\ own[k] > 0 /\ own' = [own EXCEPT ![k] = @ - 1]
      /\ block' = block /\ source' = source
      /\ Refuse({k}) \/ Rebuild({k})
  BY DEF ExpandMethod
<1>2. /\ block \in Nat /\ block <= source.block /\ source.block \in Nat /\ source \in Items
      /\ DOMAIN body = DOMAIN own /\ DOMAIN source.own = DOMAIN own
      /\ \A i \in DOMAIN own :
           own[i] \in Nat /\ source.own[i] \in Nat /\ own[i] <= source.own[i] /\ body[i] \in Bodies
  BY Origins DEF RewriteInv, Annotated
<1>3. DOMAIN own' = DOMAIN own /\ \A i \in DOMAIN own : own'[i] = IF i = k THEN own[i] - 1 ELSE own[i]
  BY <1>1
<1>4. \A i \in DOMAIN own : own'[i] \in Nat /\ own'[i] <= source.own[i]
  BY <1>1, <1>2, <1>3
<1>5. CASE Refuse({k})
  <2>1. \A i \in {k} : source.block + source.own[i] > 0
    BY <1>1, <1>2
  <2>2. RefusedAsWritten' /\ AssertedOnEveryExit' /\ NothingAdded'
    BY <1>1, <1>3, <1>5, <2>1, RefuseStep
  <2>3. Annotated'
    BY <1>1, <1>2, <1>3, <1>4, <1>5 DEF Annotated, Refuse
  <2> QED
    BY <2>2, <2>3 DEF RewriteInv
<1>6. CASE Rebuild({k})
  <2>1. \A i \in DOMAIN own : Applied(i) \in Nat /\ Applied(i)' = Applied(i) + (IF i \in {k} THEN 1 ELSE 0)
    <3> SUFFICES ASSUME NEW i \in DOMAIN own
                 PROVE  Applied(i) \in Nat /\ Applied(i)' = Applied(i) + (IF i \in {k} THEN 1 ELSE 0)
      OBVIOUS
    <3>1. CASE i = k
      BY <1>1, <1>2, <1>3, <3>1 DEF Applied
    <3>2. CASE i # k
      BY <1>1, <1>2, <1>3, <3>2 DEF Applied
    <3> QED
      BY <3>1, <3>2
  <2>2. /\ RefusedAsWritten' /\ AssertedOnEveryExit' /\ NothingAdded'
        /\ DOMAIN body' = DOMAIN body /\ \A i \in DOMAIN body : body'[i] \in Bodies
    BY <1>1, <1>3, <1>6, <2>1, RebuildStep
  <2>3. error' \in BOOLEAN
    BY <1>6 DEF Rebuild, RewriteInv, Annotated
  <2>4. \A i \in DOMAIN own : body'[i] \in Bodies
    BY <1>2, <2>2
  <2>5. Annotated'
    BY <1>1, <1>2, <1>3, <1>4, <2>2, <2>3, <2>4 DEF Annotated
  <2> QED
    BY <2>2, <2>5 DEF RewriteInv
<1> QED
  BY <1>1, <1>5, <1>6

LEMMA RewriteInductive == RewriteInv /\ [RewriteNext]_rewriteVars => RewriteInv'
<1> SUFFICES ASSUME RewriteInv, [RewriteNext]_rewriteVars PROVE RewriteInv'
  OBVIOUS
<1>1. CASE ExpandBlock
  BY <1>1, BlockStep
<1>2. CASE \E i \in DOMAIN own : ExpandMethod(i)
  BY <1>2, MethodStep
<1>3. CASE UNCHANGED rewriteVars
  BY <1>3 DEF rewriteVars, RewriteInv, Annotated, NothingAdded, AssertedOnEveryExit, RefusedAsWritten, Applied
<1> QED
  BY <1>1, <1>2, <1>3 DEF RewriteNext, Compiled

LEMMA RewriteInvariance == RewriteSpec => []RewriteInv
<1> QED
  BY RewriteInitially, RewriteInductive, PTL DEF RewriteSpec

(* Whatever a body is made of, and whatever attributes it is under, it      *)
(* runs as it was written to and asserts once for each attribute on the     *)
(* ways that end with a value or a return (ReturnRewriter,                  *)
(* instrument_exit_paths).                                                  *)
THEOREM AssertsOnEveryExit == RewriteSpec => []AssertedOnEveryExit
<1>1. RewriteInv => AssertedOnEveryExit
  BY DEF RewriteInv
<1> QED
  BY <1>1, RewriteInvariance, PTL

(* Whatever the attributes refuse was written so: no rewriting makes a      *)
(* later attribute refuse (expand_targets_inner).                           *)
THEOREM RefusesAsWritten == RewriteSpec => []RefusedAsWritten
<1>1. RewriteInv => RefusedAsWritten
  BY DEF RewriteInv
<1> QED
  BY <1>1, RewriteInvariance, PTL

==============================================================================
