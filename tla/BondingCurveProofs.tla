------------------------- MODULE BondingCurveProofs -------------------------
(***************************************************************************)
(* Proofs about BondingCurve, for all configurations, amounts and widths:  *)
(* the tokens of every curve stay accounted for, a curve migrates once and *)
(* as promised, rounding costs a curve next to nothing, and a curve that   *)
(* sells out has raised what its configuration intends.                    *)
(***************************************************************************)
EXTENDS CountedCurve, SumTheorems

-----------------------------------------------------------------------------
(* Division, and the two quotes. *)

LEMMA DivFacts ==
  ASSUME NEW a \in Nat, NEW b \in Nat, b > 0
  PROVE  /\ a \div b \in Nat
         /\ b * (a \div b) <= a
         /\ a < b * (a \div b) + b
  BY SMT

LEMMA MulNat ==
  ASSUME NEW a \in Nat, NEW b \in Nat
  PROVE  a * b \in Nat
  BY SMT

LEMMA CeilDivFacts ==
  ASSUME NEW a \in Nat, NEW b \in Nat, b > 0
  PROVE  /\ CeilDiv(a, b) \in Nat
         /\ a <= b * CeilDiv(a, b)
         /\ b * CeilDiv(a, b) < a + b
<1>1. a + b - 1 \in Nat
  BY SMT
<1>2. /\ (a + b - 1) \div b \in Nat
      /\ b * ((a + b - 1) \div b) <= a + b - 1
      /\ a + b - 1 < b * ((a + b - 1) \div b) + b
  BY <1>1, DivFacts
<1>3. b * ((a + b - 1) \div b) \in Nat
  BY <1>2, MulNat
<1> QED
  BY <1>2, <1>3, SMT DEF CeilDiv

\* A sell pays between nothing and the virtual lamports, and at the reserves it
\* leaves the product is no smaller.
LEMMA SellQuote ==
  ASSUME NEW vs \in Nat, NEW vt \in Nat, NEW tokens \in Nat, tokens > 0
  PROVE  /\ SolForTokens(vs, vt, tokens) \in Nat
         /\ SolForTokens(vs, vt, tokens) <= vs
         /\ (vs - SolForTokens(vs, vt, tokens)) * ((vt + tokens) * TokenScale)
              >= vs * (vt * TokenScale)
         /\ vs > 0 /\ vt > 0 => SolForTokens(vs, vt, tokens) < vs
<1> USE ScaleAssumption
<1> DEFINE ct == vt * TokenScale
           dt == (vt + tokens) * TokenScale
           k == vs * ct
           q == CeilDiv(k, dt)
<1>1. ct \in Nat /\ dt \in Nat /\ dt > 0 /\ ct < dt
  BY SMT
<1> HIDE DEF ct, dt
<1>2. k \in Nat
  BY <1>1, MulNat
<1>3. vs * ct <= vs * dt
  BY <1>1, SMT
<1> HIDE DEF k
<1>4. q \in Nat /\ k <= dt * q /\ dt * q < k + dt
  BY <1>1, <1>2, CeilDivFacts
<1> HIDE DEF q
<1>5. q <= vs
  <2>1. dt * q < dt * (vs + 1)
    BY <1>1, <1>3, <1>4, SMT DEF k
  <2> QED
    BY <2>1, <1>1, <1>4, SMT
<1>6. vs > 0 /\ vt > 0 => q > 0
  <2> SUFFICES ASSUME vs > 0, vt > 0 PROVE q > 0
    OBVIOUS
  <2>1. ct > 0
    BY SMT DEF ct
  <2>2. k > 0
    BY <2>1, <1>1, SMT DEF k
  <2>3. q = 0 => dt * q = 0
    BY <1>1, SMT
  <2> QED
    BY <2>2, <2>3, <1>1, <1>2, <1>4, SMT
<1>7. SolForTokens(vs, vt, tokens) = vs - q
  BY DEF SolForTokens, q, k, ct, dt
<1>8. (vs - (vs - q)) * dt = dt * q
  BY <1>1, <1>4, SMT
<1>9. (vs - SolForTokens(vs, vt, tokens)) * dt >= vs * ct
  BY <1>7, <1>8, <1>4 DEF k
<1> QED
  BY <1>4, <1>5, <1>6, <1>7, <1>9, SMT DEF dt, ct

\* A buy pays out no more tokens than there are, and at the reserves it leaves
\* the product is smaller by less than the new virtual lamports.
LEMMA BuyQuote ==
  ASSUME NEW vs \in Nat, NEW vt \in Nat, NEW sol \in Nat, sol > 0
  PROVE  /\ TokensForSol(vs, vt, sol) \in Nat
         /\ TokensForSol(vs, vt, sol) <= vt
         /\ (vs + sol) * ((vt - TokensForSol(vs, vt, sol)) * TokenScale) + (vs + sol)
              > vs * (vt * TokenScale)
<1> USE ScaleAssumption
<1> DEFINE ct == vt * TokenScale
           k == vs * ct
           n == vs + sol
           q == k \div n
           t == (ct - q) \div TokenScale
<1>1. ct \in Nat /\ n \in Nat /\ n > 0 /\ vs <= n
  BY SMT
<1> HIDE DEF ct, n
<1>2. k \in Nat
  BY <1>1, MulNat
<1>3. vs * ct <= n * ct
  BY <1>1, SMT
<1> HIDE DEF k
<1>4. q \in Nat /\ n * q <= k /\ k < n * q + n
  BY <1>1, <1>2, DivFacts
<1> HIDE DEF q
<1>5. q <= ct
  <2>1. n * q < n * (ct + 1)
    BY <1>1, <1>3, <1>4, SMT DEF k
  <2> QED
    BY <2>1, <1>1, <1>4, SMT
<1>6. ct - q \in Nat
  BY <1>1, <1>4, <1>5, SMT
<1>7. t \in Nat /\ TokenScale * t <= ct - q
  BY <1>6, DivFacts
<1> HIDE DEF t
<1>8. t <= vt
  <2>1. TokenScale * t <= vt * TokenScale
    BY <1>1, <1>4, <1>7, SMT DEF ct
  <2> QED
    BY <2>1, <1>7, SMT
<1>9. (vt - t) * TokenScale = ct - TokenScale * t
  BY <1>7, SMT DEF ct
<1>10. (vt - t) * TokenScale >= q
  BY <1>1, <1>4, <1>7, <1>9, SMT
<1>11. (vt - t) * TokenScale \in Nat
  BY <1>7, <1>8, SMT
<1>12. n * ((vt - t) * TokenScale) >= n * q
  BY <1>1, <1>4, <1>10, <1>11, SMT
<1>13. n * ((vt - t) * TokenScale) + n > k
  BY <1>1, <1>2, <1>4, <1>11, <1>12, SMT
<1>14. TokensForSol(vs, vt, sol) = t
  BY DEF TokensForSol, t, q, k, n, ct
<1> QED
  BY <1>7, <1>8, <1>13, <1>14 DEF n, k, ct

\* Tokens bought and sold straight back pay no more than they cost, while a
\* lamport is worth at least one scaled token: apply_buy and apply_sell with
\* the roundings of both quotes.
LEMMA RoundTrip ==
  ASSUME NEW vs \in Nat, NEW vt \in Nat, NEW sol \in Nat, sol > 0,
         vs + sol <= vt * TokenScale,
         TokensForSol(vs, vt, sol) > 0
  PROVE  SolForTokens(vs + sol, vt - TokensForSol(vs, vt, sol), TokensForSol(vs, vt, sol)) <= sol
<1> USE ScaleAssumption
<1> DEFINE t == TokensForSol(vs, vt, sol)
           n == vs + sol
           ct == vt * TokenScale
           rt == (vt - t) * TokenScale
           q == CeilDiv(n * rt, ct)
<1>1. t \in Nat /\ t <= vt /\ n * rt + n > vs * ct
  BY BuyQuote
<1>2. n \in Nat /\ n > 0 /\ ct \in Nat /\ ct > 0 /\ n <= ct /\ rt \in Nat
  BY <1>1, SMT
<1>3. SolForTokens(n, vt - t, t) = n - q
  <2>1. vt - t + t = vt
    BY <1>1, SMT
  <2> QED
    BY <2>1 DEF SolForTokens
<1> HIDE DEF t, ct, rt
<1>4. n * rt \in Nat
  BY <1>2, MulNat
<1>5. q \in Nat /\ n * rt <= ct * q
  BY <1>2, <1>4, CeilDivFacts
<1> HIDE DEF q
<1>6. ct * q + ct > vs * ct
  <2>1. ct * q \in Nat /\ vs * ct \in Nat
    BY <1>2, <1>5, MulNat
  <2> QED
    BY <2>1, <1>1, <1>2, <1>4, <1>5, SMT
<1>7. ct * (q + 1) > ct * vs
  BY <1>2, <1>5, <1>6, SMT
<1>8. q + 1 > vs
  BY <1>2, <1>5, <1>7, SMT
<1>9. n - q <= sol
  BY <1>5, <1>8, SMT DEF n
<1> QED
  BY <1>3, <1>9 DEF n, t

-----------------------------------------------------------------------------
(* The inductive invariant. *)

\* The curve of mint m under its configuration c: its reserves are in order,
\* its terms are c's, and its tokens and lamports are accounted for.
CurveUnder(m, c) ==
  /\ curve[m] \in Curve
  /\ born[m] = {c}
  /\ Validate(c)
  /\ curve[m].terms = [meteoraToken |-> c.meteoraToken, meteoraSol |-> c.meteoraSol,
                        fee |-> c.migrationFee]
  /\ curve[m].realToken <= curve[m].virtualToken
  /\ curve[m].state = "trading" => curve[m].virtualSol > 0 /\ curve[m].virtualToken > 0
  /\ IF curve[m].state = "migrated"
       THEN /\ ata[m] = 0 /\ circulating[m] = c.realToken
            /\ pool[m] = [sol |-> c.meteoraSol, token |-> c.meteoraToken]
       ELSE /\ circulating[m] + curve[m].realToken = c.realToken
            /\ ata[m] = curve[m].realToken + c.meteoraToken
            /\ pool[m] = [sol |-> 0, token |-> 0]
  /\ curve[m].state = "completed" => curve[m].realToken = 0

\* A mint without a curve has nothing yet.
NotLaunched(m) ==
  /\ curve[m] = NoCurve
  /\ born[m] = {}
  /\ circulating[m] = 0
  /\ pool[m] = [sol |-> 0, token |-> 0]

IInv ==
  /\ TypeOK
  /\ \A c \in config : Validate(c)
  /\ \A m \in Mints : NotLaunched(m) \/ \E c \in Configs : CurveUnder(m, c)

LEMMA NoCurveIsNone == NoCurve \notin Curve
<1> SUFFICES ASSUME NoCurve \in Curve PROVE FALSE
  OBVIOUS
<1>1. NoCurve.state \in {"trading", "completed", "migrated"}
  BY DEF Curve
<1>2. NoCurve.state = "none"
  BY DEF NoCurve
<1> QED
  BY <1>1, <1>2

LEMMA FeeNat ==
  ASSUME NEW fee \in Fees, NEW value \in Nat
  PROVE  TotalFee(fee, value) \in Nat
<1>1. \A bps \in Nat : BpsMul(bps, value) \in Nat
  <2> TAKE bps \in Nat
  <2>1. value * bps \in Nat
    BY MulNat
  <2> QED
    BY <2>1, ScaleAssumption, DivFacts DEF BpsMul
<1>2. fee.platform \in Nat /\ fee.secondary \in Nat /\ fee.creator \in Nat
  BY WidthAssumption DEF Fees, u64
<1> QED
  BY <1>1, <1>2, SMT DEF TotalFee

\* The invariant says enough.
LEMMA InvImplies == IInv => TypeOK /\ TokensBacked /\ PoolAsPromised
<1> SUFFICES ASSUME IInv, NEW m \in Mints, Launched(m), NEW c \in born[m]
             PROVE  CurveUnder(m, c)
  BY DEF IInv, TokensBacked, PoolAsPromised, CurveUnder
<1>1. PICK d \in Configs : CurveUnder(m, d)
  BY DEF IInv, NotLaunched, Launched
<1>2. c = d
  BY <1>1 DEF CurveUnder
<1> QED
  BY <1>1, <1>2

LEMMA InitInv == Init => IInv
<1> SUFFICES ASSUME Init PROVE IInv
  OBVIOUS
<1>1. Cardinality({}) = 0
  BY FS_EmptySet
<1> QED
  BY <1>1, InputAssumption DEF Init, IInv, TypeOK, NotLaunched, NoLp

\* What a step on mint m must show: the other mints keep theirs.
LEMMA OneMint ==
  ASSUME IInv, NEW m \in Mints, TypeOK', UNCHANGED config,
         NotLaunched(m)' \/ \E c \in Configs : CurveUnder(m, c)',
         \A n \in Mints \ {m} :
           /\ curve'[n] = curve[n] /\ born'[n] = born[n] /\ pool'[n] = pool[n]
           /\ ata'[n] = ata[n] /\ circulating'[n] = circulating[n]
  PROVE  IInv'
<1>1. \A n \in Mints \ {m} : NotLaunched(n)' \/ \E c \in Configs : CurveUnder(n, c)'
  <2> TAKE n \in Mints \ {m}
  <2>1. CASE NotLaunched(n)
    BY <2>1 DEF NotLaunched
  <2>2. CASE \E c \in Configs : CurveUnder(n, c)
    BY <2>2 DEF CurveUnder
  <2> QED
    BY <2>1, <2>2 DEF IInv
<1>2. \A c \in config' : Validate(c)'
  BY DEF IInv, Validate
<1> QED
  BY <1>1, <1>2 DEF IInv
-----------------------------------------------------------------------------
(* The steps. *)

LEMMA ConfigureInv ==
  ASSUME IInv, NEW c \in Configs, Configure(c)
  PROVE  IInv'
<1>1. Cardinality({c}) = 1
  BY FS_Singleton
<1>2. TypeOK'
  BY <1>1, ScaleAssumption, InputAssumption DEF IInv, TypeOK, Configure
<1>3. \A d \in config' : Validate(d)'
  BY DEF Configure, Validate
<1>4. ASSUME NEW m \in Mints
      PROVE  NotLaunched(m)' \/ \E d \in Configs : CurveUnder(m, d)'
  <2>1. CASE NotLaunched(m)
    BY <2>1 DEF NotLaunched, Configure
  <2>2. CASE \E d \in Configs : CurveUnder(m, d)
    BY <2>2 DEF CurveUnder, Configure
  <2> QED
    BY <2>1, <2>2 DEF IInv
<1> QED
  BY <1>2, <1>3, <1>4 DEF IInv

LEMMA CreateInv ==
  ASSUME IInv, NEW m \in Mints, CreateBondingCurve(m)
  PROVE  IInv'
<1>1. PICK c \in config :
        /\ curve[m] = NoCurve
        /\ curve' = [curve EXCEPT ![m] = NewCurve(c)]
        /\ ata' = [ata EXCEPT ![m] = c.supply]
        /\ born' = [born EXCEPT ![m] = {c}]
        /\ UNCHANGED <<config, vault, circulating, pool, lp, configures>>
  BY DEF CreateBondingCurve
<1>2. c \in Configs /\ Validate(c) /\ c \in Config
  BY ConfigsAssumption DEF IInv, TypeOK
<1>3. NewCurve(c) \in Curve
  BY <1>2, WidthAssumption DEF Config, NewCurve, Curve, u64
<1>4. c.supply \in Nat /\ c.supply = c.realToken + c.meteoraToken
      /\ c.realToken \in Nat /\ c.meteoraToken \in Nat
  BY <1>2, WidthAssumption DEF Config, u64, Validate
<1>5. TypeOK'
  BY <1>1, <1>2, <1>3, <1>4 DEF IInv, TypeOK
<1>6. NotLaunched(m)
  BY <1>1, NoCurveIsNone DEF IInv, CurveUnder
<1>7. curve'[m] = NewCurve(c) /\ ata'[m] = c.supply /\ born'[m] = {c}
      /\ circulating'[m] = 0 /\ pool'[m] = [sol |-> 0, token |-> 0]
  BY <1>1, <1>6 DEF IInv, TypeOK, NotLaunched
<1>8. CurveUnder(m, c)'
  BY <1>2, <1>3, <1>4, <1>7, SMT DEF CurveUnder, NewCurve, Validate
<1>9. UNCHANGED config
  BY <1>1
<1> QED
  BY <1>1, <1>2, <1>5, <1>8, <1>9, OneMint DEF IInv, TypeOK

\* What apply_buy hands over: no more tokens than the curve has for sale.
LEMMA BuyResultFacts ==
  ASSUME NEW b \in Curve, NEW sol \in Nat, BuyComputes(b, sol),
         b.realToken <= b.virtualToken
  PROVE  /\ BuyResult(b, sol).token \in Nat /\ BuyResult(b, sol).sol \in Nat
         /\ BuyResult(b, sol).token <= b.realToken
         /\ Completes(b, sol) => BuyResult(b, sol).token = b.realToken
         /\ ~Completes(b, sol) => /\ BuyResult(b, sol).token < b.realToken
                                  /\ BuyResult(b, sol).sol = sol
                                  /\ BuyResult(b, sol).token
                                       = TokensForSol(b.virtualSol, b.virtualToken, sol)
<1>1. /\ b.virtualSol \in Nat /\ b.virtualToken \in Nat /\ b.realToken \in Nat
      /\ b.lastVirtualSol \in Nat /\ sol > 0
  BY WidthAssumption DEF Curve, u64, BuyComputes
<1>2. TokensForSol(b.virtualSol, b.virtualToken, sol) \in Nat
  BY <1>1, BuyQuote
<1>3. CASE Completes(b, sol)
  <2>1. b.realToken > 0 /\ b.virtualToken - b.realToken \in Nat
    BY <1>1, <1>3, SMT DEF BuyComputes
  <2>2. SolForTokens(b.lastVirtualSol, b.virtualToken - b.realToken, b.realToken) \in Nat
    BY <1>1, <2>1, SellQuote
  <2>3. CompletionCost(b, sol) \in Nat
    BY <2>2, <1>3 DEF CompletionCost
  <2> QED
    BY <1>1, <1>3, <2>3 DEF BuyResult
<1>4. CASE ~Completes(b, sol)
  BY <1>1, <1>2, <1>4, SMT DEF BuyResult, Completes
<1> QED
  BY <1>3, <1>4

LEMMA BuyInv ==
  ASSUME IInv, NEW m \in Mints, NEW amount \in Nat, NEW min \in Nat, NEW max \in Nat,
         Buy(m, amount, min, max)
  PROVE  IInv'
<1>1. PICK c \in config :
        LET b == curve[m]
            applied == amount - TotalFee(c.buyFee, amount)
            r == BuyResult(b, applied)
            after == AfterBuy(b, r, Completes(b, applied))
        IN /\ curve[m] # NoCurve
           /\ b.state = "trading"
           /\ BuyComputes(b, applied)
           /\ U64(after.virtualSol) /\ U64(after.realSol)
           /\ ata[m] >= r.token
           /\ curve' = [curve EXCEPT ![m] = after]
           /\ vault' = vault + r.sol
           /\ ata' = [ata EXCEPT ![m] = @ - r.token]
           /\ circulating' = [circulating EXCEPT ![m] = @ + r.token]
           /\ UNCHANGED <<config, pool, lp, born, configures>>
  BY DEF Buy
<1> DEFINE b == curve[m]
           applied == amount - TotalFee(c.buyFee, amount)
           r == BuyResult(b, applied)
           after == AfterBuy(b, r, Completes(b, applied))
<1>2. c \in Config
  BY ConfigsAssumption DEF IInv, TypeOK
<1>3. PICK d \in Configs : CurveUnder(m, d)
  BY <1>1 DEF IInv, NotLaunched
<1>4. b \in Curve /\ b.realToken <= b.virtualToken
  BY <1>3 DEF CurveUnder
<1>5. applied \in Nat
  <2>1. TotalFee(c.buyFee, amount) \in Nat
    BY <1>2, FeeNat DEF Config
  <2> QED
    BY <1>1, <2>1, SMT DEF BuyComputes
<1>6. r.token \in Nat /\ r.sol \in Nat /\ r.token <= b.realToken
      /\ (Completes(b, applied) => r.token = b.realToken)
      /\ (~Completes(b, applied) => r.token < b.realToken)
  BY <1>1, <1>4, <1>5, BuyResultFacts
<1>7. /\ b.virtualSol \in u64 /\ b.virtualToken \in u64 /\ b.realSol \in u64
      /\ b.realToken \in u64 /\ b.state = "trading"
  BY <1>1, <1>4 DEF Curve
<1> HIDE DEF b, applied, r
<1>8. /\ after.virtualToken = b.virtualToken - r.token
      /\ after.realToken = b.realToken - r.token
      /\ after.virtualSol = b.virtualSol + r.sol
      /\ after.realSol = b.realSol + r.sol
      /\ after.terms = b.terms
      /\ after.state = IF Completes(b, applied) THEN "completed" ELSE "trading"
  BY <1>4, <1>7 DEF AfterBuy, Curve
<1>9. after \in Curve
  <2>1. after.virtualSol \in u64 /\ after.realSol \in u64
    BY <1>1 DEF U64, b, r, applied
  <2>2. after.virtualToken \in u64 /\ after.realToken \in u64
    BY <1>4, <1>6, <1>7, <1>8, WidthAssumption, SMT DEF u64
  <2>3. after.virtualSol = b.virtualSol + r.sol /\ b.virtualSol + r.sol \in u64
        /\ b.realSol + r.sol \in u64 /\ b.virtualToken - r.token \in u64
        /\ b.realToken - r.token \in u64
    BY <1>8, <2>1, <2>2
  <2> QED
    BY <1>4, <1>7, <2>3 DEF AfterBuy, Curve
<1> HIDE DEF after
<1>10. /\ curve' = [curve EXCEPT ![m] = after] /\ vault' = vault + r.sol
       /\ ata[m] >= r.token
       /\ ata' = [ata EXCEPT ![m] = @ - r.token]
       /\ circulating' = [circulating EXCEPT ![m] = @ + r.token]
       /\ UNCHANGED <<config, pool, lp, born, configures>>
  BY <1>1 DEF after, r, applied, b
<1>11. TypeOK'
  BY <1>6, <1>9, <1>10 DEF IInv, TypeOK
<1>12. curve'[m] = after /\ ata'[m] = ata[m] - r.token
       /\ circulating'[m] = circulating[m] + r.token /\ born'[m] = born[m] /\ pool'[m] = pool[m]
  BY <1>10 DEF IInv, TypeOK
<1>13. CurveUnder(m, d)'
  <2>1. after.realToken <= after.virtualToken
    BY <1>4, <1>6, <1>7, <1>8, WidthAssumption, SMT DEF u64
  <2>2. after.state = "trading" => after.virtualSol > 0 /\ after.virtualToken > 0
    <3> SUFFICES ASSUME after.state = "trading"
                 PROVE  after.virtualSol > 0 /\ after.virtualToken > 0
      OBVIOUS
    <3>1. r.token < b.realToken
      BY <1>6, <1>8
    <3>2. b.virtualSol > 0
      BY <1>3, <1>7 DEF CurveUnder, b
    <3> QED
      BY <1>4, <1>6, <1>7, <1>8, <3>1, <3>2, WidthAssumption, SMT DEF u64
  <2>3. after.state = "completed" => after.realToken = 0
    BY <1>6, <1>7, <1>8, WidthAssumption, SMT DEF u64
  <2>4. circulating[m] + b.realToken = d.realToken /\ ata[m] = b.realToken + d.meteoraToken
        /\ pool[m] = [sol |-> 0, token |-> 0] /\ born[m] = {d} /\ Validate(d)
        /\ b.terms = [meteoraToken |-> d.meteoraToken, meteoraSol |-> d.meteoraSol,
                      fee |-> d.migrationFee]
    BY <1>3, <1>7 DEF CurveUnder, b
  <2>5. circulating[m] \in Nat /\ d.realToken \in Nat /\ d.meteoraToken \in Nat
    BY ConfigsAssumption, WidthAssumption DEF IInv, TypeOK, Config, u64
  <2>6. circulating'[m] + after.realToken = d.realToken
        /\ ata'[m] = after.realToken + d.meteoraToken
    BY <1>6, <1>7, <1>8, <1>12, <2>4, <2>5, WidthAssumption, SMT DEF u64
  <2>7. after.state \in {"trading", "completed"} /\ Validate(d)'
    BY <1>8, <2>4 DEF Validate
  <2> QED
    BY <1>8, <1>9, <1>12, <2>1, <2>2, <2>3, <2>4, <2>6, <2>7 DEF CurveUnder
<1> QED
  BY <1>10, <1>11, <1>13, OneMint DEF IInv, TypeOK
LEMMA SellInv ==
  ASSUME IInv, NEW m \in Mints, NEW amount \in Nat, NEW min \in Nat, Sell(m, amount, min)
  PROVE  IInv'
<1> DEFINE b == curve[m]
           sol == SolForTokens(b.virtualSol, b.virtualToken, amount)
<1>1. PICK c \in config :
        LET fee == TotalFee(c.sellFee, sol)
        IN /\ curve[m] # NoCurve
           /\ b.state = "trading"
           /\ amount > 0
           /\ amount <= circulating[m]
           /\ sol <= b.realSol
           /\ U64(b.virtualToken + amount) /\ U64(b.realToken + amount)
           /\ vault >= sol
           /\ curve' = [curve EXCEPT ![m] = AfterSell(b, amount, sol, fee)]
           /\ vault' = vault - sol
           /\ ata' = [ata EXCEPT ![m] = @ + amount]
           /\ circulating' = [circulating EXCEPT ![m] = @ - amount]
           /\ UNCHANGED <<config, pool, lp, born, configures>>
  BY DEF Sell
<1> DEFINE after == AfterSell(b, amount, sol, TotalFee(c.sellFee, sol))
<1>2. PICK d \in Configs : CurveUnder(m, d)
  BY <1>1 DEF IInv, NotLaunched
<1>3. b \in Curve /\ b.realToken <= b.virtualToken /\ b.virtualSol > 0 /\ b.virtualToken > 0
  BY <1>1, <1>2 DEF CurveUnder
<1>4. /\ b.virtualSol \in u64 /\ b.virtualToken \in u64 /\ b.realSol \in u64
      /\ b.realToken \in u64
  BY <1>3 DEF Curve
<1>5. b.virtualSol \in Nat /\ b.virtualToken \in Nat
  BY <1>4, WidthAssumption DEF u64
<1>6. sol \in Nat /\ sol < b.virtualSol
  BY <1>1, <1>3, <1>5, SellQuote
<1> HIDE DEF b, sol
<1>7. /\ after.virtualToken = b.virtualToken + amount
      /\ after.realToken = b.realToken + amount
      /\ after.virtualSol = b.virtualSol - sol
      /\ after.realSol = b.realSol - sol
      /\ after.terms = b.terms
      /\ after.state = "trading"
  BY <1>1, <1>3 DEF AfterSell, Curve
<1>8. /\ b.virtualToken + amount \in u64 /\ b.realToken + amount \in u64
      /\ b.virtualSol - sol \in u64 /\ b.realSol - sol \in u64
  <2>1. sol <= b.realSol /\ b.virtualToken + amount \in u64 /\ b.realToken + amount \in u64
    BY <1>1 DEF U64
  <2> QED
    BY <1>4, <1>6, <2>1, WidthAssumption, SMT DEF u64
<1>9. after \in Curve
  BY <1>3, <1>8 DEF AfterSell, Curve
<1> HIDE DEF after
<1>10. /\ curve' = [curve EXCEPT ![m] = after] /\ vault' = vault - sol
       /\ vault >= sol /\ amount <= circulating[m]
       /\ ata' = [ata EXCEPT ![m] = @ + amount]
       /\ circulating' = [circulating EXCEPT ![m] = @ - amount]
       /\ UNCHANGED <<config, pool, lp, born, configures>>
  BY <1>1 DEF after
<1>11. TypeOK'
  BY <1>6, <1>9, <1>10 DEF IInv, TypeOK
<1>12. curve'[m] = after /\ ata'[m] = ata[m] + amount
       /\ circulating'[m] = circulating[m] - amount /\ born'[m] = born[m] /\ pool'[m] = pool[m]
  BY <1>10 DEF IInv, TypeOK
<1>13. CurveUnder(m, d)'
  <2>1. after.realToken <= after.virtualToken /\ after.virtualSol > 0 /\ after.virtualToken > 0
    BY <1>3, <1>4, <1>6, <1>7, WidthAssumption, SMT DEF u64
  <2>2. circulating[m] + b.realToken = d.realToken /\ ata[m] = b.realToken + d.meteoraToken
        /\ pool[m] = [sol |-> 0, token |-> 0] /\ born[m] = {d} /\ Validate(d)
        /\ b.terms = [meteoraToken |-> d.meteoraToken, meteoraSol |-> d.meteoraSol,
                      fee |-> d.migrationFee]
    BY <1>1, <1>2 DEF CurveUnder, b
  <2>3. circulating[m] \in Nat /\ d.realToken \in Nat /\ d.meteoraToken \in Nat
    BY ConfigsAssumption, WidthAssumption DEF IInv, TypeOK, Config, u64
  <2>4. circulating'[m] + after.realToken = d.realToken
        /\ ata'[m] = after.realToken + d.meteoraToken
    BY <1>4, <1>7, <1>12, <2>2, <2>3, WidthAssumption, SMT DEF u64
  <2>5. Validate(d)'
    BY <2>2 DEF Validate
  <2> QED
    BY <1>7, <1>9, <1>12, <2>1, <2>2, <2>4, <2>5 DEF CurveUnder
<1> QED
  BY <1>10, <1>11, <1>13, OneMint DEF IInv, TypeOK

LEMMA CreatePoolInv ==
  ASSUME IInv, NEW m \in Mints, CreatePool(m)
  PROVE  IInv'
<1> DEFINE b == curve[m]
           t == MigrationTerms(m)
           fee == TotalFee(t.fee, b.realSol)
           outflow == t.meteoraSol + FlatFee + fee
           after == AfterMigration(b, outflow)
<1>1. /\ b.state = "completed"
      /\ b.realSol >= RentReserve + FlatFee + fee + t.meteoraSol
      /\ ata[m] >= t.meteoraToken
      /\ vault >= outflow
      /\ curve' = [curve EXCEPT ![m] = after]
      /\ vault' = vault - outflow
      /\ ata' = [ata EXCEPT ![m] = @ - t.meteoraToken]
      /\ pool' = [pool EXCEPT ![m] = [sol |-> @.sol + t.meteoraSol,
                                      token |-> @.token + t.meteoraToken]]
      /\ lp' = [lp EXCEPT ![m].payer = @ + t.meteoraSol]
      /\ UNCHANGED <<config, circulating, born, configures>>
  BY DEF CreatePool, MigrationIsFunded
<1>2. PICK d \in Configs : CurveUnder(m, d)
  BY <1>1 DEF IInv, NotLaunched, NoCurve
<1>3. b \in Curve /\ b.realToken = 0
  BY <1>1, <1>2 DEF CurveUnder
<1>4. t = [meteoraToken |-> d.meteoraToken, meteoraSol |-> d.meteoraSol, fee |-> d.migrationFee]
  BY <1>2 DEF CurveUnder, MigrationTerms
<1>5. /\ t.meteoraSol \in Nat /\ t.meteoraToken \in Nat /\ t.fee \in Fees
      /\ t.meteoraSol = d.meteoraSol /\ t.meteoraToken = d.meteoraToken
      /\ b.realSol \in Nat /\ b.virtualToken \in Nat /\ d.realToken \in Nat
  BY <1>3, <1>4, ConfigsAssumption, WidthAssumption DEF Config, Curve, u64
<1>6. fee \in Nat
  BY <1>5, FeeNat
<1> HIDE DEF t, fee
<1>7. outflow \in Nat /\ outflow <= b.realSol
  BY <1>1, <1>5, <1>6, ScaleAssumption, SMT
<1> HIDE DEF outflow
<1>8. b.realSol - outflow \in u64 /\ 0 \in u64
  <2>1. b.realSol \in u64
    BY <1>3 DEF Curve
  <2> QED
    BY <1>7, <2>1, WidthAssumption, SMT DEF u64
<1> HIDE DEF b
<1>9. after \in Curve
  BY <1>3, <1>8 DEF AfterMigration, Curve
<1>10. /\ after.state = "migrated" /\ after.realToken = 0 /\ after.terms = b.terms
       /\ after.virtualToken = b.virtualToken
  BY <1>3 DEF AfterMigration, Curve
<1> HIDE DEF after
<1>11. /\ circulating[m] + b.realToken = d.realToken /\ ata[m] = b.realToken + d.meteoraToken
       /\ pool[m] = [sol |-> 0, token |-> 0] /\ born[m] = {d} /\ Validate(d)
       /\ b.terms = [meteoraToken |-> d.meteoraToken, meteoraSol |-> d.meteoraSol,
                     fee |-> d.migrationFee]
  BY <1>1, <1>2 DEF CurveUnder, b
<1>12. /\ [sol |-> pool[m].sol + t.meteoraSol, token |-> pool[m].token + t.meteoraToken]
            = [sol |-> d.meteoraSol, token |-> d.meteoraToken]
       /\ ata[m] - t.meteoraToken = 0
       /\ d.meteoraSol \in Nat /\ d.meteoraToken \in Nat
  <2>1. pool[m].sol + t.meteoraSol = d.meteoraSol
        /\ pool[m].token + t.meteoraToken = d.meteoraToken
    BY <1>5, <1>11, SMT
  <2>2. ata[m] - t.meteoraToken = 0
    BY <1>3, <1>5, <1>11, SMT
  <2> QED
    BY <2>1, <2>2, <1>5
<1>13. TypeOK'
  <2>1. pool' \in [Mints -> [sol : Nat, token : Nat]]
    BY <1>1, <1>12 DEF IInv, TypeOK
  <2>2. lp' \in [Mints -> [payer : Nat, creator : Nat, platform : Nat]]
    BY <1>1, <1>5 DEF IInv, TypeOK
  <2>3. curve' \in [Mints -> Curve \cup {NoCurve}] /\ ata' \in [Mints -> Nat] /\ vault' \in Nat
    BY <1>1, <1>5, <1>7, <1>9, <1>12, SMT DEF IInv, TypeOK
  <2> QED
    BY <1>1, <2>1, <2>2, <2>3 DEF IInv, TypeOK
<1>14. /\ curve'[m] = after /\ ata'[m] = ata[m] - t.meteoraToken
       /\ pool'[m] = [sol |-> pool[m].sol + t.meteoraSol, token |-> pool[m].token + t.meteoraToken]
       /\ circulating'[m] = circulating[m] /\ born'[m] = born[m]
  BY <1>1 DEF IInv, TypeOK
<1>15. CurveUnder(m, d)'
  <2>1. circulating[m] = d.realToken
    BY <1>3, <1>5, <1>11, SMT DEF IInv, TypeOK
  <2>2. after.realToken <= after.virtualToken
    BY <1>5, <1>10 DEF b
  <2>3. Validate(d)'
    BY <1>11 DEF Validate
  <2> QED
    BY <1>9, <1>10, <1>11, <1>12, <1>14, <2>1, <2>2, <2>3 DEF CurveUnder
<1> QED
  BY <1>1, <1>13, <1>15, OneMint DEF IInv, TypeOK

LEMMA LockPoolInv ==
  ASSUME IInv, NEW m \in Mints, LockPool(m)
  PROVE  IInv'
<1> DEFINE l == lp[m]
           new == [payer |-> 0, creator |-> l.creator + l.payer \div 2,
                   platform |-> l.platform + l.payer - l.payer \div 2]
<1>1. l \in [payer : Nat, creator : Nat, platform : Nat]
  BY DEF IInv, TypeOK
<1>2. l.payer \in Nat /\ l.creator \in Nat /\ l.platform \in Nat
  BY <1>1
<1>3. l.payer \div 2 \in Nat /\ 2 * (l.payer \div 2) <= l.payer
  BY <1>2, DivFacts
<1>4. l.creator + l.payer \div 2 \in Nat /\ l.platform + l.payer - l.payer \div 2 \in Nat
  BY <1>2, <1>3, SMT
<1>5. new \in [payer : Nat, creator : Nat, platform : Nat]
  BY <1>4
<1>6. lp' = [lp EXCEPT ![m] = new]
  BY DEF LockPool
<1> HIDE DEF new
<1>7. TypeOK'
  BY <1>5, <1>6 DEF IInv, TypeOK, LockPool
<1>8. \A n \in Mints : NotLaunched(n)' \/ \E c \in Configs : CurveUnder(n, c)'
  <2> TAKE n \in Mints
  <2>1. CASE NotLaunched(n)
    BY <2>1 DEF NotLaunched, LockPool
  <2>2. CASE \E c \in Configs : CurveUnder(n, c)
    BY <2>2 DEF CurveUnder, LockPool
  <2> QED
    BY <2>1, <2>2 DEF IInv
<1>9. \A c \in config' : Validate(c)'
  BY DEF IInv, LockPool, Validate
<1> QED
  BY <1>7, <1>8, <1>9 DEF IInv

LEMMA NextInv == IInv /\ [Next]_vars => IInv'
<1> SUFFICES ASSUME IInv, [Next]_vars PROVE IInv'
  OBVIOUS
<1>1. ASSUME NEW c \in Configs, Configure(c) PROVE IInv'
  BY <1>1, ConfigureInv
<1>2. ASSUME NEW m \in Mints, CreateBondingCurve(m) PROVE IInv'
  BY <1>2, CreateInv
<1>3. ASSUME NEW m \in Mints, NEW amount \in Amounts, NEW min \in Limits, NEW max \in Limits,
             Buy(m, amount, min, max)
      PROVE  IInv'
  BY <1>3, BuyInv, InputAssumption
<1>4. ASSUME NEW m \in Mints, NEW amount \in Amounts, NEW min \in Limits, Sell(m, amount, min)
      PROVE  IInv'
  BY <1>4, SellInv, InputAssumption
<1>5. ASSUME NEW m \in Mints, CreatePool(m) PROVE IInv'
  BY <1>5, CreatePoolInv
<1>6. ASSUME NEW m \in Mints, LockPool(m) PROVE IInv'
  BY <1>6, LockPoolInv
<1>7. CASE UNCHANGED vars
  BY <1>7 DEF IInv, TypeOK, NotLaunched, CurveUnder, Validate, vars
<1> QED
  BY <1>1, <1>2, <1>3, <1>4, <1>5, <1>6, <1>7 DEF Next

\* The inductive invariant: types, the accounting of tokens and lamports, and
\* what the configuration of a curve was checked for (every instruction).
THEOREM InvariantHolds == Spec => []IInv
  BY InitInv, NextInv, PTL DEF Spec

-----------------------------------------------------------------------------
(* The theorems. *)

\* Every variable keeps its type: no reserve underflows or outgrows its u64.
THEOREM TypeCorrect == Spec => []TypeOK
  BY InvariantHolds, InvImplies, PTL

\* The tokens of every curve stay accounted for: what the traders do not have
\* is in the vault's account, with what the pool will need.
THEOREM TokensStayBacked == Spec => []TokensBacked
  BY InvariantHolds, InvImplies, PTL

\* A curve migrates at most once, with the amounts it was created with, however
\* often and to whatever the admin reconfigures the program.
THEOREM PoolsAreAsPromised == Spec => []PoolAsPromised
  BY InvariantHolds, InvImplies, PTL

LEMMA ProductStep ==
  ASSUME IInv, NEW m \in Mints, [Next]_vars,
         Launched(m), curve[m].state = "trading", curve'[m].state = "trading"
  PROVE  /\ Product(curve'[m]) + curve'[m].virtualSol > Product(curve[m])
         /\ curve'[m].virtualToken > curve[m].virtualToken
              => Product(curve'[m]) >= Product(curve[m])
<1> DEFINE b == curve[m]
           after == curve'[m]
<1>1. PICK d \in Configs : CurveUnder(m, d)
  BY DEF IInv, NotLaunched, Launched
<1>2. /\ b \in Curve /\ b.virtualSol \in Nat /\ b.virtualToken \in Nat
      /\ b.realToken \in Nat
      /\ b.realToken <= b.virtualToken /\ b.virtualSol > 0 /\ b.virtualToken > 0
  BY <1>1, WidthAssumption DEF CurveUnder, Curve, u64
<1>3. ASSUME NEW vs \in Nat, NEW vt \in Nat
      PROVE  vs * (vt * TokenScale) = vs * vt * TokenScale /\ vs * vt * TokenScale \in Nat
  BY ScaleAssumption, SMT
<1>4. CASE after = b
  <2>1. Product(b) \in Nat
    BY <1>2, <1>3 DEF Product
  <2> QED
    BY <1>2, <1>4, <2>1, SMT
<1>5. ASSUME NEW amount \in Amounts, NEW min \in Limits, NEW max \in Limits,
             Buy(m, amount, min, max)
      PROVE  Product(after) + after.virtualSol > Product(b)
             /\ ~(after.virtualToken > b.virtualToken)
  <2>1. PICK c \in config :
          LET applied == amount - TotalFee(c.buyFee, amount)
          IN /\ BuyComputes(b, applied)
             /\ curve' = [curve EXCEPT ![m] =
                            AfterBuy(b, BuyResult(b, applied), Completes(b, applied))]
    BY <1>5 DEF Buy
  <2> DEFINE sol == amount - TotalFee(c.buyFee, amount)
             r == BuyResult(b, sol)
  <2>2. sol \in Nat /\ sol > 0
    <3>1. c \in Config /\ amount \in Nat
      BY ConfigsAssumption, InputAssumption DEF IInv, TypeOK
    <3>2. TotalFee(c.buyFee, amount) \in Nat
      BY <3>1, FeeNat DEF Config
    <3> QED
      BY <2>1, <3>1, <3>2, SMT DEF BuyComputes
  <2>3. after = AfterBuy(b, r, Completes(b, sol))
    BY <2>1 DEF IInv, TypeOK
  <2>4. ~Completes(b, sol)
    BY <1>2, <2>3 DEF AfterBuy, Curve
  <2>5. r.token = TokensForSol(b.virtualSol, b.virtualToken, sol) /\ r.sol = sol
    BY <1>2, <2>1, <2>2, <2>4, BuyResultFacts
  <2>6. after.virtualSol = b.virtualSol + sol
        /\ after.virtualToken = b.virtualToken - TokensForSol(b.virtualSol, b.virtualToken, sol)
    BY <1>2, <2>3, <2>5 DEF AfterBuy, Curve
  <2>7. /\ TokensForSol(b.virtualSol, b.virtualToken, sol) \in Nat
        /\ TokensForSol(b.virtualSol, b.virtualToken, sol) <= b.virtualToken
        /\ after.virtualSol * (after.virtualToken * TokenScale) + after.virtualSol
             > b.virtualSol * (b.virtualToken * TokenScale)
    BY <1>2, <2>2, <2>6, BuyQuote
  <2>8. after.virtualSol \in Nat /\ after.virtualToken \in Nat
        /\ ~(after.virtualToken > b.virtualToken)
    BY <1>2, <2>2, <2>6, <2>7, SMT
  <2> QED
    BY <1>2, <1>3, <2>7, <2>8 DEF Product
<1>6. ASSUME NEW amount \in Amounts, NEW min \in Limits, Sell(m, amount, min)
      PROVE  Product(after) + after.virtualSol > Product(b) /\ Product(after) >= Product(b)
  <2> DEFINE sol == SolForTokens(b.virtualSol, b.virtualToken, amount)
  <2>1. PICK c \in config :
          /\ amount > 0
          /\ curve' = [curve EXCEPT ![m] = AfterSell(b, amount, sol, TotalFee(c.sellFee, sol))]
    BY <1>6 DEF Sell
  <2>2. amount \in Nat
    BY InputAssumption
  <2>3. after = AfterSell(b, amount, sol, TotalFee(c.sellFee, sol))
    BY <2>1 DEF IInv, TypeOK
  <2>4. after.virtualSol = b.virtualSol - sol /\ after.virtualToken = b.virtualToken + amount
    BY <1>2, <2>3 DEF AfterSell, Curve
  <2>5. /\ sol \in Nat /\ sol < b.virtualSol
        /\ after.virtualSol * (after.virtualToken * TokenScale)
             >= b.virtualSol * (b.virtualToken * TokenScale)
    BY <1>2, <2>1, <2>2, <2>4, SellQuote
  <2> HIDE DEF sol
  <2>6. after.virtualSol \in Nat /\ after.virtualSol > 0 /\ after.virtualToken \in Nat
    BY <1>2, <2>2, <2>4, <2>5, SMT
  <2>7. Product(after) >= Product(b) /\ Product(after) \in Nat /\ Product(b) \in Nat
    BY <1>2, <1>3, <2>5, <2>6 DEF Product
  <2> QED
    BY <2>6, <2>7, SMT
<1>7. ASSUME NEW n \in Mints, n # m,
             \/ CreateBondingCurve(n) \/ CreatePool(n) \/ LockPool(n)
             \/ \E amount \in Amounts, min \in Limits, max \in Limits : Buy(n, amount, min, max)
             \/ \E amount \in Amounts, min \in Limits : Sell(n, amount, min)
      PROVE  after = b
  BY <1>7 DEF CreateBondingCurve, CreatePool, LockPool, Buy, Sell, IInv, TypeOK
<1>8. ASSUME CreateBondingCurve(m) \/ CreatePool(m) \/ LockPool(m) PROVE after = b
  BY <1>8 DEF CreateBondingCurve, CreatePool, LockPool, Launched
<1>9. ASSUME NEW c \in Configs, Configure(c) PROVE after = b
  BY <1>9 DEF Configure
<1>10. CASE UNCHANGED vars
  BY <1>4, <1>10 DEF vars
<1> HIDE DEF b, after
<1> QED
  BY <1>4, <1>5, <1>6, <1>7, <1>8, <1>9, <1>10 DEF Next, b, after

\* Rounding takes less than one new_sol of a trading curve's product per buy and
\* nothing per sell, at every width, scale and fee.
THEOREM ProductAlwaysHolds == Spec => ProductHolds
<1>1. IInv /\ [Next]_vars =>
        [\A m \in Mints :
           /\ Launched(m) /\ curve[m].state = "trading"
           /\ curve'[m].state = "trading"
           => /\ Product(curve'[m]) + curve'[m].virtualSol > Product(curve[m])
              /\ curve'[m].virtualToken > curve[m].virtualToken
                   => Product(curve'[m]) >= Product(curve[m])]_vars
  BY ProductStep
<1> QED
  BY <1>1, InvariantHolds, PTL DEF Spec, ProductHolds

\* A trader who sells what he just bought gets no more than he paid, before
\* fees, while a lamport is worth at least one scaled token.
THEOREM NoRoundTripProfit == Spec => []RoundTripNeverProfits
<1>1. IInv => RoundTripNeverProfits
  <2> SUFFICES ASSUME IInv, NEW m \in Mints, Launched(m), curve[m].state = "trading",
                      NEW sol \in Amounts \ {0},
                      TokensForSol(curve[m].virtualSol, curve[m].virtualToken, sol) > 0,
                      curve[m].virtualSol + sol <= curve[m].virtualToken * TokenScale
               PROVE  SolForTokens(curve[m].virtualSol + sol,
                        curve[m].virtualToken
                          - TokensForSol(curve[m].virtualSol, curve[m].virtualToken, sol),
                        TokensForSol(curve[m].virtualSol, curve[m].virtualToken, sol)) <= sol
    BY DEF RoundTripNeverProfits
  <2>1. curve[m] \in Curve
    BY DEF IInv, TypeOK, Launched
  <2>2. curve[m].virtualSol \in Nat /\ curve[m].virtualToken \in Nat
    BY <2>1, WidthAssumption DEF Curve, u64
  <2>3. sol \in Nat /\ sol > 0
    BY InputAssumption
  <2> QED
    BY <2>2, <2>3, RoundTrip
<1> QED
  BY <1>1, InvariantHolds, PTL

-----------------------------------------------------------------------------
(* The vault.                                                              *)

\* An empty vault until the program is configured, and from then on the seed
\* and what the curves raised.
VaultInv ==
  IF config = {} THEN vault = 0 /\ \A m \in Mints : ~Launched(m)
  ELSE vault = Seed + SumFunction(RealSol)

\* The reserves of all curves are numbers that can be added up.
LEMMA RealSolType == IInv => RealSol \in [Mints -> Nat]
<1> SUFFICES ASSUME IInv, NEW m \in Mints
             PROVE  (IF Launched(m) THEN curve[m].realSol ELSE 0) \in Nat
  BY DEF RealSol
<1>1. Launched(m) => curve[m] \in Curve
  BY DEF IInv, TypeOK, Launched
<1> QED
  BY <1>1, WidthAssumption DEF Curve, u64

\* An instruction that moves d lamports into the vault books them on its curve.
LEMMA VaultMoves ==
  ASSUME IInv, VaultInv, NEW m \in Mints, NEW d \in Int, NEW after,
         config # {}, UNCHANGED config, vault' = vault + d,
         curve' = [curve EXCEPT ![m] = after], after # NoCurve,
         after.realSol = (IF Launched(m) THEN curve[m].realSol ELSE 0) + d
  PROVE  VaultInv'
<1>1. RealSol \in [Mints -> Nat] /\ curve \in [Mints -> Curve \cup {NoCurve}]
  BY RealSolType DEF IInv, TypeOK
<1>2. RealSol' = [RealSol EXCEPT ![m] = @ + d]
  BY <1>1 DEF RealSol, Launched
<1>3. RealSol \in [Mints -> Int]
  BY <1>1
<1>4. SumFunction(RealSol') = SumFunction(RealSol) + d /\ SumFunction(RealSol) \in Int
  BY <1>2, <1>3, MintsAssumption, SumChange, SumType
<1>5. vault = Seed + SumFunction(RealSol) /\ config' # {}
  BY DEF VaultInv
<1>6. vault' = Seed + SumFunction(RealSol')
  BY <1>4, <1>5, ScaleAssumption
<1> QED
  BY <1>5, <1>6 DEF VaultInv

\* What a buy, a sell and a migration make of a curve's reserve.
LEMMA BoughtFields ==
  ASSUME NEW b \in Curve, NEW r, NEW completes \in BOOLEAN
  PROVE  /\ AfterBuy(b, r, completes) # NoCurve
         /\ AfterBuy(b, r, completes).realSol = b.realSol + r.sol
<1>1. NoCurve.state = "none" /\ b.state # "none"
  BY DEF NoCurve, Curve
<1>2. /\ AfterBuy(b, r, completes).state \in {b.state, "completed"}
      /\ AfterBuy(b, r, completes).realSol = b.realSol + r.sol
  BY DEF AfterBuy, Curve
<1> QED
  BY <1>1, <1>2

LEMMA SoldFields ==
  ASSUME NEW b \in Curve, NEW tokens, NEW sol, NEW fee
  PROVE  /\ AfterSell(b, tokens, sol, fee) # NoCurve
         /\ AfterSell(b, tokens, sol, fee).realSol = b.realSol - sol
<1>1. NoCurve.state = "none" /\ b.state # "none"
  BY DEF NoCurve, Curve
<1>2. /\ AfterSell(b, tokens, sol, fee).state = b.state
      /\ AfterSell(b, tokens, sol, fee).realSol = b.realSol - sol
  BY DEF AfterSell, Curve
<1> QED
  BY <1>1, <1>2

LEMMA MigratedFields ==
  ASSUME NEW b \in Curve, NEW outflow
  PROVE  /\ AfterMigration(b, outflow) # NoCurve
         /\ AfterMigration(b, outflow).realSol = b.realSol - outflow
<1>1. /\ NoCurve.state = "none" /\ AfterMigration(b, outflow).state = "migrated"
      /\ AfterMigration(b, outflow).realSol = b.realSol - outflow
  BY DEF AfterMigration, Curve, NoCurve
<1> QED
  BY <1>1

\* A buy moves what its result says, whatever fee it charged before.
LEMMA BuyMoves ==
  ASSUME IInv, VaultInv, NEW m \in Mints, NEW amount \in Nat, NEW min \in Nat, NEW max \in Nat,
         Buy(m, amount, min, max)
  PROVE  VaultInv'
<1> DEFINE b == curve[m]
<1>1. PICK c \in config :
        LET applied == amount - TotalFee(c.buyFee, amount)
            r == BuyResult(b, applied)
        IN /\ b # NoCurve
           /\ BuyComputes(b, applied)
           /\ curve' = [curve EXCEPT ![m] = AfterBuy(b, r, Completes(b, applied))]
           /\ vault' = vault + r.sol
           /\ UNCHANGED config
  BY DEF Buy
<1> DEFINE applied == amount - TotalFee(c.buyFee, amount)
           r == BuyResult(b, applied)
<1>2. b \in Curve /\ b.realToken <= b.virtualToken
  BY <1>1 DEF IInv, NotLaunched, CurveUnder
<1>3. applied \in Nat
  <2>1. c \in Config
    BY ConfigsAssumption DEF IInv, TypeOK
  <2>2. TotalFee(c.buyFee, amount) \in Nat
    BY <2>1, FeeNat DEF Config
  <2> QED
    BY <1>1, <2>2, SMT DEF BuyComputes
<1>4. r.sol \in Nat
  BY <1>1, <1>2, <1>3, BuyResultFacts
<1>5. Completes(b, applied) \in BOOLEAN
  BY DEF Completes
<1>6. /\ AfterBuy(b, r, Completes(b, applied)) # NoCurve
      /\ AfterBuy(b, r, Completes(b, applied)).realSol = b.realSol + r.sol
  BY <1>2, <1>5, BoughtFields
<1> DEFINE after == AfterBuy(b, r, Completes(b, applied))
           d == r.sol
<1>7. /\ d \in Int /\ after # NoCurve /\ config # {} /\ UNCHANGED config /\ vault' = vault + d
      /\ curve' = [curve EXCEPT ![m] = after] /\ after.realSol = curve[m].realSol + d
      /\ Launched(m)
  BY <1>1, <1>4, <1>6 DEF Launched
<1> HIDE DEF after, d
<1> QED
  BY <1>7, VaultMoves

\* A sell takes the quote and not what is left of it after the fee.
LEMMA SellMoves ==
  ASSUME IInv, VaultInv, NEW m \in Mints, NEW amount \in Nat, NEW min \in Nat,
         Sell(m, amount, min)
  PROVE  VaultInv'
<1> DEFINE b == curve[m]
           sol == SolForTokens(b.virtualSol, b.virtualToken, amount)
<1>1. PICK c \in config :
        /\ b # NoCurve /\ amount > 0
        /\ curve' = [curve EXCEPT ![m] = AfterSell(b, amount, sol, TotalFee(c.sellFee, sol))]
        /\ vault' = vault - sol
        /\ UNCHANGED config
  BY DEF Sell
<1>2. b \in Curve
  BY <1>1 DEF IInv, NotLaunched, CurveUnder
<1>3. sol \in Nat
  <2>1. b.virtualSol \in Nat /\ b.virtualToken \in Nat
    BY <1>2, WidthAssumption DEF Curve, u64
  <2> QED
    BY <1>1, <2>1, SellQuote
<1> DEFINE after == AfterSell(b, amount, sol, TotalFee(c.sellFee, sol))
<1>4. after # NoCurve /\ after.realSol = b.realSol - sol
  BY <1>2, SoldFields
<1> HIDE DEF after, sol
<1>5. b.realSol \in Nat /\ vault \in Nat
  BY <1>2, WidthAssumption DEF Curve, u64, IInv, TypeOK
<1>6. /\ -sol \in Int /\ after # NoCurve /\ config # {} /\ UNCHANGED config
      /\ vault' = vault + (-sol) /\ curve' = [curve EXCEPT ![m] = after]
      /\ after.realSol = curve[m].realSol + (-sol) /\ Launched(m)
  BY <1>1, <1>3, <1>4, <1>5 DEF Launched, after
<1> QED
  BY <1>6, VaultMoves

\* A migration takes the pool's lamports and the fees.
LEMMA MigrationMoves ==
  ASSUME IInv, VaultInv, NEW m \in Mints, CreatePool(m)
  PROVE  VaultInv'
<1> DEFINE b == curve[m]
           t == MigrationTerms(m)
           outflow == t.meteoraSol + FlatFee + TotalFee(t.fee, b.realSol)
           after == AfterMigration(b, outflow)
<1>1. /\ b.state = "completed" /\ config # {} /\ UNCHANGED config
      /\ curve' = [curve EXCEPT ![m] = after]
      /\ vault' = vault - outflow
  BY DEF CreatePool
<1>2. b \in Curve
  <2>1. b # NoCurve
    BY <1>1 DEF NoCurve
  <2> QED
    BY <2>1 DEF IInv, TypeOK
<1>3. outflow \in Nat
  <2>1. t.meteoraSol \in Nat /\ t.fee \in Fees /\ b.realSol \in Nat
    BY <1>2, WidthAssumption DEF MigrationTerms, Curve, u64
  <2>2. TotalFee(t.fee, b.realSol) \in Nat
    BY <2>1, FeeNat
  <2> QED
    BY <2>1, <2>2, ScaleAssumption
<1> HIDE DEF outflow
<1>4. after # NoCurve /\ after.realSol = b.realSol - outflow /\ Launched(m)
  BY <1>2, MigratedFields, NoCurveIsNone DEF Launched
<1> HIDE DEF after
<1>5. b.realSol \in Nat /\ vault \in Nat
  BY <1>2, WidthAssumption DEF Curve, u64, IInv, TypeOK
<1>6. /\ -outflow \in Int /\ vault' = vault + (-outflow)
      /\ after.realSol = curve[m].realSol + (-outflow)
  BY <1>1, <1>3, <1>4, <1>5
<1> QED
  BY <1>1, <1>4, <1>6, VaultMoves

\* A new curve has raised nothing.
LEMMA LaunchMoves ==
  ASSUME IInv, VaultInv, NEW m \in Mints, CreateBondingCurve(m)
  PROVE  VaultInv'
<1>1. PICK c \in config :
        /\ curve[m] = NoCurve
        /\ curve' = [curve EXCEPT ![m] = NewCurve(c)]
        /\ UNCHANGED <<config, vault>>
  BY DEF CreateBondingCurve
<1>2. NewCurve(c) # NoCurve /\ NewCurve(c).realSol = 0 /\ ~Launched(m)
  <2>1. NewCurve(c).state = "trading" /\ NoCurve.state = "none" /\ NewCurve(c).realSol = 0
    BY DEF NewCurve, NoCurve
  <2> QED
    BY <1>1, <2>1 DEF Launched
<1>3. vault' = vault + 0 /\ NewCurve(c).realSol = 0 + 0
  BY <1>1, <1>2 DEF IInv, TypeOK
<1> DEFINE d == 0
           after == NewCurve(c)
<1>4. /\ d \in Int /\ after # NoCurve /\ config # {} /\ UNCHANGED config
      /\ vault' = vault + d /\ curve' = [curve EXCEPT ![m] = after]
      /\ after.realSol = (IF Launched(m) THEN curve[m].realSol ELSE 0) + d
  BY <1>1, <1>2, <1>3
<1> HIDE DEF d, after
<1> QED
  BY <1>4, VaultMoves

\* The first configuration seeds the vault, a later one finds the seed in it.
LEMMA SeedMoves ==
  ASSUME IInv, VaultInv, NEW c \in Configs, Configure(c)
  PROVE  VaultInv'
<1>1. /\ config' = {c} /\ UNCHANGED curve
      /\ vault' = IF vault = 0 THEN Seed ELSE vault
  BY DEF Configure
<1>2. RealSol' = RealSol
  BY <1>1 DEF RealSol, Launched
<1>3. CASE config = {}
  <2>1. RealSol = [m \in Mints |-> 0]
    BY <1>3 DEF VaultInv, RealSol
  <2>2. SumFunction(RealSol) = 0 /\ vault' = Seed
    BY <1>1, <1>3, <2>1, MintsAssumption, SumZero DEF VaultInv
  <2> QED
    BY <1>1, <1>2, <2>2, ScaleAssumption DEF VaultInv
<1>4. CASE config # {}
  <2>1. SumFunction(RealSol) \in Nat
    BY RealSolType, MintsAssumption, SumNat
  <2>2. vault = Seed + SumFunction(RealSol) /\ vault # 0
    BY <1>4, <2>1, ScaleAssumption DEF VaultInv
  <2> QED
    BY <1>1, <1>2, <2>2 DEF VaultInv
<1> QED
  BY <1>3, <1>4

\* No instruction moves lamports that it does not book.
LEMMA NextVault == IInv /\ VaultInv /\ [Next]_vars => VaultInv'
<1> SUFFICES ASSUME IInv, VaultInv, [Next]_vars PROVE VaultInv'
  OBVIOUS
<1>1. ASSUME NEW m \in Mints, NEW amount \in Amounts, NEW min \in Limits, NEW max \in Limits,
             Buy(m, amount, min, max)
      PROVE  VaultInv'
  BY <1>1, BuyMoves, InputAssumption
<1>2. ASSUME NEW m \in Mints, NEW amount \in Amounts, NEW min \in Limits, Sell(m, amount, min)
      PROVE  VaultInv'
  BY <1>2, SellMoves, InputAssumption
<1>3. ASSUME UNCHANGED <<config, curve, vault>>
      PROVE  VaultInv'
  BY <1>3 DEF VaultInv, RealSol, Launched
<1>4. ASSUME NEW m \in Mints, LockPool(m)
      PROVE  VaultInv'
  BY <1>3, <1>4 DEF LockPool
<1>5. CASE UNCHANGED vars
  BY <1>3, <1>5 DEF vars
<1> QED
  BY <1>1, <1>2, <1>4, <1>5, SeedMoves, LaunchMoves, MigrationMoves DEF Next

\* The vault holds its seed and the reserves of all curves, of any number of
\* them: what a trader sells one curve, or a migration takes from it, is never
\* paid with what another one raised (swap, create_pool).
THEOREM VaultAlwaysCovers == Spec => []VaultCoversCurves
<1>1. Init => VaultInv
  BY DEF Init, VaultInv, Launched
<1>2. VaultInv => VaultCoversCurves
  BY DEF VaultInv, VaultCoversCurves
<1> QED
  BY <1>1, <1>2, NextVault, InvariantHolds, PTL DEF Spec

-----------------------------------------------------------------------------
(* What a curve has raised when it sells out.                              *)

\* Products keep an inequality.
LEMMA MulMonotone ==
  ASSUME NEW a \in Int, NEW b \in Int, NEW c \in Nat, a <= b
  PROVE  c * a <= c * b
  BY SMT

\* A buy costs the product at most one part in end, the least there is of the
\* scaled tokens: n buys cost less than n parts of the first product.
LEMMA LossOfBuy ==
  ASSUME NEW k \in Nat, NEW x \in Nat, NEW z \in Nat, NEW end \in Nat, NEW start \in Nat,
         NEW n \in Nat,
         end <= z, x * z + x > k, k * end >= start * (end - n)
  PROVE  (x * z) * end >= start * (end - (n + 1))
<1> DEFINE k2 == x * z
           w == start * (end - (n + 1))
           v == start * (end - n)
<1>1. k2 \in Nat /\ x * end <= k2
  <2>1. x * end <= x * z
    BY MulMonotone
  <2> QED
    BY <2>1, MulNat
<1>2. v \in Int /\ w \in Int
  BY SMT
<1>3. end * (k2 + x) >= end * k
  BY <1>1, MulMonotone
<1>4. end * (k2 + x) = end * k2 + x * end
  BY <1>1, SMT
<1>5. end * k2 + k2 >= v
  <2>1. end * k2 \in Nat /\ x * end \in Nat /\ end * k = k * end /\ k * end \in Nat
    BY <1>1, MulNat, SMT
  <2> QED
    BY <2>1, <1>1, <1>2, <1>3, <1>4, SMT
<1>6. end * (end * k2 + k2) >= end * v
  <2>1. end * k2 + k2 \in Int
    BY <1>1, SMT
  <2> QED
    BY <2>1, <1>2, <1>5, MulMonotone
<1>7. end * v = (end + 1) * w + start * (n + 1)
  BY SMT
<1>8. end * (end * k2 + k2) = (end + 1) * (end * k2)
  BY <1>1, SMT
<1>9. (end + 1) * (end * k2) >= (end + 1) * w
  <2>1. start * (n + 1) \in Nat
    BY MulNat
  <2>2. (end + 1) * w \in Int
    BY <1>2, SMT
  <2> QED
    BY <2>1, <2>2, <1>6, <1>7, <1>8, <1>1, <1>2, SMT
<1>10. end * k2 >= w
  <2> SUFFICES ASSUME end * k2 + 1 <= w PROVE FALSE
    BY <1>1, <1>2, MulNat, SMT
  <2>1. (end + 1) * (end * k2 + 1) <= (end + 1) * w
    <3>1. end * k2 + 1 \in Int /\ end + 1 \in Nat
      BY <1>1, MulNat, SMT
    <3> QED
      BY <3>1, <1>2, MulMonotone
  <2>2. (end + 1) * (end * k2 + 1) = (end + 1) * (end * k2) + (end + 1)
    BY <1>1, SMT
  <2>3. (end + 1) * w \in Int /\ (end + 1) * (end * k2) \in Int
    BY <1>1, <1>2, SMT
  <2> QED
    BY <2>1, <2>2, <2>3, <1>9, SMT
<1> QED
  BY <1>1, <1>10, SMT

\* The last buy pays its offer: the virtual lamports are then within reach.
LEMMA OfferReaches ==
  ASSUME NEW k \in Nat, NEW x \in Nat, NEW end \in Nat, NEW target \in Nat, NEW bound \in Int,
         end > 0, x * (end + 1) > k, k * end >= bound,
         target * (end * (end + 1)) <= bound
  PROVE  x >= target
<1>1. end * (x * (end + 1)) >= end * k
  <2>1. x * (end + 1) \in Nat
    BY MulNat
  <2> QED
    BY <2>1, MulMonotone
<1>2. end * (x * (end + 1)) = (end * (end + 1)) * x
      /\ target * (end * (end + 1)) = (end * (end + 1)) * target
      /\ end * k = k * end
  BY SMT
<1> DEFINE d == end * (end + 1)
<1>3. d \in Nat /\ d > 0
  BY SMT
<1>4. d * x >= d * target
  BY <1>1, <1>2, <1>3, MulNat, SMT
<1> HIDE DEF d
<1> SUFFICES ASSUME x + 1 <= target PROVE FALSE
  BY SMT
<1>5. d * (x + 1) <= d * target
  BY <1>3, MulMonotone
<1>6. d * (x + 1) = d * x + d /\ d * x \in Nat /\ d * target \in Nat
  BY <1>3, MulNat, SMT
<1>7. d * target >= d * x + d
  BY <1>5, <1>6
<1> QED
  BY <1>3, <1>4, <1>6, <1>7, SMT

\* The last buy pays what the last tokens cost up to last: the virtual lamports
\* are then within reach.
LEMMA CapReaches ==
  ASSUME NEW x \in Nat, NEW z \in Nat, NEW end \in Nat, NEW last \in Nat, NEW q \in Nat,
         NEW target \in Nat, NEW bound \in Int,
         end > 0, end <= z, z * q < last * end + z, q <= x + last,
         (x * z) * end >= bound, target <= last, target * (end * (end + 1)) <= bound
  PROVE  x + (last - q) >= target
<1> SUFFICES ASSUME x + (last - q) + 1 <= target PROVE FALSE
  BY SMT
<1>1. z * (x + (last - q) + 1) <= z * target
  BY MulMonotone
<1>2. z * (x + (last - q) + 1) = x * z + last * z - z * q + z
  BY SMT
<1>3. x * z + last * z - last * end < z * target
  <2>1. x * z \in Nat /\ last * z \in Nat /\ z * q \in Nat /\ last * end \in Nat
        /\ z * target \in Nat
    BY MulNat
  <2> QED
    BY <2>1, <1>1, <1>2, SMT
<1>4. target * (z - end) <= last * (z - end)
  <2>1. z - end \in Nat
    BY SMT
  <2>2. (z - end) * target <= (z - end) * last
    BY <2>1, MulMonotone
  <2> QED
    BY <2>1, <2>2, SMT
<1>5. x * z < target * end
  <2>1. last * (z - end) = last * z - last * end /\ target * (z - end) = z * target - target * end
    BY SMT
  <2>2. x * z \in Nat /\ last * z \in Nat /\ last * end \in Nat /\ z * target \in Nat
        /\ target * end \in Nat
    BY MulNat
  <2> QED
    BY <2>1, <2>2, <1>3, <1>4, SMT
<1>6. end * (x * z + 1) <= end * (target * end)
  <2>1. x * z \in Nat /\ target * end \in Nat
    BY MulNat
  <2> QED
    BY <2>1, <1>5, MulMonotone
<1>7. /\ end * (x * z + 1) = (x * z) * end + end
      /\ target * (end * (end + 1)) = end * (target * end) + target * end
  BY SMT
<1> QED
  BY <1>6, <1>7, MulNat, SMT

\* A buy whose quote is at least what is for sale ends within reach of the
\* reserve of scaled tokens that are not.
LEMMA CompletingQuote ==
  ASSUME NEW vs \in Nat, NEW vt \in Nat, NEW sol \in Nat, NEW real \in Nat,
         sol > 0, real <= vt, TokensForSol(vs, vt, sol) >= real
  PROVE  (vs + sol) * ((vt - real) * TokenScale + 1) > vs * (vt * TokenScale)
<1> USE ScaleAssumption
<1> DEFINE ct == vt * TokenScale
           k == vs * ct
           n == vs + sol
           q == k \div n
           end == (vt - real) * TokenScale
<1>1. ct \in Nat /\ n \in Nat /\ n > 0 /\ vs <= n
  BY SMT
<1> HIDE DEF ct, n
<1>2. k \in Nat
  BY <1>1, MulNat
<1>3. vs * ct <= n * ct
  BY <1>1, SMT
<1> HIDE DEF k
<1>4. q \in Nat /\ n * q <= k /\ k < n * q + n
  BY <1>1, <1>2, DivFacts
<1> HIDE DEF q
<1>5. q <= ct
  <2>1. n * q < n * (ct + 1)
    BY <1>1, <1>3, <1>4, SMT DEF k
  <2> QED
    BY <2>1, <1>1, <1>4, SMT
<1>6. TokenScale * ((ct - q) \div TokenScale) <= ct - q /\ (ct - q) \div TokenScale \in Nat
  <2>1. ct - q \in Nat
    BY <1>1, <1>4, <1>5, SMT
  <2> QED
    BY <2>1, DivFacts
<1>7. (ct - q) \div TokenScale >= real
  BY DEF TokensForSol, q, k, n, ct
<1>8. TokenScale * real <= ct - q
  <2>1. TokenScale * real <= TokenScale * ((ct - q) \div TokenScale)
    BY <1>6, <1>7, MulMonotone
  <2> QED
    BY <2>1, <1>1, <1>4, <1>6, MulNat, SMT
<1>9. end = ct - TokenScale * real /\ end \in Nat
  <2>1. end = ct - TokenScale * real
    BY SMT DEF ct
  <2> QED
    BY <2>1, <1>1, <1>4, <1>8, MulNat, SMT
<1> HIDE DEF end
<1>10. n * (q + 1) <= n * (end + 1)
  BY <1>1, <1>4, <1>8, <1>9, MulMonotone, MulNat, SMT
<1>11. n * (end + 1) > k
  <2>1. n * (q + 1) = n * q + n /\ n * q \in Nat /\ n * (end + 1) \in Nat
    BY <1>1, <1>4, <1>9, MulNat, SMT
  <2> QED
    BY <2>1, <1>1, <1>2, <1>4, <1>10, SMT
<1> QED
  BY <1>11 DEF n, end, k, ct

\* Curve b, under configuration c and after n buys: it has sold what it was
\* given to sell for what it booked, and rounding has cost its product no more
\* than n parts.
OnPrice(b, c, n) ==
  /\ b.state # "migrated" =>
       /\ b.virtualToken - b.realToken = c.virtualToken - c.realToken
       /\ b.virtualSol - b.realSol = c.virtualSol
       /\ b.lastVirtualSol = c.lastVirtualSol
  /\ b.state = "trading" =>
       (b.virtualSol * (b.virtualToken * TokenScale)) * EndReserve(c)
         >= StartProduct(c) * (EndReserve(c) - n)
  /\ b.state = "completed" =>
       \A target \in u64 : WithinReach(c, n, target) => b.virtualSol >= target

CountInv ==
  /\ buys \in [Mints -> Nat]
  /\ \A m \in Mints : Launched(m) => \A c \in born[m] : OnPrice(curve[m], c, buys[m])

\* The fields of curves and configurations are numbers.
LEMMA CurveNumbers ==
  ASSUME NEW b \in Curve
  PROVE  /\ b.virtualSol \in Nat /\ b.virtualToken \in Nat /\ b.realToken \in Nat
         /\ b.realSol \in Nat /\ b.lastVirtualSol \in Nat
  BY WidthAssumption DEF Curve, u64

LEMMA ConfigNumbers ==
  ASSUME NEW c \in Configs, Validate(c)
  PROVE  /\ c.virtualSol \in Nat /\ c.virtualToken \in Nat /\ c.realToken \in Nat
         /\ c.lastVirtualSol \in Nat /\ c.meteoraSol \in Nat /\ c.migrationFee \in Fees
         /\ EndReserve(c) \in Nat /\ StartProduct(c) \in Nat
<1>1. /\ c.virtualSol \in Nat /\ c.virtualToken \in Nat /\ c.realToken \in Nat
      /\ c.lastVirtualSol \in Nat /\ c.meteoraSol \in Nat /\ c.migrationFee \in Fees
      /\ c.virtualToken - c.realToken \in Nat
  BY ConfigsAssumption, WidthAssumption DEF Config, u64, Validate
<1>2. EndReserve(c) \in Nat
  BY <1>1, ScaleAssumption, MulNat DEF EndReserve
<1>3. StartProduct(c) \in Nat
  BY <1>1, ScaleAssumption, MulNat DEF StartProduct
<1> QED
  BY <1>1, <1>2, <1>3

LEMMA NewOnPrice ==
  ASSUME NEW c \in Configs, Validate(c), NEW n \in Nat
  PROVE  OnPrice(NewCurve(c), c, n)
<1>1. EndReserve(c) \in Nat /\ StartProduct(c) \in Nat
  BY ConfigNumbers
<1>2. c.virtualSol - 0 = c.virtualSol
  BY ConfigNumbers
<1>3. StartProduct(c) * (EndReserve(c) - n) <= StartProduct(c) * EndReserve(c)
  BY <1>1, MulMonotone
<1> QED
  BY <1>2, <1>3 DEF OnPrice, NewCurve, StartProduct

\* A buy that does not complete the curve.
LEMMA BuyOnPrice ==
  ASSUME NEW b \in Curve, NEW c \in Configs, Validate(c), NEW n \in Nat, NEW sol \in Nat,
         OnPrice(b, c, n), b.state = "trading", b.realToken <= b.virtualToken,
         BuyComputes(b, sol), ~Completes(b, sol)
  PROVE  OnPrice(AfterBuy(b, BuyResult(b, sol), Completes(b, sol)), c, n + 1)
<1> DEFINE t == TokensForSol(b.virtualSol, b.virtualToken, sol)
           after == AfterBuy(b, BuyResult(b, sol), Completes(b, sol))
           x == b.virtualSol + sol
           z == (b.virtualToken - t) * TokenScale
<1>1. /\ b.virtualSol \in Nat /\ b.virtualToken \in Nat /\ b.realToken \in Nat
      /\ b.realSol \in Nat /\ sol > 0
  BY CurveNumbers DEF BuyComputes
<1>2. t \in Nat /\ t < b.realToken /\ x * z + x > b.virtualSol * (b.virtualToken * TokenScale)
  <2>1. /\ t \in Nat
        /\ x * z + x > b.virtualSol * (b.virtualToken * TokenScale)
    BY <1>1, BuyQuote
  <2>2. ~(t >= b.realToken)
    BY DEF Completes
  <2> QED
    BY <1>1, <2>1, <2>2
<1> HIDE DEF t
<1>3. /\ after.virtualToken = b.virtualToken - t /\ after.realToken = b.realToken - t
      /\ after.virtualSol = x /\ after.realSol = b.realSol + sol
      /\ after.lastVirtualSol = b.lastVirtualSol /\ after.state = "trading"
  BY DEF AfterBuy, BuyResult, Curve, t
<1> HIDE DEF after
<1>4. /\ b.virtualToken - b.realToken = c.virtualToken - c.realToken
      /\ b.virtualSol - b.realSol = c.virtualSol
      /\ b.lastVirtualSol = c.lastVirtualSol
      /\ (b.virtualSol * (b.virtualToken * TokenScale)) * EndReserve(c)
           >= StartProduct(c) * (EndReserve(c) - n)
  BY DEF OnPrice
<1>5. EndReserve(c) <= z /\ z \in Nat /\ x \in Nat
  <2>1. /\ b.virtualToken - t \in Nat /\ b.virtualToken - b.realToken \in Nat
        /\ b.virtualToken - b.realToken <= b.virtualToken - t
    BY <1>1, <1>2
  <2>2. /\ TokenScale * (b.virtualToken - b.realToken) <= TokenScale * (b.virtualToken - t)
        /\ TokenScale * (b.virtualToken - b.realToken)
             = (b.virtualToken - b.realToken) * TokenScale
        /\ TokenScale * (b.virtualToken - t) = z
    <3>1. TokenScale * (b.virtualToken - b.realToken) <= TokenScale * (b.virtualToken - t)
      BY <2>1, ScaleAssumption, MulMonotone
    <3> QED
      BY <3>1, <2>1, ScaleAssumption, SMT
  <2> QED
    BY <1>1, <1>4, <2>1, <2>2, MulNat, ScaleAssumption DEF EndReserve
<1>6. (x * z) * EndReserve(c) >= StartProduct(c) * (EndReserve(c) - (n + 1))
  <2>1. b.virtualSol * (b.virtualToken * TokenScale) \in Nat
    BY <1>1, ScaleAssumption, MulNat
  <2>2. EndReserve(c) \in Nat /\ StartProduct(c) \in Nat
    BY ConfigNumbers
  <2> DEFINE k == b.virtualSol * (b.virtualToken * TokenScale)
             end == EndReserve(c)
             start == StartProduct(c)
  <2>3. /\ k \in Nat /\ end \in Nat /\ start \in Nat /\ end <= z /\ x * z + x > k
        /\ k * end >= start * (end - n)
    BY <1>2, <1>4, <1>5, <2>1, <2>2
  <2> HIDE DEF k, end, start, x, z
  <2>4. (x * z) * end >= start * (end - (n + 1))
    BY <1>5, <2>3, LossOfBuy
  <2> QED
    BY <2>4 DEF end, start
<1>7. /\ after.virtualToken - after.realToken = c.virtualToken - c.realToken
      /\ after.virtualSol - after.realSol = c.virtualSol
      /\ after.lastVirtualSol = c.lastVirtualSol
  BY <1>1, <1>2, <1>3, <1>4
<1> QED
  BY <1>3, <1>6, <1>7 DEF OnPrice, after

\* What the last tokens cost: last less the part of it that is rounded up.
LEMMA LastCost ==
  ASSUME NEW last \in Nat, NEW vt \in Nat, NEW real \in Nat, real > 0, real <= vt
  PROVE  \E q \in Nat :
           /\ SolForTokens(last, vt - real, real) = last - q
           /\ q <= last
           /\ (vt * TokenScale) * q < last * ((vt - real) * TokenScale) + vt * TokenScale
<1> DEFINE end == (vt - real) * TokenScale
           z == ((vt - real) + real) * TokenScale
           q == CeilDiv(last * end, z)
<1>1. vt - real \in Nat
  BY SMT
<1>2. (vt - real) + real = vt
  BY SMT
<1>3. z = vt * TokenScale
  BY <1>2
<1>4. end \in Nat /\ z \in Nat /\ z > 0
  <2>1. vt * TokenScale > 0 /\ vt * TokenScale \in Nat
    BY ScaleAssumption, SMT
  <2> QED
    BY <2>1, <1>1, <1>3, ScaleAssumption, MulNat
<1>5. last * end \in Nat
  BY <1>4, MulNat
<1> HIDE DEF end, z
<1>6. q \in Nat /\ z * q < last * end + z
  BY <1>4, <1>5, CeilDivFacts
<1>7. SolForTokens(last, vt - real, real) = last - q
  BY DEF SolForTokens, end, z
<1>8. q <= last
  <2>1. SolForTokens(last, vt - real, real) \in Nat
    BY <1>1, SellQuote
  <2> QED
    BY <2>1, <1>6, <1>7
<1> HIDE DEF q
<1> QED
  BY <1>3, <1>6, <1>7, <1>8 DEF end

\* The buy that completes the curve.
LEMMA CompletingOnPrice ==
  ASSUME NEW b \in Curve, NEW c \in Configs, Validate(c), NEW n \in Nat, NEW sol \in Nat,
         OnPrice(b, c, n), b.state = "trading", b.realToken <= b.virtualToken,
         BuyComputes(b, sol), Completes(b, sol)
  PROVE  OnPrice(AfterBuy(b, BuyResult(b, sol), Completes(b, sol)), c, n + 1)
<1> DEFINE cost == CompletionCost(b, sol)
           after == AfterBuy(b, BuyResult(b, sol), Completes(b, sol))
           x == b.virtualSol
           z == b.virtualToken * TokenScale
           end == EndReserve(c)
           bound == StartProduct(c) * (end - n)
           last == c.lastVirtualSol
<1>1. /\ x \in Nat /\ b.virtualToken \in Nat /\ b.realToken \in Nat /\ b.realSol \in Nat
      /\ sol > 0 /\ b.realToken > 0
  BY CurveNumbers DEF BuyComputes
<1>2. /\ b.virtualToken - b.realToken = c.virtualToken - c.realToken
      /\ x - b.realSol = c.virtualSol
      /\ b.lastVirtualSol = last
      /\ (x * z) * end >= bound
  BY DEF OnPrice
<1>3. /\ after.virtualToken = b.virtualToken - b.realToken
      /\ after.realToken = b.realToken - b.realToken
      /\ after.virtualSol = x + cost /\ after.realSol = b.realSol + cost
      /\ after.lastVirtualSol = b.lastVirtualSol /\ after.state = "completed"
  BY DEF AfterBuy, BuyResult, Curve
<1>4. last \in Nat /\ end \in Nat /\ StartProduct(c) \in Nat
  BY ConfigNumbers
<1>5. end = (b.virtualToken - b.realToken) * TokenScale
  BY <1>2 DEF EndReserve
<1>6. z \in Nat /\ end <= z
  <2>1. b.virtualToken - b.realToken \in Int /\ b.virtualToken - b.realToken <= b.virtualToken
    BY <1>1
  <2>2. TokenScale * (b.virtualToken - b.realToken) <= TokenScale * b.virtualToken
    BY <2>1, <1>1, ScaleAssumption, MulMonotone
  <2>3. TokenScale * (b.virtualToken - b.realToken) = end /\ TokenScale * b.virtualToken = z
    BY <1>1, <1>5, ScaleAssumption, SMT
  <2> QED
    BY <2>2, <2>3, <1>1, ScaleAssumption, MulNat
<1>7. PICK q \in Nat :
        /\ SolForTokens(last, b.virtualToken - b.realToken, b.realToken) = last - q
        /\ q <= last
        /\ z * q < last * end + z
  BY <1>1, <1>4, <1>5, LastCost
<1>8. cost \in {last - q, sol} /\ cost \in Nat
  BY <1>2, <1>4, <1>7 DEF CompletionCost
<1>9. (x + sol) * (end + 1) > x * z
  <2>1. TokensForSol(b.virtualSol, b.virtualToken, sol) >= b.realToken
    BY DEF Completes
  <2> QED
    BY <2>1, <1>1, <1>5, CompletingQuote
<1>10. bound \in Int /\ StartProduct(c) * (end + 1 - (n + 1)) = bound
  <2>1. end + 1 - (n + 1) = end - n
    BY <1>4
  <2>2. StartProduct(c) * (end - n) \in Int
    BY <1>4, SMT
  <2> QED
    BY <2>1, <2>2
<1> HIDE DEF cost, after, bound, z, end, last, x
<1>11. ASSUME NEW target \in u64, WithinReach(c, n + 1, target)
       PROVE  x + cost >= target
  <2>1. target \in Nat
    BY WidthAssumption DEF u64
  <2>2. end > 0 /\ target <= last /\ target * (end * (end + 1)) <= bound
    BY <1>10, <1>11 DEF WithinReach, end, last
  <2>3. CASE cost = sol
    <3>1. x * z \in Nat /\ x + sol \in Nat
      BY <1>1, <1>6, MulNat
    <3>2. x + sol >= target
      BY <3>1, <1>2, <1>4, <1>9, <1>10, <2>1, <2>2, OfferReaches
    <3> QED
      BY <3>2, <2>3
  <2>4. CASE cost = last - q
    <3>1. q <= x + last
      BY <1>1, <1>4, <1>7
    <3>2. x + (last - q) >= target
      BY <3>1, <1>1, <1>2, <1>4, <1>6, <1>7, <1>10, <2>1, <2>2, CapReaches
    <3> QED
      BY <3>2, <2>4
  <2> QED
    BY <2>3, <2>4, <1>8
<1>12. /\ after.virtualToken - after.realToken = c.virtualToken - c.realToken
       /\ after.virtualSol - after.realSol = c.virtualSol
       /\ after.lastVirtualSol = c.lastVirtualSol
  BY <1>1, <1>2, <1>3, <1>8 DEF last
<1> QED
  BY <1>3, <1>11, <1>12 DEF OnPrice, after

\* A sell never decreases the product.
LEMMA SellOnPrice ==
  ASSUME NEW b \in Curve, NEW c \in Configs, Validate(c), NEW n \in Nat, NEW amount \in Nat,
         NEW fee, OnPrice(b, c, n), b.state = "trading", amount > 0
  PROVE  OnPrice(AfterSell(b, amount, SolForTokens(b.virtualSol, b.virtualToken, amount), fee),
                 c, n)
<1> DEFINE sol == SolForTokens(b.virtualSol, b.virtualToken, amount)
           after == AfterSell(b, amount, sol, fee)
           k == b.virtualSol * (b.virtualToken * TokenScale)
           k2 == (b.virtualSol - sol) * ((b.virtualToken + amount) * TokenScale)
<1>1. /\ b.virtualSol \in Nat /\ b.virtualToken \in Nat /\ b.realToken \in Nat
      /\ b.realSol \in Nat
  BY CurveNumbers
<1>2. sol \in Nat /\ sol <= b.virtualSol /\ k2 >= k
  BY <1>1, SellQuote
<1> HIDE DEF sol
<1>3. /\ after.virtualToken = b.virtualToken + amount /\ after.realToken = b.realToken + amount
      /\ after.virtualSol = b.virtualSol - sol /\ after.realSol = b.realSol - sol
      /\ after.lastVirtualSol = b.lastVirtualSol /\ after.state = "trading"
  BY DEF AfterSell, Curve
<1> HIDE DEF after
<1>4. /\ b.virtualToken - b.realToken = c.virtualToken - c.realToken
      /\ b.virtualSol - b.realSol = c.virtualSol
      /\ b.lastVirtualSol = c.lastVirtualSol
      /\ k * EndReserve(c) >= StartProduct(c) * (EndReserve(c) - n)
  BY DEF OnPrice
<1>5. k \in Nat /\ k2 \in Nat
  BY <1>1, <1>2, ScaleAssumption, MulNat
<1>6. EndReserve(c) \in Nat /\ StartProduct(c) * (EndReserve(c) - n) \in Int
  BY ConfigNumbers, SMT
<1> HIDE DEF k, k2
<1>7. k2 * EndReserve(c) >= StartProduct(c) * (EndReserve(c) - n)
  <2>1. EndReserve(c) * k2 >= EndReserve(c) * k
    BY <1>2, <1>5, <1>6, MulMonotone
  <2>2. EndReserve(c) * k2 = k2 * EndReserve(c) /\ EndReserve(c) * k = k * EndReserve(c)
        /\ k2 * EndReserve(c) \in Nat /\ k * EndReserve(c) \in Nat
    BY <1>5, <1>6, MulNat, SMT
  <2> QED
    BY <2>1, <2>2, <1>4, <1>6
<1>8. /\ after.virtualToken - after.realToken = c.virtualToken - c.realToken
      /\ after.virtualSol - after.realSol = c.virtualSol
      /\ after.lastVirtualSol = c.lastVirtualSol
  BY <1>1, <1>2, <1>3, <1>4
<1> QED
  BY <1>3, <1>7, <1>8 DEF OnPrice, after, sol, k2

\* Every step counted is a step of the program.
LEMMA CountedIsNext == [CountedNext]_<<vars, buys>> => [Next]_vars
  BY DEF CountedNext, Next, vars

\* A launched curve has one configuration, which was accepted.
LEMMA BornOne ==
  ASSUME IInv, NEW m \in Mints, Launched(m)
  PROVE  \E c \in Configs : /\ born[m] = {c} /\ Validate(c) /\ curve[m] \in Curve
                            /\ curve[m].realToken <= curve[m].virtualToken
                            /\ curve[m].terms.meteoraSol = c.meteoraSol
                            /\ curve[m].terms.fee = c.migrationFee
<1>1. PICK c \in Configs : CurveUnder(m, c)
  BY DEF IInv, NotLaunched, Launched
<1> QED
  BY <1>1 DEF CurveUnder

LEMMA CountedBuy ==
  ASSUME IInv, CountInv, NEW m \in Mints, NEW amount \in Nat, NEW min \in Nat, NEW max \in Nat,
         Buy(m, amount, min, max), buys' = [buys EXCEPT ![m] = @ + 1]
  PROVE  CountInv'
<1> DEFINE b == curve[m]
<1>1. PICK d \in config :
        LET sol == amount - TotalFee(d.buyFee, amount)
        IN /\ b # NoCurve
           /\ b.state = "trading"
           /\ BuyComputes(b, sol)
           /\ curve' = [curve EXCEPT ![m] =
                          AfterBuy(b, BuyResult(b, sol), Completes(b, sol))]
           /\ UNCHANGED born
  BY DEF Buy
<1> DEFINE sol == amount - TotalFee(d.buyFee, amount)
           after == AfterBuy(b, BuyResult(b, sol), Completes(b, sol))
<1>2. PICK c \in Configs : /\ born[m] = {c} /\ Validate(c) /\ b \in Curve
                           /\ b.realToken <= b.virtualToken
  BY <1>1, BornOne DEF Launched
<1>3. sol \in Nat
  <2>1. d \in Config
    BY ConfigsAssumption DEF IInv, TypeOK
  <2>2. TotalFee(d.buyFee, amount) \in Nat
    BY <2>1, FeeNat DEF Config
  <2> QED
    BY <1>1, <2>2, SMT DEF BuyComputes
<1>4. buys[m] \in Nat /\ OnPrice(b, c, buys[m])
  BY <1>1, <1>2 DEF CountInv, Launched
<1> HIDE DEF sol
<1>5. OnPrice(after, c, buys[m] + 1)
  <2>1. b.state = "trading" /\ BuyComputes(b, sol)
    BY <1>1 DEF sol
  <2>2. CASE Completes(b, sol)
    BY <1>2, <1>3, <1>4, <2>1, <2>2, CompletingOnPrice
  <2>3. CASE ~Completes(b, sol)
    BY <1>2, <1>3, <1>4, <2>1, <2>3, BuyOnPrice
  <2> QED
    BY <2>2, <2>3
<1>6. curve' = [curve EXCEPT ![m] = after] /\ UNCHANGED born
  BY <1>1 DEF sol
<1> HIDE DEF after
<1>7. curve'[m] = after /\ buys'[m] = buys[m] + 1
      /\ \A o \in Mints \ {m} : curve'[o] = curve[o] /\ buys'[o] = buys[o]
  BY <1>6 DEF IInv, TypeOK, CountInv
<1>8. buys' \in [Mints -> Nat]
  BY <1>4 DEF CountInv
<1>9. ASSUME NEW o \in Mints, Launched(o)', NEW e \in born'[o]
      PROVE  OnPrice(curve'[o], e, buys'[o])
  <2>1. CASE o = m
    BY <2>1, <1>2, <1>5, <1>6, <1>7, <1>9
  <2>2. CASE o # m
    BY <2>2, <1>6, <1>7, <1>9 DEF CountInv, Launched
  <2> QED
    BY <2>1, <2>2
<1> QED
  BY <1>8, <1>9 DEF CountInv, OnPrice, EndReserve, StartProduct, WithinReach

\* A step that is not a buy leaves every curve as it is, or on its price.
LEMMA CountedOther ==
  ASSUME IInv, CountInv, NEW m \in Mints, NEW after, UNCHANGED buys,
         curve' = [curve EXCEPT ![m] = after],
         \A o \in Mints \ {m} : born'[o] = born[o],
         \A c \in born'[m] : OnPrice(after, c, buys[m])
  PROVE  CountInv'
<1>1. curve'[m] = after /\ \A o \in Mints \ {m} : curve'[o] = curve[o]
  BY DEF IInv, TypeOK
<1>2. ASSUME NEW o \in Mints, Launched(o)', NEW e \in born'[o]
      PROVE  OnPrice(curve'[o], e, buys'[o])
  <2>1. CASE o = m
    BY <2>1, <1>1, <1>2
  <2>2. CASE o # m
    BY <2>2, <1>1, <1>2 DEF CountInv, Launched
  <2> QED
    BY <2>1, <2>2
<1> QED
  BY <1>2 DEF CountInv, OnPrice, EndReserve, StartProduct, WithinReach

LEMMA CountedSell ==
  ASSUME IInv, CountInv, NEW m \in Mints, NEW amount \in Nat, NEW min \in Nat,
         Sell(m, amount, min), UNCHANGED buys
  PROVE  CountInv'
<1> DEFINE b == curve[m]
           sol == SolForTokens(b.virtualSol, b.virtualToken, amount)
<1>1. PICK d \in config :
        /\ b # NoCurve /\ b.state = "trading" /\ amount > 0
        /\ curve' = [curve EXCEPT ![m] = AfterSell(b, amount, sol, TotalFee(d.sellFee, sol))]
        /\ UNCHANGED born
  BY DEF Sell
<1> DEFINE after == AfterSell(b, amount, sol, TotalFee(d.sellFee, sol))
<1>2. PICK c \in Configs : born[m] = {c} /\ Validate(c) /\ b \in Curve
  BY <1>1, BornOne DEF Launched
<1>3. buys[m] \in Nat /\ OnPrice(b, c, buys[m])
  BY <1>1, <1>2 DEF CountInv, Launched
<1>4. OnPrice(after, c, buys[m])
  BY <1>1, <1>2, <1>3, SellOnPrice
<1>5. curve' = [curve EXCEPT ![m] = after] /\ UNCHANGED born
  BY <1>1
<1> HIDE DEF after
<1> QED
  BY <1>2, <1>4, <1>5, CountedOther

LEMMA CountedCreate ==
  ASSUME IInv, CountInv, NEW m \in Mints, CreateBondingCurve(m), UNCHANGED buys
  PROVE  CountInv'
<1>1. PICK c \in config :
        /\ curve' = [curve EXCEPT ![m] = NewCurve(c)]
        /\ born' = [born EXCEPT ![m] = {c}]
  BY DEF CreateBondingCurve
<1>2. c \in Configs /\ Validate(c)
  BY DEF IInv, TypeOK
<1>3. OnPrice(NewCurve(c), c, buys[m])
  BY <1>2, NewOnPrice DEF CountInv
<1>4. born'[m] = {c} /\ \A o \in Mints \ {m} : born'[o] = born[o]
  BY <1>1 DEF IInv, TypeOK
<1> DEFINE after == NewCurve(c)
<1> HIDE DEF after
<1>5. curve' = [curve EXCEPT ![m] = after] /\ \A e \in born'[m] : OnPrice(after, e, buys[m])
  BY <1>1, <1>3, <1>4 DEF after
<1> QED
  BY <1>4, <1>5, CountedOther

LEMMA CountedMigration ==
  ASSUME IInv, CountInv, NEW m \in Mints, CreatePool(m), UNCHANGED buys
  PROVE  CountInv'
<1> DEFINE outflow == MigrationTerms(m).meteoraSol + FlatFee
                        + TotalFee(MigrationTerms(m).fee, curve[m].realSol)
           after == AfterMigration(curve[m], outflow)
<1>1. /\ curve[m].state = "completed" /\ UNCHANGED born
      /\ curve' = [curve EXCEPT ![m] = after]
  BY DEF CreatePool
<1>2. curve[m] \in Curve
  BY <1>1 DEF IInv, TypeOK, NoCurve
<1>3. after.state = "migrated"
  BY <1>2 DEF AfterMigration, Curve
<1> HIDE DEF after
<1>4. \A c \in born'[m] : OnPrice(after, c, buys[m])
  BY <1>3 DEF OnPrice
<1> QED
  BY <1>1, <1>4, CountedOther

LEMMA CountStep == IInv /\ CountInv /\ [CountedNext]_<<vars, buys>> => CountInv'
<1> SUFFICES ASSUME IInv, CountInv, [CountedNext]_<<vars, buys>> PROVE CountInv'
  OBVIOUS
<1>1. ASSUME NEW m \in Mints, NEW amount \in Amounts, NEW min \in Limits, NEW max \in Limits,
             Buy(m, amount, min, max), buys' = [buys EXCEPT ![m] = @ + 1]
      PROVE  CountInv'
  BY <1>1, CountedBuy, InputAssumption
<1>2. ASSUME NEW m \in Mints, NEW amount \in Amounts, NEW min \in Limits,
             Sell(m, amount, min), UNCHANGED buys
      PROVE  CountInv'
  BY <1>2, CountedSell, InputAssumption
<1>3. ASSUME UNCHANGED <<curve, born, buys>>
      PROVE  CountInv'
  BY <1>3 DEF CountInv, Launched, OnPrice, EndReserve, StartProduct, WithinReach
<1>4. ASSUME NEW c \in Configs, Configure(c), UNCHANGED buys
      PROVE  CountInv'
  BY <1>3, <1>4 DEF Configure
<1>5. ASSUME NEW m \in Mints, LockPool(m), UNCHANGED buys
      PROVE  CountInv'
  BY <1>3, <1>5 DEF LockPool
<1>6. CASE UNCHANGED <<vars, buys>>
  BY <1>3, <1>6 DEF vars
<1> QED
  BY <1>1, <1>2, <1>4, <1>5, <1>6, CountedCreate, CountedMigration DEF CountedNext

LEMMA CountInvHolds == CountedSpec => [](IInv /\ CountInv)
<1>1. CountedInit => Init /\ CountInv
  BY DEF CountedInit, Init, CountInv, Launched
<1>2. CountedSpec => Spec
  BY CountedIsNext, PTL DEF CountedSpec, CountedInit, Spec
<1> QED
  BY <1>1, <1>2, CountStep, InvariantHolds, PTL DEF CountedSpec

\* A curve that sells out has raised what its configuration intends, up to one
\* part in EndReserve per buy, for all configurations, amounts and numbers of
\* buys, sells between them included (apply_buy, apply_sell).
THEOREM CompletedHasRaised == CountedSpec => []RaisedWithinReach
<1>1. CountInv => RaisedWithinReach
  BY DEF CountInv, RaisedWithinReach, OnPrice
<1> QED
  BY <1>1, CountInvHolds, PTL

\* Room for n buys is room for fewer.
LEMMA RoomForFewer ==
  ASSUME NEW c \in Configs, Validate(c), NEW n \in Nat, NEW k \in Nat, k <= n,
         RoomForRounding(c, n)
  PROVE  RoomForRounding(c, k)
<1>1. EndReserve(c) \in Nat /\ StartProduct(c) \in Nat
  BY ConfigNumbers
<1>2. ASSUME NEW target \in u64, WithinReach(c, n, target) PROVE WithinReach(c, k, target)
  <2>1. StartProduct(c) * (EndReserve(c) + 1 - n) <= StartProduct(c) * (EndReserve(c) + 1 - k)
    BY <1>1, MulMonotone
  <2>2. /\ StartProduct(c) * (EndReserve(c) + 1 - n) \in Int
        /\ StartProduct(c) * (EndReserve(c) + 1 - k) \in Int
    BY <1>1, SMT
  <2>3. target * (EndReserve(c) * (EndReserve(c) + 1)) \in Nat
    BY <1>1, WidthAssumption, MulNat DEF u64
  <2> QED
    BY <1>2, <2>1, <2>2, <2>3 DEF WithinReach
<1> QED
  BY <1>2 DEF RoomForRounding

\* A fee of bps is no more than its share, and so are three.
LEMMA FeeShare ==
  ASSUME NEW fee \in Fees, NEW value \in Nat
  PROVE  MaxBps * TotalFee(fee, value) <= value * (fee.platform + fee.secondary + fee.creator)
<1>1. fee.platform \in Nat /\ fee.secondary \in Nat /\ fee.creator \in Nat
  BY WidthAssumption DEF Fees, u64
<1>2. ASSUME NEW bps \in Nat
      PROVE  BpsMul(bps, value) \in Nat /\ MaxBps * BpsMul(bps, value) <= value * bps
  <2>1. value * bps \in Nat
    BY MulNat
  <2> QED
    BY <2>1, ScaleAssumption, DivFacts DEF BpsMul
<1> DEFINE p == BpsMul(fee.platform, value)
           s == BpsMul(fee.secondary, value)
           r == BpsMul(fee.creator, value)
<1>3. /\ p \in Nat /\ MaxBps * p <= value * fee.platform
      /\ s \in Nat /\ MaxBps * s <= value * fee.secondary
      /\ r \in Nat /\ MaxBps * r <= value * fee.creator
  BY <1>1, <1>2
<1>4. TotalFee(fee, value) = p + s + r
  BY DEF TotalFee
<1> HIDE DEF p, s, r
<1>5. /\ MaxBps * (p + s + r) = MaxBps * p + MaxBps * s + MaxBps * r
      /\ value * (fee.platform + fee.secondary + fee.creator)
           = value * fee.platform + value * fee.secondary + value * fee.creator
  BY <1>1, <1>3, ScaleAssumption, SMT
<1>6. /\ MaxBps * p \in Nat /\ MaxBps * s \in Nat /\ MaxBps * r \in Nat
      /\ value * fee.platform \in Nat /\ value * fee.secondary \in Nat
      /\ value * fee.creator \in Nat
  BY <1>1, <1>3, ScaleAssumption, MulNat
<1> QED
  BY <1>3, <1>4, <1>5, <1>6

\* How to tell that a configuration leaves room: what is raised at a target
\* within reach pays for the pool and the flat costs when the fees' share of it
\* is gone.
LEMMA RoomByShares ==
  ASSUME NEW c \in Configs, Validate(c), NEW n \in Nat, NEW target \in u64,
         WithinReach(c, n, target),
         (target - c.virtualSol)
             * (MaxBps - (c.migrationFee.platform + c.migrationFee.secondary
                            + c.migrationFee.creator))
           >= (RentReserve + FlatFee + c.meteoraSol) * MaxBps
  PROVE  RoomForRounding(c, n)
<1> DEFINE share == c.migrationFee.platform + c.migrationFee.secondary + c.migrationFee.creator
           cost == RentReserve + FlatFee + c.meteoraSol
<1>1. /\ target \in Nat /\ c.virtualSol \in Nat /\ c.meteoraSol \in Nat
      /\ c.migrationFee \in Fees
  BY ConfigNumbers, WidthAssumption DEF u64
<1>2. share \in Nat /\ share <= MaxBps /\ cost \in Nat /\ MaxBps \in Nat /\ MaxBps > 0
  <2>1. share \in Nat
    BY <1>1, WidthAssumption DEF Fees, u64
  <2>2. share <= MaxBps
    BY DEF Validate
  <2> QED
    BY <2>1, <2>2, <1>1, ScaleAssumption
<1>3. (target - c.virtualSol) * (MaxBps - share) >= cost * MaxBps
  OBVIOUS
<1> HIDE DEF share, cost
<1>4. ASSUME NEW raised \in u64, c.virtualSol + raised >= target
      PROVE  raised >= cost + TotalFee(c.migrationFee, raised)
  <2> DEFINE fee == TotalFee(c.migrationFee, raised)
  <2>1. raised \in Nat /\ target - c.virtualSol <= raised
    BY <1>1, <1>4, WidthAssumption DEF u64
  <2>2. fee \in Nat /\ MaxBps * fee <= raised * share
    BY <1>1, <2>1, FeeNat, FeeShare DEF share
  <2> HIDE DEF fee
  <2>3. (MaxBps - share) * raised >= cost * MaxBps
    <3>1. (MaxBps - share) * (target - c.virtualSol) <= (MaxBps - share) * raised
      BY <1>1, <1>2, <2>1, MulMonotone
    <3>2. /\ (MaxBps - share) * (target - c.virtualSol)
               = (target - c.virtualSol) * (MaxBps - share)
          /\ (MaxBps - share) * (target - c.virtualSol) \in Int
          /\ (MaxBps - share) * raised \in Int /\ cost * MaxBps \in Int
      BY <1>1, <1>2, <2>1, SMT
    <3> QED
      BY <1>3, <3>1, <3>2
  <2>4. MaxBps * raised >= MaxBps * (cost + fee)
    <3>1. /\ (MaxBps - share) * raised = MaxBps * raised - raised * share
          /\ MaxBps * (cost + fee) = cost * MaxBps + MaxBps * fee
      BY <1>2, <2>1, <2>2, SMT
    <3>2. /\ MaxBps * raised \in Nat /\ raised * share \in Nat /\ cost * MaxBps \in Nat
          /\ MaxBps * fee \in Nat
      BY <1>2, <2>1, <2>2, MulNat
    <3> QED
      BY <2>2, <2>3, <3>1, <3>2
  <2>5. raised >= cost + fee
    <3> SUFFICES ASSUME raised + 1 <= cost + fee PROVE FALSE
      BY <1>2, <2>1, <2>2
    <3>1. MaxBps * (raised + 1) <= MaxBps * (cost + fee)
      BY <1>2, <2>1, <2>2, MulMonotone
    <3>2. /\ MaxBps * (raised + 1) = MaxBps * raised + MaxBps
          /\ MaxBps * raised \in Nat /\ MaxBps * (cost + fee) \in Nat
      BY <1>2, <2>1, <2>2, MulNat, SMT
    <3> QED
      BY <1>2, <2>4, <3>1, <3>2
  <2> QED
    BY <2>5 DEF fee
<1>5. ASSUME NEW raised \in u64, c.virtualSol + raised >= target
      PROVE  raised >= RentReserve + FlatFee + TotalFee(c.migrationFee, raised) + c.meteoraSol
  <2>1. TotalFee(c.migrationFee, raised) \in Nat
    BY <1>1, FeeNat, WidthAssumption DEF u64
  <2>2. raised \in Nat
    BY WidthAssumption DEF u64
  <2> QED
    BY <1>1, <1>4, <1>5, <2>1, <2>2, ScaleAssumption DEF cost
<1> QED
  BY <1>5 DEF RoomForRounding

\* A curve that has sold out migrates if the configuration it was created under
\* left room for the buys it had, whatever the admin configured meanwhile.
LEMMA RoomFunds ==
  ASSUME IInv, CountInv, NEW m \in Mints, Launched(m), curve[m].state = "completed",
         NEW c \in born[m], RoomForRounding(c, buys[m])
  PROVE  MigrationIsFunded(m)
<1>1. PICK d \in Configs : /\ born[m] = {d} /\ curve[m] \in Curve
                           /\ curve[m].terms.meteoraSol = d.meteoraSol
                           /\ curve[m].terms.fee = d.migrationFee
  BY BornOne
<1>2. c = d
  BY <1>1
<1>3. PICK target \in u64 :
        /\ WithinReach(c, buys[m], target)
        /\ \A raised \in u64 :
             c.virtualSol + raised >= target =>
               raised >= RentReserve + FlatFee + TotalFee(c.migrationFee, raised) + c.meteoraSol
  BY DEF RoomForRounding
<1>4. /\ curve[m].virtualSol >= target
      /\ curve[m].virtualSol - curve[m].realSol = c.virtualSol
  BY <1>3 DEF CountInv, OnPrice
<1>5. curve[m].realSol \in u64 /\ curve[m].virtualSol \in Nat /\ curve[m].realSol \in Nat
  BY <1>1, CurveNumbers DEF Curve
<1>6. c.virtualSol + curve[m].realSol >= target
  BY <1>4, <1>5
<1> QED
  BY <1>1, <1>2, <1>3, <1>5, <1>6 DEF MigrationIsFunded, MigrationTerms

\* The same for all curves, with the number of buys each of them has had.
THEOREM RoomIsEnoughHolds == CountedSpec => []RoomIsEnough
<1>1. IInv /\ CountInv => RoomIsEnough
  BY RoomFunds DEF RoomIsEnough
<1> QED
  BY <1>1, CountInvHolds, PTL

\* If every configuration that is accepted leaves room for n buys, then no
\* curve is stuck between its last buy and its migration before it has had
\* more than that (apply_buy, create_pool).
THEOREM CompletedCanMigrateHolds ==
  ASSUME NEW n \in Nat, \A c \in Configs : Validate(c) => RoomForRounding(c, n)
  PROVE  CountedSpec => []((\A m \in Mints : buys[m] <= n) => CompletedCanMigrate)
<1>1. ASSUME IInv, CountInv, \A m \in Mints : buys[m] <= n,
             NEW m \in Mints, Launched(m), curve[m].state = "completed"
      PROVE  MigrationIsFunded(m)
  <2>1. PICK c \in Configs : born[m] = {c} /\ Validate(c)
    BY <1>1, BornOne
  <2>2. buys[m] \in Nat /\ buys[m] <= n
    BY <1>1 DEF CountInv
  <2>3. RoomForRounding(c, buys[m])
    BY <2>1, <2>2, RoomForFewer
  <2> QED
    BY <1>1, <2>1, <2>3, RoomFunds
<1>2. IInv /\ CountInv => ((\A m \in Mints : buys[m] <= n) => CompletedCanMigrate)
  BY <1>1 DEF CompletedCanMigrate
<1> QED
  BY <1>2, CountInvHolds, PTL
=============================================================================
