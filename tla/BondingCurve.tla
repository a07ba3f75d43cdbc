---------------------------- MODULE BondingCurve ----------------------------
(***************************************************************************)
(* The hardened launch program, contracts/pump_meteora_v2: the admin        *)
(* configures it, creators launch tokens on bonding curves, traders buy    *)
(* and sell against a curve until a buy takes its last token, and the       *)
(* migration authority moves what the curve raised into a Meteora pool.    *)
(* Every curve keeps its lamports in the one global_vault account, and its *)
(* tokens in its own token account of the vault.                           *)
(*                                                                         *)
(* An instruction is one step: Solana reverts it whole when a check, a     *)
(* checked operation or a transfer fails, which here is a step not taken.  *)
(* Accounts, signatures and rent are abstracted to who may do what.        *)
(***************************************************************************)
EXTENDS Integers, FiniteSets, Functions

CONSTANTS
  Mints,            \* token mints, one curve each
  Configs,          \* the configurations the admin submits
  Amounts,          \* bound: the amounts traders submit
  Limits,           \* bound: the limits they put on a swap
  WholeToken,       \* units of a whole token, 10^TOKEN_DECIMALS
  TokenScale,       \* lamports of LAMPORT_SCALE per unit of TOKEN_SCALE
  MaxBps,           \* MAX_BPS, the denominator of the fees
  RentReserve,      \* MIGRATION_RENT_RESERVE
  FlatFee,          \* MIGRATION_FLAT_FEE
  Seed,             \* lamports configure puts into an empty vault
  MaxU64, MaxU128,  \* the largest u64 and u128
  MaxConfigures     \* bound: how often the admin configures

\* The values of a u64.
u64 == 0..MaxU64

Fees == [platform : u64, secondary : u64, creator : u64]

\* Config: the fields the curves depend on.
Config ==
  [buyFee : Fees, sellFee : Fees, migrationFee : Fees,
   supply : u64, virtualToken : u64, virtualSol : u64, realToken : u64,
   meteoraToken : u64, meteoraSol : u64, lastVirtualSol : u64]

ASSUME MintsAssumption == IsFiniteSet(Mints)
ASSUME ConfigsAssumption == Configs \subseteq Config
ASSUME ScaleAssumption ==
  /\ TokenScale \in Nat \ {0}
  /\ WholeToken \in Nat \ {0}
  /\ MaxBps \in Nat \ {0}
  /\ RentReserve \in Nat
  /\ FlatFee \in Nat
  /\ Seed \in Nat \ {0}
ASSUME WidthAssumption == MaxU64 \in Nat /\ MaxU128 \in Nat
ASSUME InputAssumption ==
  Amounts \subseteq Nat /\ Limits \subseteq Nat /\ MaxConfigures \in Nat

VARIABLES
  config,       \* the config account: at most one configuration
  curve,        \* the bonding curve account of every mint
  vault,        \* lamports of global_vault
  ata,          \* tokens in the vault's token account of every mint
  circulating,  \* tokens in the traders' accounts
  pool,         \* lamports and tokens the Meteora pool was created with
  lp,           \* LP tokens: with the migration authority and in the two locks
  born,         \* history: the configuration every curve was created under
  configures    \* configurations so far

vars == <<config, curve, vault, ata, circulating, pool, lp, born, configures>>

NoCurve == [state |-> "none"]

\* The curve's fields.  state is is_completed and is_migrated; the snapshot of
\* the migration parameters is terms.
Curve ==
  [state : {"trading", "completed", "migrated"},
   virtualSol : u64, virtualToken : u64, lastVirtualSol : u64,
   realSol : u64, realToken : u64,
   terms : [meteoraToken : u64, meteoraSol : u64, fee : Fees]]

NoLp == [payer |-> 0, creator |-> 0, platform |-> 0]

TypeOK ==
  /\ config \subseteq Configs /\ Cardinality(config) <= 1
  /\ curve \in [Mints -> Curve \cup {NoCurve}]
  /\ vault \in Nat
  /\ ata \in [Mints -> Nat]
  /\ circulating \in [Mints -> Nat]
  /\ pool \in [Mints -> [sol : Nat, token : Nat]]
  /\ lp \in [Mints -> [payer : Nat, creator : Nat, platform : Nat]]
  /\ born \in [Mints -> SUBSET Configs]
  /\ configures \in 0..MaxConfigures

Init ==
  /\ config = {}
  /\ curve = [m \in Mints |-> NoCurve]
  /\ vault = 0
  /\ ata = [m \in Mints |-> 0]
  /\ circulating = [m \in Mints |-> 0]
  /\ pool = [m \in Mints |-> [sol |-> 0, token |-> 0]]
  /\ lp = [m \in Mints |-> NoLp]
  /\ born = [m \in Mints |-> {}]
  /\ configures = 0

-----------------------------------------------------------------------------
(* Arithmetic: u64 balances, u128 intermediate results, division rounds down. *)

\* Mutant of U64: a cast that does not check.
UncheckedU64(n) == n >= 0

U64(n) == n \in u64
U128(n) == n \in 0..MaxU128

\* bps_mul: a fee of bps basis points.
BpsMul(bps, value) == (value * bps) \div MaxBps

\* The three fees of an amount together; each is rounded on its own.
TotalFee(fee, value) ==
  BpsMul(fee.platform, value) + BpsMul(fee.secondary, value) + BpsMul(fee.creator, value)

CeilDiv(a, b) == (a + b - 1) \div b

\* Mutant of SolForTokens: new_sol is rounded down.
SolForTokensFloor(vs, vt, tokens) ==
  vs - (vs * (vt * TokenScale)) \div ((vt + tokens) * TokenScale)

\* get_sol_for_sell_tokens: new_sol is rounded up, so sol_out down.
SolForTokens(vs, vt, tokens) ==
  vs - CeilDiv(vs * (vt * TokenScale), (vt + tokens) * TokenScale)

\* Mutant of TokensForSol: the result is rounded up.
TokensForSolCeil(vs, vt, sol) ==
  CeilDiv(vt * TokenScale - (vs * (vt * TokenScale)) \div (vs + sol), TokenScale)

\* get_tokens_for_buy_sol: new_tokens is rounded down, so tokens_out up, and
\* then down to whole units of the token.
TokensForSol(vs, vt, sol) ==
  (vt * TokenScale - (vs * (vt * TokenScale)) \div (vs + sol)) \div TokenScale

\* Both quotes multiply the reserves in u128.
Quotable(vs, vt) == U128(vs * (vt * TokenScale))

-----------------------------------------------------------------------------
(* The admin. *)

\* Mutant of Validate: the supply is not compared with what is allocated.
ValidateFeesOnly(c) ==
  /\ \A fee \in {c.buyFee, c.sellFee, c.migrationFee} :
       fee.platform + fee.secondary + fee.creator <= MaxBps
  /\ c.virtualToken >= c.realToken
  /\ c.virtualSol > 0

\* Config::validate.
Validate(c) ==
  /\ \A fee \in {c.buyFee, c.sellFee, c.migrationFee} :
       fee.platform + fee.secondary + fee.creator <= MaxBps
  /\ c.supply = c.realToken + c.meteoraToken
  /\ c.virtualToken >= c.realToken
  /\ c.lastVirtualSol >= c.virtualSol
  /\ c.virtualSol > 0 /\ c.virtualToken > 0

\* configure: a new or an updated config; an empty vault is seeded.
Configure(c) ==
  /\ configures < MaxConfigures
  /\ Validate(c)
  /\ config' = {c}
  /\ vault' = IF vault = 0 THEN Seed ELSE vault
  /\ configures' = configures + 1
  /\ UNCHANGED <<curve, ata, circulating, pool, lp, born>>

-----------------------------------------------------------------------------
(* Launching. *)

NewCurve(c) ==
  [state |-> "trading",
   virtualSol |-> c.virtualSol, virtualToken |-> c.virtualToken,
   lastVirtualSol |-> c.lastVirtualSol,
   realSol |-> 0, realToken |-> c.realToken,
   terms |-> [meteoraToken |-> c.meteoraToken, meteoraSol |-> c.meteoraSol,
              fee |-> c.migrationFee]]

\* create_bonding_curve: the whole supply is minted to the vault's account and
\* the mint authority is given up.
CreateBondingCurve(m) ==
  \E c \in config :
    /\ curve[m] = NoCurve
    /\ c.supply % WholeToken = 0
    /\ curve' = [curve EXCEPT ![m] = NewCurve(c)]
    /\ ata' = [ata EXCEPT ![m] = c.supply]
    /\ born' = [born EXCEPT ![m] = {c}]
    /\ UNCHANGED <<config, vault, circulating, pool, lp, configures>>

-----------------------------------------------------------------------------
(* Trading. *)

\* Mutant of CompletionCost: quoted at the reserves before the buy.
CompletionCostEarly(b, offer) ==
  LET recomputed == SolForTokens(b.virtualSol, b.virtualToken, b.realToken)
  IN IF recomputed < offer THEN recomputed ELSE offer

\* What the buy of the last tokens costs: up to last_virtual_sol_reserves, but
\* never more than the offer.
CompletionCost(b, offer) ==
  LET recomputed == SolForTokens(b.lastVirtualSol, b.virtualToken - b.realToken, b.realToken)
  IN IF recomputed < offer THEN recomputed ELSE offer

\* The buy of sol lamports takes the last token.
Completes(b, sol) == TokensForSol(b.virtualSol, b.virtualToken, sol) >= b.realToken

\* The checked operations of apply_buy that are not certain to succeed.
BuyComputes(b, sol) ==
  /\ sol > 0
  /\ Quotable(b.virtualSol, b.virtualToken)
  /\ Completes(b, sol) => /\ b.realToken > 0
                          /\ Quotable(b.lastVirtualSol, b.virtualToken - b.realToken)

\* apply_buy: the tokens and the lamports that change hands.
BuyResult(b, sol) ==
  IF Completes(b, sol)
    THEN [token |-> b.realToken, sol |-> CompletionCost(b, sol)]
    ELSE [token |-> TokensForSol(b.virtualSol, b.virtualToken, sol), sol |-> sol]

\* The curve after r.token tokens left it for r.sol lamports.
AfterBuy(b, r, completes) ==
  [b EXCEPT !.virtualToken = @ - r.token, !.realToken = @ - r.token,
            !.virtualSol = @ + r.sol, !.realSol = @ + r.sol,
            !.state = IF completes THEN "completed" ELSE @]

\* swap, direction buy: the fees come off the amount before the quote.
Buy(m, amount, minimumReceive, maxSolCost) ==
  \E c \in config :
    LET b == curve[m]
        applied == amount - TotalFee(c.buyFee, amount)
        r == BuyResult(b, applied)
        after == AfterBuy(b, r, Completes(b, applied))
    IN /\ curve[m] # NoCurve
       /\ b.state = "trading"
       /\ amount > 0
       /\ BuyComputes(b, applied)
       /\ r.sol <= maxSolCost
       /\ r.token >= minimumReceive
       /\ U64(after.virtualSol) /\ U64(after.realSol)
       /\ ata[m] >= r.token
       /\ curve' = [curve EXCEPT ![m] = after]
       /\ vault' = vault + r.sol
       /\ ata' = [ata EXCEPT ![m] = @ - r.token]
       /\ circulating' = [circulating EXCEPT ![m] = @ + r.token]
       /\ UNCHANGED <<config, pool, lp, born, configures>>

\* Mutant of AfterSell: the real reserve gives up the net amount only.
AfterSellNet(b, tokens, sol, fee) ==
  [b EXCEPT !.virtualToken = @ + tokens, !.realToken = @ + tokens,
            !.virtualSol = @ - sol, !.realSol = @ - (sol - fee)]

\* apply_sell: the whole sol_amount leaves the reserves, its fees included.
AfterSell(b, tokens, sol, fee) ==
  [b EXCEPT !.virtualToken = @ + tokens, !.realToken = @ + tokens,
            !.virtualSol = @ - sol, !.realSol = @ - sol]

\* swap, direction sell: the fees come off what the curve pays.
Sell(m, amount, minimumReceive) ==
  \E c \in config :
    LET b == curve[m]
        sol == SolForTokens(b.virtualSol, b.virtualToken, amount)
        fee == TotalFee(c.sellFee, sol)
    IN /\ curve[m] # NoCurve
       /\ b.state = "trading"
       /\ amount > 0
       /\ amount <= circulating[m]
       /\ Quotable(b.virtualSol, b.virtualToken)
       /\ sol <= b.realSol
       /\ sol - fee >= minimumReceive
       /\ U64(b.virtualToken + amount) /\ U64(b.realToken + amount)
       /\ vault >= sol
       /\ curve' = [curve EXCEPT ![m] = AfterSell(b, amount, sol, fee)]
       /\ vault' = vault - sol
       /\ ata' = [ata EXCEPT ![m] = @ + amount]
       /\ circulating' = [circulating EXCEPT ![m] = @ - amount]
       /\ UNCHANGED <<config, pool, lp, born, configures>>

-----------------------------------------------------------------------------
(* Migration. *)

\* Mutant of MigrationTerms: the parameters of the current configuration.
MigrationTermsOfConfig(m) ==
  LET c == CHOOSE c \in config : TRUE
  IN [meteoraToken |-> c.meteoraToken, meteoraSol |-> c.meteoraSol, fee |-> c.migrationFee]

\* The parameters a curve migrates with: the snapshot taken at its creation.
MigrationTerms(m) == curve[m].terms

\* check_sol_amount and the requirement on it: what the curve raised pays for
\* the pool, the fees and the rents.
MigrationIsFunded(m) ==
  LET t == MigrationTerms(m)
  IN curve[m].realSol >= RentReserve + FlatFee + TotalFee(t.fee, curve[m].realSol) + t.meteoraSol

\* The curve after its migration took outflow lamports and all its tokens.
AfterMigration(b, outflow) ==
  [b EXCEPT !.state = "migrated", !.realToken = 0, !.realSol = @ - outflow]

\* create_pool: the pool is created with the snapshot's amounts, the fees are
\* paid, and the reserves give up what left the vault.  The number of LP tokens
\* is Meteora's; here it is the lamports put in.
CreatePool(m) ==
  LET t == MigrationTerms(m)
      outflow == t.meteoraSol + FlatFee + TotalFee(t.fee, curve[m].realSol)
  IN /\ config # {}
     /\ curve[m].state = "completed"
     /\ MigrationIsFunded(m)
     /\ ata[m] >= t.meteoraToken
     /\ vault >= outflow
     /\ curve' = [curve EXCEPT ![m] = AfterMigration(@, outflow)]
     /\ vault' = vault - outflow
     /\ ata' = [ata EXCEPT ![m] = @ - t.meteoraToken]
     /\ pool' = [pool EXCEPT ![m] = [sol |-> @.sol + t.meteoraSol,
                                     token |-> @.token + t.meteoraToken]]
     /\ lp' = [lp EXCEPT ![m].payer = @ + t.meteoraSol]
     /\ UNCHANGED <<config, circulating, born, configures>>

\* lock_pool: half of the authority's LP tokens go into the creator's lock, the
\* balance reloaded after that into the platform's.
LockPool(m) ==
  /\ lp[m].payer > 0
  /\ lp' = [lp EXCEPT ![m] = [payer |-> 0,
                              creator |-> @.creator + @.payer \div 2,
                              platform |-> @.platform + @.payer - @.payer \div 2]]
  /\ UNCHANGED <<config, curve, vault, ata, circulating, pool, born, configures>>

-----------------------------------------------------------------------------

Next ==
  \/ \E c \in Configs : Configure(c)
  \/ \E m \in Mints :
       \/ CreateBondingCurve(m)
       \/ \E amount \in Amounts, min \in Limits, max \in Limits : Buy(m, amount, min, max)
       \/ \E amount \in Amounts, min \in Limits : Sell(m, amount, min)
       \/ CreatePool(m)
       \/ LockPool(m)

Spec == Init /\ [][Next]_vars

-----------------------------------------------------------------------------
(* What the program promises. *)

\* A mint whose curve exists.
Launched(m) == curve[m] # NoCurve

\* The lamports of every curve's reserve.
RealSol == [m \in Mints |-> IF Launched(m) THEN curve[m].realSol ELSE 0]

\* global_vault holds its seed and the real reserves of every curve: no curve
\* is ever paid with another one's lamports (swap, create_pool and their
\* transfers against the reserves they book).
VaultCoversCurves == config # {} => vault = Seed + SumFunction(RealSol)

\* Every token of a mint is accounted for: what left the curve is with the
\* traders, and until the migration the vault's token account holds the rest
\* of the curve's tokens and those the pool will need; the migration empties it.
\* (create_bonding_curve, apply_buy, apply_sell, create_pool.)
TokensBacked ==
  \A m \in Mints : Launched(m) => \A c \in born[m] :
    IF curve[m].state = "migrated"
      THEN ata[m] = 0 /\ circulating[m] = c.realToken
      ELSE /\ circulating[m] + curve[m].realToken = c.realToken
           /\ ata[m] = curve[m].realToken + c.meteoraToken

\* A curve migrates once, and with the amounts of the configuration it was
\* created under, whatever the admin configures in between (create_pool reads
\* the snapshot, is_migrated).
PoolAsPromised ==
  \A m \in Mints : Launched(m) => \A c \in born[m] :
    pool[m] = IF curve[m].state = "migrated"
                THEN [sol |-> c.meteoraSol, token |-> c.meteoraToken]
                ELSE [sol |-> 0, token |-> 0]

\* The product of the virtual reserves.
Product(b) == b.virtualSol * b.virtualToken * TokenScale

\* Rounding never costs a trading curve more than one new_sol of its product
\* per buy, and nothing per sell (get_sol_for_sell_tokens rounds for the curve,
\* get_tokens_for_buy_sol by less than one scaled token against it).
ProductHolds ==
  [][\A m \in Mints :
       /\ Launched(m) /\ curve[m].state = "trading"
       /\ curve'[m].state = "trading"
       => /\ Product(curve'[m]) + curve'[m].virtualSol > Product(curve[m])
          /\ curve'[m].virtualToken > curve[m].virtualToken
               => Product(curve'[m]) >= Product(curve[m])]_vars

\* Tokens bought and sold straight back never pay more than they cost, as long
\* as a lamport is worth at least one scaled token (the two quotes together).
RoundTripNeverProfits ==
  \A m \in Mints : Launched(m) /\ curve[m].state = "trading" =>
    LET b == curve[m] IN
    \A sol \in Amounts \ {0} :
      LET tokens == TokensForSol(b.virtualSol, b.virtualToken, sol) IN
      /\ ~Completes(b, sol) /\ tokens > 0
      /\ b.virtualSol + sol <= b.virtualToken * TokenScale
      => SolForTokens(b.virtualSol + sol, b.virtualToken - tokens, tokens) <= sol

\* A curve that sold out can be migrated, when the configuration leaves room
\* for rounding: the capped last buy may raise less than last_virtual_sol_reserves
\* says (apply_buy, create_pool).
CompletedCanMigrate ==
  \A m \in Mints : Launched(m) /\ curve[m].state = "completed" => MigrationIsFunded(m)

=============================================================================
