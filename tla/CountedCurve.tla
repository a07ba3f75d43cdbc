---------------------------- MODULE CountedCurve ----------------------------
(***************************************************************************)
(* BondingCurve with a history: how many buys every curve has had.  The    *)
(* number changes nothing of what the program does; it measures how far    *)
(* rounding may have taken a curve from its price when it sells out, and   *)
(* so how much room a configuration must leave for its migration.          *)
(***************************************************************************)
EXTENDS BondingCurve

VARIABLE buys  \* history: buys against the curve of every mint

CountedInit == Init /\ buys = [m \in Mints |-> 0]

\* A step of the program, counted if it is a buy.
CountedNext ==
  \/ \E m \in Mints :
       /\ \E amount \in Amounts, min \in Limits, max \in Limits : Buy(m, amount, min, max)
       /\ buys' = [buys EXCEPT ![m] = @ + 1]
  \/ /\ \/ \E c \in Configs : Configure(c)
        \/ \E m \in Mints :
             \/ CreateBondingCurve(m)
             \/ \E amount \in Amounts, min \in Limits : Sell(m, amount, min)
             \/ CreatePool(m)
             \/ LockPool(m)
     /\ UNCHANGED buys

CountedSpec == CountedInit /\ [][CountedNext]_<<vars, buys>>

-----------------------------------------------------------------------------
\* The scaled virtual tokens that are left when a curve has sold out.
EndReserve(c) == (c.virtualToken - c.realToken) * TokenScale

\* The product of the virtual reserves a curve starts with.
StartProduct(c) == c.virtualSol * (c.virtualToken * TokenScale)

\* target virtual lamports are at most last_virtual_sol_reserves, and at most
\* the start product over the end reserve less what n buys may lose of it: each
\* of them one part in EndReserve(c), and the last one what its cap allows.
WithinReach(c, n, target) ==
  LET end == EndReserve(c) IN
  /\ end > 0
  /\ target <= c.lastVirtualSol
  /\ target * (end * (end + 1)) <= StartProduct(c) * (end + 1 - n)

\* Whatever a curve raised beyond its first virtual lamports when its n-th buy
\* completed it, the migration can be paid from it.
RoomForRounding(c, n) ==
  \E target \in u64 :
    /\ WithinReach(c, n, target)
    /\ \A raised \in u64 :
         c.virtualSol + raised >= target =>
           raised >= RentReserve + FlatFee + TotalFee(c.migrationFee, raised) + c.meteoraSol

\* A curve that sold out stands at the price its configuration intended, but
\* for what its buys may have lost by rounding (apply_buy: the tokens of a buy
\* are rounded up at one scale, the price of the last ones is capped).
RaisedWithinReach ==
  \A m \in Mints : Launched(m) /\ curve[m].state = "completed" =>
    \A c \in born[m] : \A target \in u64 :
      WithinReach(c, buys[m], target) => curve[m].virtualSol >= target

\* A curve that sold out can be migrated if its configuration left room for as
\* many buys as it had (apply_buy, create_pool).
RoomIsEnough ==
  \A m \in Mints : Launched(m) /\ curve[m].state = "completed" =>
    \A c \in born[m] : RoomForRounding(c, buys[m]) => MigrationIsFunded(m)
=============================================================================
