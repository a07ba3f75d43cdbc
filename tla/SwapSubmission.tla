--------------------------- MODULE SwapSubmission ---------------------------
(***************************************************************************)
(* Trade: the swap of a triggered order, from the order that has just been *)
(* moved to Proc to the row that records the outcome.  The server builds,  *)
(* signs and submits the transaction itself, with three loops around it:   *)
(* the auto-slippage engine raises the tolerance (createMarketTxWith-      *)
(* PairInfo), createAndSendTx rebuilds with a new blockhash, and the RPC   *)
(* client (or the Jito route) resends the same signed transaction.         *)
(*                                                                         *)
(* The chain and the RPC node belong to the environment: a node may refuse *)
(* a transaction, accept it, or accept it and lose the answer.             *)
(***************************************************************************)
EXTENDS Integers, FiniteSets, Sequences

CONSTANTS
  Slippages,     \* tolerances a user may have set, in basis points
  Tiers,         \* floor of the tolerance in try 1, 2, 3 (0, 4500, 7000)
  MaxAttempts,   \* rebuilds in a try (3)
  MaxResends,    \* times the RPC client sends a transaction (3)
  MaxJitoSends,  \* times the Jito route sends a transaction (5)
  MaxLost,       \* bound: answers that get lost
  Faults         \* the faults of the service that may happen

ASSUME SlippageAssumption == Slippages \subseteq Nat /\ Slippages # {}
ASSUME TierAssumption == Tiers \in Seq(Nat) /\ Len(Tiers) > 0 /\ Tiers[1] = 0
ASSUME LoopAssumption ==
  /\ {MaxAttempts, MaxResends, MaxJitoSends} \subseteq Nat \ {0}
  /\ MaxLost \in Nat
ASSUME FaultAssumption == Faults \subseteq {"database", "crash"}

Tries == 1..Len(Tiers)
TxIds == Tries \X (1..MaxAttempts)   \* one signed transaction per attempt
NoTx == <<0, 0>>                     \* the empty hash

VARIABLES
  auto,       \* IsAutoSlippage of the order
  antiMev,    \* the order goes through Jito
  wished,     \* the tolerance the order was created with
  row,        \* the order's row: status, tx_hash, slippage
  pc,         \* where the matcher's goroutine is
  slippage,   \* param.Slippage
  try,        \* tryTimes
  attempt,    \* attempt of createAndSendTx
  sends,      \* sends of the current transaction so far
  err,        \* the error of the last attempt, after convertSwapErr
  txHash,     \* its transaction hash
  tx,         \* every transaction signed so far, as the chain knows it
  unanswered  \* transactions that a node accepted without its answer arriving

order == <<auto, antiMev, wished>>
loop == <<slippage, try, attempt>>
vars == <<order, row, pc, loop, sends, err, txHash, tx, unanswered>>

Errors == {"none", "slippage", "other"}
TxStates == {"unsigned", "signed", "accepted", "landed", "reverted", "expired"}

Larger(a, b) == IF a > b THEN a ELSE b
Current == <<try, attempt>>

\* The states of a transaction that some node has taken in.
Submitted == {t \in TxIds : tx[t].state \notin {"unsigned", "signed"}}

Init ==
  /\ auto \in BOOLEAN /\ antiMev \in BOOLEAN
  /\ wished \in Slippages /\ slippage = wished
  /\ row = [status |-> "proc", hash |-> NoTx, slippage |-> slippage]
  /\ pc = "try" /\ try = 0 /\ attempt = 0 /\ sends = 0
  /\ err = "none" /\ txHash = NoTx
  /\ tx = [t \in TxIds |-> [state |-> "unsigned", slippage |-> 0]]
  /\ unanswered = {}

-----------------------------------------------------------------------------
(* createMarketTxWithPairInfo: the tries.                                  *)

\* Mutant: the tolerance is raised whoever fixed it.
TriesWithoutConsent(e) == try = 0 \/ (e = "slippage" /\ try < Len(Tiers))

TriesAgain(e) == try = 0 \/ (auto /\ e = "slippage" /\ try < Len(Tiers))

Tier(n) == Larger(slippage, Tiers[n])

StartTry ==
  /\ pc = "try" /\ TriesAgain(err)
  /\ try' = try + 1 /\ attempt' = 1
  /\ slippage' = Tier(try + 1)
  /\ pc' = "build"
  /\ UNCHANGED <<order, row, sends, err, txHash, tx, unanswered>>

EndTries ==
  /\ pc = "try" /\ ~TriesAgain(err)
  /\ pc' = "update"
  /\ UNCHANGED <<order, row, loop, sends, err, txHash, tx, unanswered>>

-----------------------------------------------------------------------------
(* createAndSendTx: the attempts.  A refusal for slippage is handed to the *)
(* tries at once when they can raise the tolerance.                        *)

\* Mutant: no break after a successful submission.
AttemptsIgnoreSuccess(e) == (auto /\ e = "slippage") \/ attempt = MaxAttempts

AttemptsEnd(e) ==
  \/ e = "none"
  \/ auto /\ e = "slippage"
  \/ attempt = MaxAttempts

Answer(e, hash) ==
  /\ err' = e /\ txHash' = hash
  /\ IF AttemptsEnd(e)
       THEN pc' = "try" /\ UNCHANGED loop
       ELSE pc' = "build" /\ attempt' = attempt + 1 /\ UNCHANGED <<slippage, try>>

\* Pool, quote and blockhash are read anew, the transaction is signed.
BuildAndSign ==
  /\ pc = "build"
  /\ tx' = [tx EXCEPT ![Current] = [state |-> "signed", slippage |-> slippage]]
  /\ sends' = 0
  /\ pc' = IF antiMev THEN "simulate" ELSE "send"
  /\ UNCHANGED <<order, row, loop, err, txHash, unanswered>>

BuildFails ==
  /\ pc = "build"
  /\ Answer("other", NoTx)
  /\ UNCHANGED <<order, row, sends, tx, unanswered>>

-----------------------------------------------------------------------------
(* SignByTeeAndSend: the sends of one signed transaction.                  *)

Accept(t) ==
  IF tx[t].state = "signed" THEN [tx EXCEPT ![t].state = "accepted"] ELSE tx

\* A node that has seen the transaction in a block refuses it in preflight.
AlreadyProcessed == tx[Current].state \in {"landed", "reverted"}

LoseAnswer ==
  /\ Cardinality(unanswered) < MaxLost \/ Current \in unanswered
  /\ tx' = Accept(Current)
  /\ unanswered' = unanswered \cup {Current}

\* Mutant: the last failure is waited for and retried as well.
SendFailsOnceMore(e) ==
  \/ /\ sends + 1 <= MaxResends
     /\ sends' = sends + 1
     /\ UNCHANGED <<pc, loop, err, txHash>>
  \/ /\ sends = MaxResends
     /\ Answer(e, NoTx)
     /\ UNCHANGED sends

SendFails(e) ==
  \/ /\ sends + 1 < MaxResends
     /\ sends' = sends + 1
     /\ UNCHANGED <<pc, loop, err, txHash>>
  \/ /\ sends + 1 = MaxResends
     /\ Answer(e, NoTx)
     /\ UNCHANGED sends

SendAccepted ==
  /\ pc = "send" /\ ~AlreadyProcessed
  /\ tx' = Accept(Current)
  /\ Answer("none", Current)
  /\ UNCHANGED <<order, row, sends, unanswered>>

SendRefused(e) ==
  /\ pc = "send"
  /\ AlreadyProcessed => e = "other"
  /\ SendFails(e)
  /\ UNCHANGED <<order, row, tx, unanswered>>

SendUnanswered ==
  /\ pc = "send" /\ ~AlreadyProcessed
  /\ LoseAnswer
  /\ SendFails("other")
  /\ UNCHANGED <<order, row>>

\* SendViaJitoRetry simulates first: Jito itself accepts anything.
Simulate ==
  /\ pc = "simulate"
  /\ pc' = "jito"
  /\ UNCHANGED <<order, row, loop, sends, err, txHash, tx, unanswered>>

SimulateFails(e) ==
  /\ pc = "simulate"
  /\ Answer(e, NoTx)
  /\ UNCHANGED <<order, row, sends, tx, unanswered>>

JitoAccepted ==
  /\ pc = "jito"
  /\ tx' = Accept(Current)
  /\ Answer("none", Current)
  /\ UNCHANGED <<order, row, sends, unanswered>>

JitoRateLimits ==
  /\ pc = "jito"
  /\ \/ /\ sends + 1 < MaxJitoSends
        /\ sends' = sends + 1
        /\ UNCHANGED <<pc, loop, err, txHash>>
     \/ /\ sends + 1 = MaxJitoSends
        /\ Answer("other", NoTx)
        /\ UNCHANGED sends
  /\ UNCHANGED <<order, row, tx, unanswered>>

JitoFails ==
  /\ pc = "jito"
  /\ Answer("other", NoTx)
  /\ UNCHANGED <<order, row, sends, tx, unanswered>>

JitoUnanswered ==
  /\ pc = "jito"
  /\ LoseAnswer
  /\ Answer("other", NoTx)
  /\ UNCHANGED <<order, row, sends>>

-----------------------------------------------------------------------------
(* updateDbByTxResult, and the service stopping before it.                 *)

\* Mutants: the slippage, or the status of a failure, is not selected.
RowWithoutSlippage ==
  IF err = "none" THEN [row EXCEPT !.status = "onchain", !.hash = txHash]
                  ELSE [row EXCEPT !.status = "fail"]

RowWithoutStatus ==
  IF err = "none"
    THEN [status |-> "onchain", hash |-> txHash, slippage |-> slippage]
    ELSE [row EXCEPT !.slippage = slippage]

RowOfResult ==
  IF err = "none"
    THEN [status |-> "onchain", hash |-> txHash, slippage |-> slippage]
    ELSE [row EXCEPT !.status = "fail", !.slippage = slippage]

UpdateDbByTxResult ==
  /\ pc = "update"
  /\ row' = RowOfResult
  /\ pc' = "done"
  /\ UNCHANGED <<order, loop, sends, err, txHash, tx, unanswered>>

UpdateDbByTxResultFails ==
  /\ "database" \in Faults
  /\ pc = "update"
  /\ pc' = "lost"
  /\ UNCHANGED <<order, row, loop, sends, err, txHash, tx, unanswered>>

Crash ==
  /\ "crash" \in Faults
  /\ pc \notin {"done", "lost"}
  /\ pc' = "lost"
  /\ UNCHANGED <<order, row, loop, sends, err, txHash, tx, unanswered>>

-----------------------------------------------------------------------------
(* The chain: an accepted transaction succeeds, fails, or is never seen    *)
(* before its blockhash expires.                                           *)

Settle(t) ==
  /\ tx[t].state = "accepted"
  /\ \E s \in {"landed", "reverted", "expired"} :
       tx' = [tx EXCEPT ![t].state = s]
  /\ UNCHANGED <<order, row, pc, loop, sends, err, txHash, unanswered>>

Submission ==
  \/ StartTry \/ EndTries
  \/ BuildAndSign \/ BuildFails
  \/ SendAccepted \/ SendUnanswered
  \/ \E e \in {"slippage", "other"} : SendRefused(e) \/ SimulateFails(e)
  \/ Simulate \/ JitoAccepted \/ JitoRateLimits \/ JitoFails \/ JitoUnanswered
  \/ UpdateDbByTxResult \/ UpdateDbByTxResultFails

Next == Submission \/ Crash \/ \E t \in TxIds : Settle(t)

Spec == Init /\ [][Next]_vars

\* The matcher's goroutine runs until it returns: every call has a timeout.
FairSpec == Spec /\ WF_vars(Submission)

-----------------------------------------------------------------------------
\* The transactions a node took in and answered for.
Answered == {t \in Submitted : t \notin unanswered}

\* Types, the values the loops keep their counters in, and that a
\* transaction the answer of which was lost had been taken in.
TypeOK ==
  /\ auto \in BOOLEAN /\ antiMev \in BOOLEAN /\ wished \in Slippages
  /\ row \in [status : {"proc", "onchain", "fail"},
              hash : TxIds \cup {NoTx}, slippage : Nat]
  /\ pc \in {"try", "build", "simulate", "send", "jito", "update", "done", "lost"}
  /\ slippage \in Nat
  /\ try \in Tries \cup {0} /\ attempt \in 0..MaxAttempts
  /\ sends \in 0..(Larger(MaxResends, MaxJitoSends) - 1)
  /\ err \in Errors /\ txHash \in TxIds \cup {NoTx}
  /\ tx \in [TxIds -> [state : TxStates, slippage : Nat]]
  /\ unanswered \subseteq Submitted

\* However the three loops interleave refusals, resends and rebuilds, the
\* order is swapped once for every answer that was lost and at most once more,
\* and that one is the swap the server knows the hash of (the break on success
\* in createAndSendTx, and the tries that go on only after a refusal).
SwapsAccountedFor ==
  /\ Cardinality(Answered) <= 1
  /\ \A t \in Answered : txHash = t /\ err = "none"

\* The row tells what happened.  An order recorded as on chain names a
\* transaction that was submitted, with the tolerance that very transaction was
\* signed with, also after the auto-slippage engine has raised it.  An order
\* recorded as failed was not submitted, unless an answer was lost: a user who
\* sees Fail and trades again does not swap twice (updateDbByTxResult).
RowIsTruthful ==
  /\ row.status = "onchain" => /\ row.hash \in Submitted
                              /\ tx[row.hash].slippage = row.slippage
  /\ row.status = "fail" => Submitted \subseteq unanswered

\* A tolerance the user fixed is the tolerance of every transaction signed for
\* the order; only auto slippage raises it, and then to a tier of its own.
SlippageIsConsented ==
  \A t \in TxIds : tx[t].state # "unsigned" =>
    \/ tx[t].slippage = wished
    \/ auto /\ tx[t].slippage > wished /\ \E n \in 2..t[1] : tx[t].slippage = Tiers[n]

\* The order leaves Proc unless the service stops or the update itself fails.
SubmissionEnds == <>(row.status # "proc" \/ pc = "lost")

=============================================================================
