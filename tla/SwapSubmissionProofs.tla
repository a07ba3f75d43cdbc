----------------------- MODULE SwapSubmissionProofs -----------------------
(***************************************************************************)
(* Proofs about SwapSubmission, for any number of tries, attempts and      *)
(* sends, any tiers and tolerances, any number of lost answers, and every  *)
(* fault: the swaps of an order are accounted for, its row is truthful and *)
(* a tolerance is raised only where the user left it to the engine.        *)
(***************************************************************************)
EXTENDS SwapSubmission, FiniteSetTheorems, TLAPS

-----------------------------------------------------------------------------
(* The inductive invariant.                                                *)

Sending == {"simulate", "send", "jito"}   \* a signed transaction is under way
Working == {"build"} \cup Sending         \* inside createAndSendTx

\* The goroutine has signed the transaction of this try and attempt, or could have.
Reached(t) ==
  \/ t[1] < try
  \/ t[1] = try /\ (t[2] < attempt \/ (t[2] = attempt /\ pc # "build"))

\* Each attempt signs a transaction of its own.
FreshInv == \A t \in TxIds : tx[t].state # "unsigned" => Reached(t)

LoopInv == /\ pc \in Working => Current \in TxIds
           /\ pc = "update" => try # 0

\* The transaction that is being sent has the tolerance of the current try.
CurrentInv ==
  pc \in Sending => tx[Current].state # "unsigned" /\ tx[Current].slippage = slippage

\* Another attempt is made only if no answer says that an earlier one arrived.
PendingInv == pc \in Working => Submitted \subseteq unanswered

AnsweredInv == \A t \in Answered : txHash = t /\ err = "none"

\* A success names a transaction that a node took in, with its tolerance.
ResultInv ==
  pc \in {"try", "update"} /\ try # 0 /\ err = "none" =>
    txHash \in Submitted /\ tx[txHash].slippage = slippage

\* The current tolerance is the user's, or a tier that auto slippage reached.
ToleranceInv ==
  \/ slippage = wished
  \/ auto /\ slippage > wished /\ \E n \in 2..try : slippage = Tiers[n]

RowInv == row.status # "proc" => pc = "done"

\* What an attempt relies on and what its answer must restore.
SubmissionInv == FreshInv /\ LoopInv /\ CurrentInv /\ PendingInv /\ AnsweredInv /\ ResultInv

IInv == /\ TypeOK /\ SubmissionInv
        /\ ToleranceInv /\ SlippageIsConsented
        /\ RowInv /\ RowIsTruthful

-----------------------------------------------------------------------------
(* Transactions.                                                           *)

\* Signed transactions stay signed, with the tolerance they have.
TxKept ==
  /\ tx' \in [TxIds -> [state : TxStates, slippage : Nat]]
  /\ \A t \in TxIds : /\ tx'[t].slippage = tx[t].slippage
                      /\ tx'[t].state = "unsigned" <=> tx[t].state = "unsigned"

LEMMA UnchangedKept ==
  ASSUME TypeOK, UNCHANGED tx
  PROVE  TxKept /\ Submitted' = Submitted
  BY DEF TypeOK, TxKept, Submitted

LEMMA AcceptKept ==
  ASSUME TypeOK, NEW t \in TxIds, tx[t].state # "unsigned", tx' = Accept(t)
  PROVE  TxKept /\ Submitted' = Submitted \cup {t}
<1> DEFINE accepted == [tx[t] EXCEPT !.state = "accepted"]
<1>1. /\ tx \in [TxIds -> [state : TxStates, slippage : Nat]]
      /\ tx[t] \in [state : TxStates, slippage : Nat]
  BY DEF TypeOK
<1>2. CASE tx[t].state = "signed"
  <2>1. tx' = [tx EXCEPT ![t] = accepted]
    BY <1>2 DEF Accept
  <2>2. /\ accepted \in [state : TxStates, slippage : Nat]
        /\ accepted.state = "accepted" /\ accepted.slippage = tx[t].slippage
    BY <1>1 DEF TxStates
  <2> HIDE DEF accepted
  <2>3. /\ tx' \in [TxIds -> [state : TxStates, slippage : Nat]]
        /\ tx'[t] = accepted
        /\ \A u \in TxIds : u # t => tx'[u] = tx[u]
    BY <1>1, <2>1, <2>2
  <2>4. TxKept
    BY <2>2, <2>3, <1>2 DEF TxKept
  <2> QED
    BY <2>2, <2>3, <2>4, <1>2 DEF Submitted
<1>3. CASE tx[t].state # "signed"
  <2>1. tx' = tx /\ t \in Submitted
    BY <1>3 DEF Accept, Submitted
  <2> QED
    BY <2>1, UnchangedKept
<1> QED
  BY <1>2, <1>3

\* What follows from the tolerances of the signed transactions follows still.
LEMMA ConsentKept ==
  ASSUME SlippageIsConsented, TxKept, UNCHANGED <<wished, auto>>
  PROVE  SlippageIsConsented'
<1> SUFFICES ASSUME NEW t \in TxIds, tx'[t].state # "unsigned"
             PROVE  \/ tx'[t].slippage = wished
                    \/ /\ auto /\ tx'[t].slippage > wished
                       /\ \E n \in 2..t[1] : tx'[t].slippage = Tiers[n]
  BY DEF SlippageIsConsented
<1>1. tx[t].state # "unsigned" /\ tx'[t].slippage = tx[t].slippage
  BY DEF TxKept
<1> QED
  BY <1>1 DEF SlippageIsConsented

\* While the goroutine works the row is in Proc, and says nothing.
LEMMA RowUntouched ==
  ASSUME RowInv, pc # "done", UNCHANGED row
  PROVE  RowInv' /\ RowIsTruthful'
<1>1. row.status = "proc"
  BY DEF RowInv
<1> QED
  BY <1>1 DEF RowInv, RowIsTruthful

-----------------------------------------------------------------------------
(* The answer to an attempt, and a resend.                                 *)

\* An attempt ends, or the next one begins.  A success is the current
\* transaction; without one, all that was taken in is unanswered.
LEMMA AnswerStep ==
  ASSUME IInv, pc \in Working, TxKept, UNCHANGED <<order, row>>,
         NEW e \in Errors, NEW hash, Answer(e, hash),
         sends' \in 0..(Larger(MaxResends, MaxJitoSends) - 1),
         unanswered' \subseteq Submitted',
         \/ e # "none" /\ hash = NoTx /\ Submitted' \subseteq unanswered'
         \/ /\ e = "none" /\ hash = Current
            /\ Current \in Submitted' /\ Submitted' \subseteq unanswered' \cup {Current}
            /\ pc \in Sending
  PROVE  IInv'
<1> USE LoopAssumption DEF IInv, SubmissionInv
<1>0. /\ Current \in TxIds /\ try \in Tries /\ attempt \in 1..MaxAttempts
      /\ MaxAttempts \in Nat /\ pc # "done" /\ slippage \in Nat
  <2>1. Current \in TxIds /\ pc # "done"
    BY DEF LoopInv, Working, Sending
  <2> QED
    BY <2>1 DEF Current, TxIds, TypeOK
<1>1. err' = e /\ txHash' = hash /\ try' = try /\ slippage' = slippage
  BY DEF Answer, loop
<1>2. \/ AttemptsEnd(e) /\ pc' = "try" /\ attempt' = attempt
      \/ ~AttemptsEnd(e) /\ pc' = "build" /\ attempt' = attempt + 1
  BY DEF Answer, loop
<1>3. \/ pc' = "try" /\ attempt' = attempt
      \/ e # "none" /\ pc' = "build" /\ attempt' = attempt + 1 /\ attempt' \in 1..MaxAttempts
  BY <1>0, <1>2, SMT DEF AttemptsEnd
<1>4. TypeOK'
  <2>1. txHash' \in TxIds \cup {NoTx}
    BY <1>0, <1>1
  <2>2. attempt' \in 0..MaxAttempts
    BY <1>0, <1>3, SMT
  <2> QED
    BY <1>1, <1>3, <2>1, <2>2 DEF TypeOK, TxKept, order
<1>5. FreshInv'
  <2> SUFFICES ASSUME NEW t \in TxIds, tx'[t].state # "unsigned" PROVE Reached(t)'
    BY DEF FreshInv
  <2>1. Reached(t)
    BY DEF FreshInv, TxKept
  <2>2. t[1] \in Nat /\ t[2] \in Nat
    BY TierAssumption, SMT DEF TxIds, Tries
  <2> QED
    BY <1>0, <1>1, <1>3, <2>1, <2>2, SMT DEF Reached, Tries
<1>6. LoopInv'
  BY <1>0, <1>1, <1>3 DEF LoopInv, Working, Sending, Current, TxIds
<1>7. CurrentInv'
  BY <1>3 DEF CurrentInv, Sending
<1>8. PendingInv'
  BY <1>3 DEF PendingInv, Working, Sending
<1>9. AnsweredInv'
  BY <1>1 DEF AnsweredInv, Answered
<1>10. ResultInv'
  <2> SUFFICES ASSUME e = "none"
               PROVE  txHash' \in Submitted' /\ tx'[txHash'].slippage = slippage'
    BY <1>1 DEF ResultInv
  <2>1. txHash' = Current /\ Current \in Submitted' /\ pc \in Sending
    BY <1>1
  <2>2. tx[Current].slippage = slippage
    BY <2>1 DEF CurrentInv
  <2> QED
    BY <2>1, <2>2, <1>0, <1>1 DEF TxKept
<1>11. ToleranceInv'
  BY <1>1 DEF ToleranceInv, order
<1>12. SlippageIsConsented'
  BY ConsentKept DEF order
<1>13. RowInv' /\ RowIsTruthful'
  BY <1>0, RowUntouched
<1> QED
  BY <1>4, <1>5, <1>6, <1>7, <1>8, <1>9, <1>10, <1>11, <1>12, <1>13

\* The current transaction is sent once more.
LEMMA ResendStep ==
  ASSUME IInv, pc \in Sending, TxKept, UNCHANGED <<order, row, pc, loop, err, txHash>>,
         sends' \in 0..(Larger(MaxResends, MaxJitoSends) - 1),
         unanswered' \subseteq Submitted', Submitted' \subseteq unanswered'
  PROVE  IInv'
<1> USE DEF IInv, SubmissionInv, order, loop
<1>0. Current \in TxIds /\ pc # "done" /\ pc \in Working /\ pc \notin {"try", "update"}
  BY DEF LoopInv, Working, Sending
<1>1. TypeOK'
  BY DEF TypeOK, TxKept
<1>2. FreshInv'
  BY DEF FreshInv, TxKept, Reached
<1>3. LoopInv'
  BY DEF LoopInv, Current
<1>4. CurrentInv'
  BY <1>0 DEF CurrentInv, TxKept, Current
<1>5. PendingInv' /\ AnsweredInv' /\ ResultInv'
  BY <1>0 DEF PendingInv, AnsweredInv, Answered, ResultInv
<1>6. ToleranceInv'
  BY DEF ToleranceInv
<1>7. SlippageIsConsented'
  BY ConsentKept
<1>8. RowInv' /\ RowIsTruthful'
  BY <1>0, RowUntouched
<1> QED
  BY <1>1, <1>2, <1>3, <1>4, <1>5, <1>6, <1>7, <1>8

-----------------------------------------------------------------------------
(* The steps.                                                              *)

LEMMA InitInv == Init => IInv
<1> SUFFICES ASSUME Init PROVE IInv
  OBVIOUS
<1> USE SlippageAssumption, LoopAssumption, TierAssumption DEF Init
<1>1. \A t \in TxIds : tx[t].state = "unsigned"
  OBVIOUS
<1>2. Submitted = {} /\ Answered = {}
  BY <1>1 DEF Submitted, Answered
<1>3. TypeOK
  <2>1. tx \in [TxIds -> [state : TxStates, slippage : Nat]]
    BY DEF TxStates
  <2>2. sends \in 0..(Larger(MaxResends, MaxJitoSends) - 1)
    BY SMT DEF Larger
  <2>3. row \in [status : {"proc", "onchain", "fail"}, hash : TxIds \cup {NoTx}, slippage : Nat]
    OBVIOUS
  <2>4. try \in Tries \cup {0} /\ attempt \in 0..MaxAttempts /\ err \in Errors
    BY SMT DEF Errors
  <2> QED
    BY <2>1, <2>2, <2>3, <2>4, <1>2 DEF TypeOK
<1>4. SubmissionInv
  BY <1>1, <1>2 DEF SubmissionInv, FreshInv, LoopInv, CurrentInv, PendingInv, AnsweredInv,
                    ResultInv, Working, Sending
<1>5. ToleranceInv /\ SlippageIsConsented /\ RowInv /\ RowIsTruthful
  BY <1>1 DEF ToleranceInv, SlippageIsConsented, RowInv, RowIsTruthful
<1> QED
  BY <1>3, <1>4, <1>5 DEF IInv

\* A try starts with no transaction taken in and answered for, and its tier is
\* above the tolerance only if the user left it to the engine.
LEMMA StartTryStep ==
  ASSUME IInv, StartTry
  PROVE  IInv'
<1> USE LoopAssumption, TierAssumption DEF IInv, SubmissionInv, StartTry, order
<1>1. /\ pc = "try" /\ pc' = "build" /\ try' = try + 1 /\ attempt' = 1
      /\ slippage' = Tier(try + 1) /\ TriesAgain(err)
      /\ UNCHANGED <<row, sends, err, txHash, tx, unanswered>>
  OBVIOUS
<1>2. try \in Nat /\ try' \in Tries /\ Tiers[try'] \in Nat
  BY <1>1, SMT DEF TriesAgain, Tries, TypeOK
<1>3. slippage \in Nat /\ slippage' \in Nat
  BY <1>1, <1>2, SMT DEF Tier, Larger, TypeOK
<1>4. TypeOK'
  <2>1. attempt' \in 0..MaxAttempts
    BY <1>1, SMT
  <2> QED
    BY <2>1, <1>1, <1>2, <1>3 DEF TypeOK, Submitted
<1>5. TxKept /\ Submitted' = Submitted
  BY <1>1, UnchangedKept
<1>6. \A t \in TxIds : t[1] \in Nat /\ t[1] > 0
  BY SMT DEF TxIds, Tries
<1>7. FreshInv'
  <2> SUFFICES ASSUME NEW t \in TxIds, tx[t].state # "unsigned" PROVE Reached(t)'
    BY <1>1 DEF FreshInv
  <2>1. Reached(t)
    BY DEF FreshInv
  <2> QED
    BY <2>1, <1>1, <1>2, <1>6, SMT DEF Reached
<1>8. LoopInv' /\ CurrentInv'
  <2>1. <<try', 1>> \in TxIds
    BY <1>2, SMT DEF TxIds
  <2> QED
    BY <2>1, <1>1 DEF LoopInv, CurrentInv, Sending, Current
<1>9. PendingInv'
  <2>1. CASE try = 0
    <3> SUFFICES ASSUME NEW t \in TxIds, tx[t].state # "unsigned" PROVE FALSE
      BY <1>1, <1>5 DEF PendingInv, Submitted
    <3>1. Reached(t)
      BY DEF FreshInv
    <3> QED
      BY <3>1, <2>1, <1>6, SMT DEF Reached
  <2>2. CASE try # 0
    <3>1. err # "none"
      BY <2>2, <1>1 DEF TriesAgain
    <3>2. Answered = {}
      BY <3>1 DEF AnsweredInv
    <3> QED
      BY <3>2, <1>1, <1>5 DEF Answered, PendingInv
  <2> QED
    BY <2>1, <2>2
<1>10. AnsweredInv' /\ ResultInv'
  BY <1>1, <1>5 DEF AnsweredInv, Answered, ResultInv
<1>11. ToleranceInv'
  <2>1. wished \in Nat
    BY SlippageAssumption DEF TypeOK
  <2>2. CASE slippage' = slippage
    BY <2>2, <1>1, <1>2, SMT DEF ToleranceInv
  <2>3. CASE slippage' # slippage
    <3>1. slippage' = Tiers[try'] /\ slippage' > slippage
      BY <2>3, <1>1, <1>2, <1>3, SMT DEF Tier, Larger
    <3>2. try # 0
      <4>0. try = 0 => try' = 1
        BY <1>1
      <4>1. try = 0 => slippage' = 0
        BY <4>0, <3>1
      <4> QED
        BY <4>1, <3>1, <1>3, SMT
    <3>3. auto /\ try' \in 2..try'
      BY <3>2, <1>1, <1>2, SMT DEF TriesAgain
    <3>4. slippage >= wished
      BY <2>1, <1>3, SMT DEF ToleranceInv
    <3>5. slippage' > wished
      BY <3>1, <3>4, <2>1, <1>3, SMT
    <3> QED
      BY <3>1, <3>3, <3>5 DEF ToleranceInv
  <2> QED
    BY <2>2, <2>3
<1>12. SlippageIsConsented'
  BY <1>5, ConsentKept
<1>13. RowInv' /\ RowIsTruthful'
  BY <1>1, RowUntouched
<1> QED
  BY <1>4, <1>7, <1>8, <1>9, <1>10, <1>11, <1>12, <1>13

\* Steps that move the goroutine on and change nothing else.
LEMMA MoveStep ==
  ASSUME IInv, EndTries \/ Simulate \/ Crash \/ UpdateDbByTxResultFails
  PROVE  IInv'
<1> USE DEF IInv, SubmissionInv, order, loop
<1>1. /\ UNCHANGED <<order, row, loop, err, sends, txHash, tx, unanswered>>
      /\ pc # "done"
      /\ \/ pc = "try" /\ pc' = "update" /\ try # 0
         \/ pc = "simulate" /\ pc' = "jito"
         \/ pc' = "lost"
  BY Zenon DEF EndTries, TriesAgain, Simulate, Crash, UpdateDbByTxResultFails
<1>2. TypeOK'
  BY <1>1 DEF TypeOK, Submitted
<1>3. TxKept /\ Submitted' = Submitted
  BY <1>1, UnchangedKept
<1>4. FreshInv'
  BY <1>1 DEF FreshInv, Reached
<1>5. LoopInv' /\ CurrentInv' /\ PendingInv'
  BY <1>1, <1>3 DEF LoopInv, CurrentInv, PendingInv, Working, Sending, Current
<1>6. AnsweredInv' /\ ResultInv'
  BY <1>1, <1>3 DEF AnsweredInv, Answered, ResultInv
<1>7. ToleranceInv'
  BY <1>1 DEF ToleranceInv
<1>8. SlippageIsConsented'
  BY <1>1, <1>3, ConsentKept
<1>9. RowInv' /\ RowIsTruthful'
  BY <1>1, RowUntouched
<1> QED
  BY <1>2, <1>4, <1>5, <1>6, <1>7, <1>8, <1>9

\* The transaction of this try and attempt is new: signing it accepts nothing.
LEMMA BuildStep ==
  ASSUME IInv, BuildAndSign
  PROVE  IInv'
<1> USE LoopAssumption DEF IInv, SubmissionInv, BuildAndSign, order, loop
<1>1. /\ pc = "build" /\ pc' \in {"simulate", "send"} /\ sends' = 0
      /\ UNCHANGED <<order, row, loop, err, txHash, unanswered>>
  OBVIOUS
<1>2. /\ Current \in TxIds /\ try \in Nat /\ attempt \in Nat /\ slippage \in Nat
      /\ Current[1] = try /\ Current[2] = attempt
  BY <1>1, SMT DEF LoopInv, Working, Current, TypeOK, Tries
<1>3. /\ tx' \in [TxIds -> [state : TxStates, slippage : Nat]]
      /\ tx'[Current] = [state |-> "signed", slippage |-> slippage]
      /\ \A t \in TxIds : t # Current => tx'[t] = tx[t]
  BY <1>2 DEF TypeOK, TxStates
<1>4. tx[Current].state = "unsigned"
  <2>1. ~Reached(Current)
    BY <1>1, <1>2, SMT DEF Reached
  <2> QED
    BY <2>1, <1>2 DEF FreshInv
<1>5. Submitted' = Submitted
  BY <1>3, <1>4 DEF Submitted
<1>6. TypeOK'
  <2>1. sends' \in 0..(Larger(MaxResends, MaxJitoSends) - 1)
    BY <1>1, SMT DEF Larger
  <2> QED
    BY <2>1, <1>1, <1>3, <1>5 DEF TypeOK
<1>7. FreshInv'
  <2> SUFFICES ASSUME NEW t \in TxIds, tx'[t].state # "unsigned" PROVE Reached(t)'
    BY DEF FreshInv
  <2>1. CASE t = Current
    BY <2>1, <1>1, <1>2 DEF Reached
  <2>2. CASE t # Current
    BY <2>2, <1>1, <1>3 DEF FreshInv, Reached
  <2> QED
    BY <2>1, <2>2
<1>8. LoopInv' /\ CurrentInv'
  BY <1>1, <1>2, <1>3 DEF LoopInv, CurrentInv, Working, Current
<1>9. PendingInv' /\ AnsweredInv' /\ ResultInv'
  BY <1>1, <1>5 DEF PendingInv, AnsweredInv, Answered, ResultInv, Working
<1>10. ToleranceInv'
  BY <1>1 DEF ToleranceInv
<1>11. SlippageIsConsented'
  <2> SUFFICES ASSUME NEW t \in TxIds, tx'[t].state # "unsigned"
               PROVE  \/ tx'[t].slippage = wished
                      \/ /\ auto /\ tx'[t].slippage > wished
                         /\ \E n \in 2..t[1] : tx'[t].slippage = Tiers[n]
    BY DEF SlippageIsConsented
  <2>1. CASE t = Current
    BY <2>1, <1>2, <1>3 DEF ToleranceInv
  <2>2. CASE t # Current
    BY <2>2, <1>3 DEF SlippageIsConsented
  <2> QED
    BY <2>1, <2>2
<1>12. RowInv' /\ RowIsTruthful'
  BY <1>1, RowUntouched
<1> QED
  BY <1>6, <1>7, <1>8, <1>9, <1>10, <1>11, <1>12

\* An attempt that hands nothing in, and one whose transaction is accepted.
LEMMA RefusedStep ==
  ASSUME IInv, pc \in Working, UNCHANGED <<order, row, tx, unanswered>>,
         NEW e \in {"slippage", "other"}, Answer(e, NoTx), UNCHANGED sends
  PROVE  IInv'
<1>1. TxKept /\ Submitted' = Submitted
  BY UnchangedKept DEF IInv
<1>2. unanswered' \subseteq Submitted' /\ Submitted' \subseteq unanswered'
  BY <1>1 DEF IInv, TypeOK, SubmissionInv, PendingInv
<1>3. sends' \in 0..(Larger(MaxResends, MaxJitoSends) - 1)
  BY DEF IInv, TypeOK
<1> QED
  BY <1>1, <1>2, <1>3, AnswerStep DEF Errors

LEMMA AcceptedStep ==
  ASSUME IInv, pc \in Sending, tx' = Accept(Current), Answer("none", Current),
         UNCHANGED <<order, row, sends, unanswered>>
  PROVE  IInv'
<1>1. pc \in Working /\ Current \in TxIds /\ tx[Current].state # "unsigned"
  BY DEF IInv, SubmissionInv, LoopInv, CurrentInv, Working
<1>2. TxKept /\ Submitted' = Submitted \cup {Current}
  BY <1>1, AcceptKept DEF IInv
<1>3. unanswered \subseteq Submitted /\ Submitted \subseteq unanswered
  BY <1>1 DEF IInv, TypeOK, SubmissionInv, PendingInv
<1>4. sends' \in 0..(Larger(MaxResends, MaxJitoSends) - 1)
  BY DEF IInv, TypeOK
<1>5. /\ unanswered' \subseteq Submitted' /\ Current \in Submitted'
      /\ Submitted' \subseteq unanswered' \cup {Current}
  BY <1>2, <1>3
<1> QED
  BY <1>1, <1>2, <1>4, <1>5, AnswerStep DEF Errors

\* After a lost answer everything taken in is still unanswered.
LEMMA LostAnswer ==
  ASSUME IInv, pc \in Sending, LoseAnswer
  PROVE  TxKept /\ unanswered' \subseteq Submitted' /\ Submitted' \subseteq unanswered'
<1>1. pc \in Working /\ Current \in TxIds /\ tx[Current].state # "unsigned"
  BY DEF IInv, SubmissionInv, LoopInv, CurrentInv, Working
<1>2. TxKept /\ Submitted' = Submitted \cup {Current}
  BY <1>1, AcceptKept DEF IInv, LoseAnswer
<1>3. unanswered \subseteq Submitted /\ Submitted \subseteq unanswered
  BY <1>1 DEF IInv, TypeOK, SubmissionInv, PendingInv
<1> QED
  BY <1>2, <1>3 DEF LoseAnswer

\* The RPC client resends until its sends are used up.
LEMMA SendFailsStep ==
  ASSUME IInv, pc = "send", UNCHANGED <<order, row>>, NEW e \in {"slippage", "other"},
         SendFails(e), TxKept, unanswered' \subseteq Submitted', Submitted' \subseteq unanswered'
  PROVE  IInv'
<1>1. pc \in Sending /\ pc \in Working /\ sends \in Nat
  BY LoopAssumption, SMT DEF Sending, Working, IInv, TypeOK, Larger
<1>2. sends' \in 0..(Larger(MaxResends, MaxJitoSends) - 1)
  <2>1. \/ sends' = sends
        \/ sends + 1 < MaxResends /\ sends' = sends + 1
    BY DEF SendFails
  <2> QED
    BY <2>1, <1>1, LoopAssumption, SMT DEF Larger, IInv, TypeOK
<1>3. CASE UNCHANGED <<pc, loop, err, txHash>>
  BY <1>1, <1>2, <1>3, ResendStep
<1>4. CASE Answer(e, NoTx)
  BY <1>1, <1>2, <1>4, AnswerStep DEF Errors
<1> QED
  BY <1>3, <1>4 DEF SendFails

LEMMA SendStep ==
  ASSUME IInv,
         SendAccepted \/ SendUnanswered \/ \E e \in {"slippage", "other"} : SendRefused(e)
  PROVE  IInv'
<1>1. CASE SendAccepted
  BY <1>1, AcceptedStep DEF SendAccepted, Sending
<1>2. CASE SendUnanswered
  <2>1. pc = "send" /\ LoseAnswer /\ SendFails("other") /\ UNCHANGED <<order, row>>
    BY <1>2 DEF SendUnanswered
  <2>2. TxKept /\ unanswered' \subseteq Submitted' /\ Submitted' \subseteq unanswered'
    BY <2>1, LostAnswer DEF Sending
  <2> QED
    BY <2>1, <2>2, SendFailsStep
<1>3. ASSUME NEW e \in {"slippage", "other"}, SendRefused(e)
      PROVE  IInv'
  <2>1. pc = "send" /\ SendFails(e) /\ UNCHANGED <<order, row, tx, unanswered>>
    BY <1>3 DEF SendRefused
  <2>2. TxKept /\ Submitted' = Submitted
    BY <2>1, UnchangedKept DEF IInv
  <2>3. unanswered' \subseteq Submitted' /\ Submitted' \subseteq unanswered'
    BY <2>1, <2>2 DEF IInv, TypeOK, SubmissionInv, PendingInv, Working, Sending
  <2> QED
    BY <2>1, <2>2, <2>3, SendFailsStep
<1> QED
  BY <1>1, <1>2, <1>3

\* The Jito route resends when it is told to slow down, and only then.
LEMMA JitoStep ==
  ASSUME IInv, JitoAccepted \/ JitoRateLimits \/ JitoFails \/ JitoUnanswered
  PROVE  IInv'
<1>1. pc = "jito" /\ pc \in Sending /\ pc \in Working
  BY DEF JitoAccepted, JitoRateLimits, JitoFails, JitoUnanswered, Sending, Working
<1>2. CASE JitoAccepted
  BY <1>1, <1>2, AcceptedStep DEF JitoAccepted
<1>3. CASE JitoRateLimits
  <2>1. UNCHANGED <<order, row, tx, unanswered>>
    BY <1>3 DEF JitoRateLimits
  <2>2. CASE sends + 1 < MaxJitoSends /\ sends' = sends + 1 /\ UNCHANGED <<pc, loop, err, txHash>>
    <3>1. TxKept /\ Submitted' = Submitted
      BY <2>1, UnchangedKept DEF IInv
    <3>2. unanswered' \subseteq Submitted' /\ Submitted' \subseteq unanswered'
      BY <1>1, <2>1, <3>1 DEF IInv, TypeOK, SubmissionInv, PendingInv
    <3>3. sends' \in 0..(Larger(MaxResends, MaxJitoSends) - 1)
      BY <2>2, LoopAssumption, SMT DEF IInv, TypeOK, Larger
    <3> QED
      BY <1>1, <2>1, <2>2, <3>1, <3>2, <3>3, ResendStep
  <2>3. CASE Answer("other", NoTx) /\ UNCHANGED sends
    BY <1>1, <2>1, <2>3, RefusedStep
  <2> QED
    BY <1>3, <2>2, <2>3 DEF JitoRateLimits
<1>4. CASE JitoFails
  BY <1>1, <1>4, RefusedStep DEF JitoFails
<1>5. CASE JitoUnanswered
  <2>1. LoseAnswer /\ Answer("other", NoTx) /\ UNCHANGED <<order, row, sends>>
    BY <1>5 DEF JitoUnanswered
  <2>2. TxKept /\ unanswered' \subseteq Submitted' /\ Submitted' \subseteq unanswered'
    BY <1>1, <2>1, LostAnswer
  <2>3. sends' \in 0..(Larger(MaxResends, MaxJitoSends) - 1)
    BY <2>1 DEF IInv, TypeOK
  <2> QED
    BY <1>1, <2>1, <2>2, <2>3, AnswerStep DEF Errors
<1> QED
  BY <1>2, <1>3, <1>4, <1>5

\* The row takes the result over: a success names its transaction, a failure
\* leaves nothing behind that was answered for.
LEMMA UpdateStep ==
  ASSUME IInv, UpdateDbByTxResult
  PROVE  IInv'
<1> USE DEF IInv, SubmissionInv, order, loop
<1>1. /\ pc = "update" /\ pc' = "done" /\ row' = RowOfResult
      /\ UNCHANGED <<order, loop, sends, err, txHash, tx, unanswered>>
  BY DEF UpdateDbByTxResult
<1>2. TxKept /\ Submitted' = Submitted
  BY <1>1, UnchangedKept
<1>3. try # 0 /\ row.status = "proc"
  BY <1>1 DEF LoopInv, RowInv
<1>4. /\ err = "none" => txHash \in Submitted /\ tx[txHash].slippage = slippage
      /\ err # "none" => Submitted \subseteq unanswered
  BY <1>1, <1>3 DEF ResultInv, AnsweredInv, Answered
<1>5. row' \in [status : {"proc", "onchain", "fail"}, hash : TxIds \cup {NoTx}, slippage : Nat]
  BY <1>1 DEF RowOfResult, TypeOK
<1>6. TypeOK'
  BY <1>1, <1>5 DEF TypeOK, Submitted
<1>7. FreshInv'
  BY <1>1 DEF FreshInv, Reached
<1>8. LoopInv' /\ CurrentInv' /\ PendingInv' /\ AnsweredInv' /\ ResultInv'
  BY <1>1, <1>2 DEF LoopInv, CurrentInv, PendingInv, AnsweredInv, Answered, ResultInv, Working,
                    Sending
<1>9. ToleranceInv'
  BY <1>1 DEF ToleranceInv
<1>10. SlippageIsConsented'
  BY <1>1, <1>2, ConsentKept
<1>11. RowInv' /\ RowIsTruthful'
  <2>1. CASE err = "none"
    <3>1. row' = [status |-> "onchain", hash |-> txHash, slippage |-> slippage]
      BY <1>1, <2>1 DEF RowOfResult
    <3> QED
      BY <3>1, <2>1, <1>1, <1>2, <1>4 DEF RowInv, RowIsTruthful
  <2>2. CASE err # "none"
    <3>1. row'.status = "fail"
      BY <1>1, <2>2 DEF RowOfResult, TypeOK
    <3> QED
      BY <3>1, <2>2, <1>1, <1>2, <1>4 DEF RowInv, RowIsTruthful
  <2> QED
    BY <2>1, <2>2
<1> QED
  BY <1>6, <1>7, <1>8, <1>9, <1>10, <1>11

\* What becomes of a transaction on the chain changes none of this.
LEMMA SettleStep ==
  ASSUME IInv, NEW t \in TxIds, Settle(t)
  PROVE  IInv'
<1> USE DEF IInv, SubmissionInv, order, loop
<1>1. UNCHANGED <<order, row, pc, loop, sends, err, txHash, unanswered>>
  BY DEF Settle
<1>2. PICK s \in {"landed", "reverted", "expired"} : tx' = [tx EXCEPT ![t].state = s]
  BY DEF Settle
<1>3. tx[t].state = "accepted"
  BY DEF Settle
<1> DEFINE settled == [tx[t] EXCEPT !.state = s]
<1>4. /\ settled \in [state : TxStates, slippage : Nat]
      /\ settled.state = s /\ settled.slippage = tx[t].slippage
  BY DEF TypeOK, TxStates
<1>5. tx' = [tx EXCEPT ![t] = settled]
  BY <1>2
<1> HIDE DEF settled
<1>6. /\ tx' \in [TxIds -> [state : TxStates, slippage : Nat]]
      /\ tx'[t] = settled
      /\ \A u \in TxIds : u # t => tx'[u] = tx[u]
  BY <1>4, <1>5 DEF TypeOK
<1>7. TxKept
  BY <1>3, <1>4, <1>6 DEF TxKept
<1>8. Submitted' = Submitted
  BY <1>3, <1>4, <1>6 DEF Submitted
<1>9. TypeOK'
  BY <1>1, <1>6, <1>8 DEF TypeOK
<1>10. FreshInv'
  BY <1>1, <1>7 DEF FreshInv, Reached, TxKept
<1>11. LoopInv' /\ CurrentInv'
  BY <1>1, <1>7 DEF LoopInv, CurrentInv, TxKept, Current, Working
<1>12. PendingInv' /\ AnsweredInv'
  BY <1>1, <1>8 DEF PendingInv, AnsweredInv, Answered
<1>13. \A h \in Submitted : tx'[h].slippage = tx[h].slippage
  BY <1>7 DEF TxKept, Submitted
<1>14. ResultInv'
  BY <1>1, <1>8, <1>13 DEF ResultInv
<1>15. ToleranceInv'
  BY <1>1 DEF ToleranceInv
<1>16. SlippageIsConsented'
  BY <1>1, <1>7, ConsentKept
<1>17. RowInv' /\ RowIsTruthful'
  BY <1>1, <1>8, <1>13 DEF RowInv, RowIsTruthful
<1> QED
  BY <1>9, <1>10, <1>11, <1>12, <1>14, <1>15, <1>16, <1>17

LEMMA StepInv == IInv /\ [Next]_vars => IInv'
<1> SUFFICES ASSUME IInv, [Next]_vars PROVE IInv'
  OBVIOUS
<1>1. CASE StartTry
  BY <1>1, StartTryStep
<1>2. CASE EndTries \/ Simulate \/ Crash \/ UpdateDbByTxResultFails
  BY <1>2, MoveStep
<1>3. CASE BuildAndSign
  BY <1>3, BuildStep
<1>4. CASE BuildFails
  BY <1>4, RefusedStep DEF BuildFails, Working
<1>5. ASSUME NEW e \in {"slippage", "other"}, SimulateFails(e)
      PROVE  IInv'
  BY <1>5, RefusedStep DEF SimulateFails, Working, Sending
<1>6. CASE SendAccepted \/ SendUnanswered \/ \E e \in {"slippage", "other"} : SendRefused(e)
  BY <1>6, SendStep
<1>7. CASE JitoAccepted \/ JitoRateLimits \/ JitoFails \/ JitoUnanswered
  BY <1>7, JitoStep
<1>8. CASE UpdateDbByTxResult
  BY <1>8, UpdateStep
<1>9. ASSUME NEW t \in TxIds, Settle(t)
      PROVE  IInv'
  BY <1>9, SettleStep
<1>10. CASE UNCHANGED vars
  BY <1>10 DEF vars, order, loop, IInv, SubmissionInv, TypeOK, FreshInv, Reached, LoopInv, Current,
               CurrentInv, PendingInv, AnsweredInv, Answered, Submitted, ResultInv, ToleranceInv,
               SlippageIsConsented, RowInv, RowIsTruthful
<1> QED
  BY <1>1, <1>2, <1>3, <1>4, <1>5, <1>6, <1>7, <1>8, <1>9, <1>10 DEF Next, Submission

-----------------------------------------------------------------------------
(* The theorems.                                                           *)

LEMMA InvariantHolds == Spec => []IInv
<1>1. Init => IInv
  BY InitInv
<1>2. IInv /\ [Next]_vars => IInv'
  BY StepInv
<1> QED
  BY <1>1, <1>2, PTL DEF Spec

\* All answers that arrived are for the transaction the server knows of.
LEMMA OneAnswer ==
  ASSUME AnsweredInv
  PROVE  SwapsAccountedFor
<1>1. Answered \subseteq {txHash}
  BY DEF AnsweredInv
<1>2. IsFiniteSet({txHash}) /\ Cardinality({txHash}) = 1
  BY FS_Singleton
<1>3. Cardinality(Answered) <= 1
  BY <1>1, <1>2, FS_Subset
<1> QED
  BY <1>3 DEF SwapsAccountedFor, AnsweredInv

\* The loops keep to their bounds and the row to its fields, and what is thought
\* to be unanswered was taken in.
THEOREM TypeCorrect == Spec => []TypeOK
  BY InvariantHolds, PTL DEF IInv

\* For any numbers of tries, attempts and sends: an order is swapped once for
\* each lost answer and at most once more, by the transaction the server
\* recorded the hash of.
THEOREM SwapsAccountedForHolds == Spec => []SwapsAccountedFor
<1>1. IInv => SwapsAccountedFor
  BY OneAnswer DEF IInv, SubmissionInv
<1> QED
  BY <1>1, InvariantHolds, PTL

\* The row of an order names a submitted transaction and the tolerance it was
\* signed with, or a failure of which every swap is unanswered.
THEOREM RowIsTruthfulHolds == Spec => []RowIsTruthful
  BY InvariantHolds, PTL DEF IInv

\* No transaction is signed with another tolerance than the user's, unless auto
\* slippage was chosen; then it is higher, and a tier no later than its try.
THEOREM SlippageIsConsentedHolds == Spec => []SlippageIsConsented
  BY InvariantHolds, PTL DEF IInv
=============================================================================
