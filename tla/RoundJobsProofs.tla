--------------------------- MODULE RoundJobsProofs ---------------------------
(***************************************************************************)
(* Theorems about RoundJobs: what a completion may rely on, however the    *)
(* jobs of its round are removed, added, stalled and tried again.          *)
(***************************************************************************)
EXTENDS RoundJobs, TLAPS

-----------------------------------------------------------------------------
(* The inductive invariant. *)

Shape ==
    /\ round \in [Rounds -> [status : {"none", "active", "completed"}, left : Int,
                             extended : BOOLEAN]]
    /\ processor \in [round : 0..TotalRounds, extended : BOOLEAN,
                      step : {"idle", "read", "complete", "kick"}]
    /\ processor.step # "idle" => processor.round \in Rounds

\* A round begins when the one before it has completed.
InOrder ==
    \A r \in Rounds : round[r].status # "none" =>
        \A q \in Rounds : q < r => round[q].status = "completed"

\* The transaction is about to run on a round that is active, as nobody else completes it,
\* and that has ended unless an extension came after the check.
Checked ==
    processor.step = "complete" =>
        LET r == processor.round
        IN  /\ round[r].status = "active"
            /\ processor.extended => round[r].extended
            /\ round[r].left <= Tolerance \/ (round[r].extended /\ ~processor.extended)

IInv == Shape /\ InOrder /\ Checked

LEMMA Numbers ==
  /\ TotalRounds \in Nat /\ TotalRounds # 0 /\ Duration \in Nat /\ Extension \in Nat
  /\ Tolerance \in Nat
  /\ \A r \in Rounds : r \in Nat /\ r >= 1
  BY JobsAssumption DEF Rounds

-----------------------------------------------------------------------------
(* The steps that change a round or the processor. *)

LEMMA TickKeeps ==
  ASSUME IInv, Tick
  PROVE  IInv'
  <1>1. /\ round' = [r \in Rounds |-> IF round[r].status = "active"
                                      THEN [round[r] EXCEPT !.left = Later(@)] ELSE round[r]]
        /\ processor' = processor /\ Shape
    BY DEF Tick, IInv
  <1>2. ASSUME NEW r \in Rounds
        PROVE  /\ round'[r] \in [status : {"none", "active", "completed"}, left : Int,
                                 extended : BOOLEAN]
               /\ round'[r].status = round[r].status /\ round'[r].extended = round[r].extended
               /\ round'[r].left <= round[r].left
    <2>1. /\ round[r] \in [status : {"none", "active", "completed"}, left : Int,
                           extended : BOOLEAN]
          /\ round[r].left \in Int
      BY <1>1, <1>2 DEF Shape
    <2>2. Later(round[r].left) \in Int /\ Later(round[r].left) <= round[r].left
      BY <2>1, Numbers DEF Later
    <2>3. CASE round[r].status = "active"
      <3> DEFINE left == Later(round[r].left)
      <3>1. left \in Int /\ left <= round[r].left
        BY <2>2
      <3>2. round'[r] = [round[r] EXCEPT !.left = left]
        BY <1>1, <1>2, <2>3
      <3> HIDE DEF left
      <3>3. QED
        BY <2>1, <3>1, <3>2
    <2>4. CASE round[r].status # "active"
      BY <1>1, <1>2, <2>1, <2>4
    <2>5. QED
      BY <2>3, <2>4
  <1>3. Shape'
    BY <1>1, <1>2 DEF Shape
  <1>4. InOrder'
    BY <1>2 DEF IInv, InOrder
  <1>5. Checked'
    <2> SUFFICES ASSUME processor.step = "complete"
                 PROVE  LET r == processor.round
                        IN  /\ round'[r].status = "active"
                            /\ processor.extended => round'[r].extended
                            /\ \/ round'[r].left <= Tolerance
                               \/ round'[r].extended /\ ~processor.extended
      BY <1>1 DEF Checked
    <2> DEFINE r == processor.round
    <2>1. r \in Rounds /\ round[r].left \in Int /\ round'[r].left \in Int /\ Tolerance \in Int
      BY <1>1, <1>2, Numbers DEF Shape
    <2>2. /\ round[r].status = "active" /\ (processor.extended => round[r].extended)
          /\ round[r].left <= Tolerance \/ (round[r].extended /\ ~processor.extended)
      BY DEF IInv, Checked
    <2>3. /\ round'[r].status = round[r].status /\ round'[r].extended = round[r].extended
          /\ round'[r].left <= round[r].left
      BY <1>2, <2>1
    <2>4. round[r].left <= Tolerance => round'[r].left <= Tolerance
      BY <2>1, <2>3
    <2>5. QED
      BY <2>2, <2>3, <2>4
  <1>6. QED
    BY <1>3, <1>4, <1>5 DEF IInv

LEMMA StartKeeps ==
  ASSUME IInv, Start
  PROVE  IInv'
  <1> DEFINE new == [status |-> "active", left |-> Duration, extended |-> FALSE]
  <1>1. /\ round[1].status = "none" /\ round' = [round EXCEPT ![1] = new]
        /\ processor' = processor /\ Shape /\ 1 \in Rounds
    BY Numbers DEF Start, IInv, Rounds
  <1>2. /\ new \in [status : {"none", "active", "completed"}, left : Int, extended : BOOLEAN]
        /\ new.status = "active"
    BY Numbers
  <1> HIDE DEF new
  <1>3. /\ round'[1] = new /\ \A r \in Rounds \ {1} : round'[r] = round[r]
        /\ round' \in [Rounds -> [status : {"none", "active", "completed"}, left : Int,
                                  extended : BOOLEAN]]
    BY <1>1, <1>2 DEF Shape
  <1>4. Shape'
    BY <1>1, <1>3 DEF Shape
  <1>5. \A r \in Rounds \ {1} : round[r].status = "none"
    BY <1>1, Numbers DEF IInv, InOrder
  <1>6. InOrder'
    BY <1>1, <1>3, <1>5, Numbers DEF InOrder
  <1>7. Checked'
    <2>1. processor.step = "complete" => processor.round \in Rounds \ {1}
      BY <1>1 DEF IInv, Checked, Shape
    <2>2. QED
      BY <1>1, <1>3, <2>1 DEF IInv, Checked
  <1>8. QED
    BY <1>4, <1>6, <1>7 DEF IInv

LEMMA ExtendKeeps ==
  ASSUME IInv, Extend, bid.round \in Rounds
  PROVE  IInv'
  <1> DEFINE r    == bid.round
             left == round[r].left + Extension
  <1>1. /\ round[r].status = "active" /\ ~round[r].extended
        /\ round' = [round EXCEPT ![r].left = left, ![r].extended = TRUE]
        /\ processor' = processor /\ Shape
    BY DEF Extend, IInv
  <1>2. left \in Int
    BY <1>1, Numbers DEF Shape
  <1> HIDE DEF left
  <1>3. /\ round'[r] \in [status : {"none", "active", "completed"}, left : Int, extended : BOOLEAN]
        /\ round'[r].status = "active" /\ round'[r].extended
        /\ \A q \in Rounds \ {r} : round'[q] = round[q]
        /\ round' \in [Rounds -> [status : {"none", "active", "completed"}, left : Int,
                                  extended : BOOLEAN]]
    BY <1>1, <1>2 DEF Shape
  <1>4. Shape'
    BY <1>1, <1>3 DEF Shape
  <1>5. InOrder'
    BY <1>1, <1>3 DEF IInv, InOrder
  <1>6. Checked'
    BY <1>1, <1>3 DEF IInv, Checked, Shape
  <1>7. QED
    BY <1>4, <1>5, <1>6 DEF IInv

LEMMA CompleteKeeps ==
  ASSUME IInv, Complete
  PROVE  IInv'
  <1> DEFINE r   == processor.round
             new == [status |-> "active", left |-> Duration, extended |-> FALSE]
  <1>1. /\ processor.step = "complete" /\ Shape /\ r \in Rounds
        /\ round' = [n \in Rounds |->
               IF n = r THEN [round[n] EXCEPT !.status = "completed", !.left = 0]
               ELSE IF n = r + 1 THEN new ELSE round[n]]
        /\ processor' = [processor EXCEPT !.step = "kick"]
    BY DEF Complete, IInv, Shape
  <1>2. /\ new \in [status : {"none", "active", "completed"}, left : Int, extended : BOOLEAN]
        /\ new.status = "active"
    BY Numbers
  <1> HIDE DEF new
  <1>3. round[r].status = "active"
    BY <1>1 DEF IInv, Checked
  <1>4. r \in Nat /\ r + 1 # r
    <2>1. r \in Nat
      BY <1>1, Numbers
    <2>2. QED
      BY <2>1
  <1>5. ASSUME NEW n \in Rounds
        PROVE  /\ round'[n] \in [status : {"none", "active", "completed"}, left : Int,
                                 extended : BOOLEAN]
               /\ n = r => round'[n].status = "completed"
               /\ n = r + 1 => round'[n].status = "active"
               /\ n # r /\ n # r + 1 => round'[n].status = round[n].status
    <2>1. round[n] \in [status : {"none", "active", "completed"}, left : Int, extended : BOOLEAN]
      BY <1>1, <1>5 DEF Shape
    <2>2. CASE n = r
      <3>1. PICK end \in Int : end = 0
        OBVIOUS
      <3>2. round'[n] = [round[n] EXCEPT !.status = "completed", !.left = end]
        BY <1>1, <1>5, <2>2, <3>1, Zenon
      <3>3. QED
        BY <1>4, <2>1, <2>2, <3>2
    <2>3. CASE n = r + 1
      BY <1>1, <1>2, <1>4, <1>5, <2>3
    <2>4. CASE n # r /\ n # r + 1
      BY <1>1, <1>5, <2>1, <2>4
    <2>5. QED
      BY <1>4, <2>2, <2>3, <2>4
  <1>6. Shape'
    <2>1. round' \in [Rounds -> [status : {"none", "active", "completed"}, left : Int,
                                 extended : BOOLEAN]]
      BY <1>1, <1>5
    <2>2. /\ processor' \in [round : 0..TotalRounds, extended : BOOLEAN,
                             step : {"idle", "read", "complete", "kick"}]
          /\ processor'.round = r /\ processor'.step = "kick"
      BY <1>1 DEF Shape
    <2>3. QED
      BY <1>1, <2>1, <2>2 DEF Shape
  <1>7. InOrder'
    <2> SUFFICES ASSUME NEW n \in Rounds, round'[n].status # "none", NEW q \in Rounds, q < n
                 PROVE  round'[q].status = "completed"
      BY DEF InOrder
    <2>1. n \in Nat /\ q \in Nat
      BY Numbers
    <2>2. \A p \in Rounds : p < r => round[p].status = "completed"
      BY <1>1, <1>3 DEF IInv, InOrder
    <2>3. \A p \in Rounds : p > r => round[p].status = "none"
      BY <1>1, <1>3 DEF IInv, InOrder
    <2>4. n <= r + 1
      BY <1>4, <1>5, <2>1, <2>3
    <2>5. q <= r
      BY <1>4, <2>1, <2>4
    <2>6. CASE q = r
      BY <1>5, <2>6
    <2>7. CASE q # r
      BY <1>4, <1>5, <2>1, <2>2, <2>5, <2>7
    <2>8. QED
      BY <2>6, <2>7
  <1>8. Checked'
    BY <1>1, <1>6 DEF Checked, Shape
  <1>9. QED
    BY <1>6, <1>7, <1>8 DEF IInv

LEMMA PassCheckKeeps ==
  ASSUME IInv, PassCheck
  PROVE  IInv'
  <1> DEFINE r == processor.round
  <1>1. /\ processor.step = "read" /\ round[r].status = "active" /\ ~TooEarly(r)
        /\ processor' = [processor EXCEPT !.step = "complete", !.extended = round[r].extended]
        /\ round' = round /\ Shape /\ r \in Rounds
    BY DEF PassCheck, IInv, Shape
  <1>2. round[r].extended \in BOOLEAN /\ round[r].left \in Int
    BY <1>1 DEF Shape
  <1>3. /\ processor' \in [round : 0..TotalRounds, extended : BOOLEAN,
                           step : {"idle", "read", "complete", "kick"}]
        /\ processor'.round = r /\ processor'.extended = round[r].extended
    BY <1>1, <1>2 DEF Shape
  <1>4. round[r].left <= Tolerance
    BY <1>1, <1>2, Numbers DEF TooEarly
  <1>5. Shape'
    BY <1>1, <1>3 DEF Shape
  <1>6. InOrder' /\ Checked'
    BY <1>1, <1>3, <1>4 DEF IInv, InOrder, Checked
  <1>7. QED
    BY <1>5, <1>6 DEF IInv

\* The processor takes a job, or lets it go; the rounds stay as they are.
LEMMA ProcessorKeeps ==
  ASSUME IInv, round' = round,
         \/ processor' = processor
         \/ processor' = Idle
         \/ \E r \in Rounds : processor' = [round |-> r, step |-> "read", extended |-> FALSE]
  PROVE  IInv'
  <1>1. /\ Idle \in [round : 0..TotalRounds, extended : BOOLEAN,
                     step : {"idle", "read", "complete", "kick"}]
        /\ Idle.step = "idle"
    BY Numbers DEF Idle
  <1>2. \A r \in Rounds : [round |-> r, step |-> "read", extended |-> FALSE]
            \in [round : 0..TotalRounds, extended : BOOLEAN,
                 step : {"idle", "read", "complete", "kick"}]
    BY DEF Rounds
  <1>3. Shape' /\ (processor' = processor \/ processor'.step # "complete")
    <2>1. CASE processor' = processor
      BY <2>1 DEF IInv, Shape
    <2>2. CASE processor' = Idle
      BY <1>1, <2>2 DEF IInv, Shape
    <2>3. ASSUME NEW r \in Rounds,
                 processor' = [round |-> r, step |-> "read", extended |-> FALSE]
          PROVE  Shape' /\ processor'.step # "complete"
      <3>1. processor'.round = r /\ processor'.step = "read"
        BY <2>3
      <3>2. QED
        BY <1>2, <2>3, <3>1 DEF IInv, Shape
    <2>4. QED
      BY <2>1, <2>2, <2>3
  <1>4. QED
    BY <1>3 DEF IInv, InOrder, Checked

-----------------------------------------------------------------------------
(* Invariance. *)

\* A late bid is the bid of a round.
BidOfRound == bid # NoBid => bid.round \in Rounds

LEMMA BidKept ==
  ASSUME BidOfRound, [Next]_vars
  PROVE  BidOfRound'
  <1>1. ASSUME NEW r \in Rounds, NEW p \in Processes, BidLate(r, p)
        PROVE  bid'.round \in Rounds
    BY <1>1 DEF BidLate
  <1>2. CASE Extend \/ BidEnds
    BY <1>2 DEF Extend, BidEnds, BidOfRound
  <1>3. CASE Crash
    BY <1>3 DEF Crash, BidOfRound
  <1>4. CASE bid' = bid
    BY <1>4 DEF BidOfRound
  <1>5. QED
    BY <1>1, <1>2, <1>3, <1>4
    DEF BidOfRound, Next, vars, Tick, Start, Handlers, Remove, Add, Take, Unstall, Claim,
        Processing, SkipEnded, RunEarly, PassCheck, Complete, Fail, Kick, Emit, Drained,
        Hurry, Restart

LEMMA InitInv == Init => IInv /\ BidOfRound
  <1> SUFFICES ASSUME Init PROVE IInv /\ BidOfRound
    OBVIOUS
  <1>1. /\ Idle \in [round : 0..TotalRounds, extended : BOOLEAN,
                     step : {"idle", "read", "complete", "kick"}]
        /\ Idle.step = "idle"
    BY Numbers DEF Idle
  <1>2. \A r \in Rounds : round[r].status = "none"
    BY DEF Init
  <1>3. Shape
    BY <1>1 DEF Init, Shape
  <1>4. InOrder /\ Checked /\ BidOfRound
    BY <1>1, <1>2 DEF Init, InOrder, Checked, BidOfRound
  <1>5. QED
    BY <1>3, <1>4 DEF IInv

LEMMA NextInv == IInv /\ BidOfRound /\ [Next]_vars => IInv'
  <1> SUFFICES ASSUME IInv, BidOfRound, [Next]_vars PROVE IInv'
    OBVIOUS
  <1>1. CASE Tick
    BY <1>1, TickKeeps
  <1>2. CASE Start
    BY <1>2, StartKeeps
  <1>3. CASE Handlers
    BY <1>3, ProcessorKeeps DEF Handlers, Remove, Add
  <1>4. CASE \E r \in Rounds : Take(r) \/ Unstall(r) \/ Claim(r)
    BY <1>4, ProcessorKeeps DEF Take, Unstall, Claim
  <1>5. CASE SkipEnded \/ RunEarly \/ Fail \/ Kick
    BY <1>5, ProcessorKeeps DEF SkipEnded, RunEarly, Fail, Kick, Returns
  <1>6. CASE PassCheck
    BY <1>6, PassCheckKeeps
  <1>7. CASE Complete
    BY <1>7, CompleteKeeps
  <1>8. CASE Extend
    <2>1. bid # NoBid
      BY <1>8 DEF Extend, NoBid
    <2>2. QED
      BY <1>8, <2>1, ExtendKeeps DEF BidOfRound
  <1>9. CASE Emit \/ Drained \/ BidEnds
    BY <1>9, ProcessorKeeps DEF Emit, Drained, BidEnds
  <1>10. CASE \E r \in Rounds : Hurry(r) \/ \E p \in Processes : BidLate(r, p)
    BY <1>10, ProcessorKeeps DEF Hurry, BidLate
  <1>11. CASE Crash \/ Restart
    BY <1>11, ProcessorKeeps DEF Crash, Restart
  <1>12. CASE UNCHANGED vars
    BY <1>12, ProcessorKeeps DEF vars
  <1>13. QED
    BY <1>1, <1>2, <1>3, <1>4, <1>5, <1>6, <1>7, <1>8, <1>9, <1>10, <1>11, <1>12
    DEF Next, Processing

\* The inductive invariant: rounds follow one another, and the transaction of a completion
\* runs on a round that was checked and is still active.
THEOREM Invariance == Spec => [](IInv /\ BidOfRound)
  BY InitInv, NextInv, BidKept, PTL DEF Spec

-----------------------------------------------------------------------------
(* What a step does to the rounds. *)

\* Only the transaction completes a round, the one of the processor.
LEMMA OnlyComplete ==
  ASSUME IInv, BidOfRound, [Next]_vars, NEW r \in Rounds, Completes(r)
  PROVE  Complete /\ processor.round = r
  <1>1. CASE Complete
    <2>1. /\ processor.round \in Rounds
          /\ round' = [n \in Rounds |->
                IF n = processor.round THEN [round[n] EXCEPT !.status = "completed", !.left = 0]
                ELSE IF n = processor.round + 1
                     THEN [status |-> "active", left |-> Duration, extended |-> FALSE]
                ELSE round[n]]
      BY <1>1 DEF Complete, IInv, Shape
    <2>2. QED
      BY <1>1, <2>1 DEF Completes
  <1>2. CASE Tick
    BY <1>2 DEF Tick, Completes, IInv, Shape
  <1>3. CASE Start
    BY <1>3 DEF Start, Completes, IInv, Shape
  <1>4. CASE Extend
    BY <1>4 DEF Extend, Completes, IInv, Shape
  <1>5. CASE round' = round
    BY <1>5 DEF Completes
  <1>6. QED
    BY <1>1, <1>2, <1>3, <1>4, <1>5
    DEF Next, vars, Handlers, Remove, Add, Take, Unstall, Claim, Processing, SkipEnded, RunEarly,
        PassCheck, Fail, Kick, Emit, Drained, Hurry, BidLate, BidEnds, Crash, Restart

\* A round that completes before its effective end was extended after the processor looked,
\* however its jobs were removed, added, stalled and tried again, for every number of rounds,
\* restarts and failures (rounds.processor.ts, RoundCompletionOrchestratorService).
THEOREM EarlyIsRaced == Spec => EarlyOnlyIfRaced
  <1>1. ASSUME IInv, BidOfRound, [Next]_vars, NEW r \in Rounds, Completes(r)
        PROVE  round[r].left <= Tolerance \/ (round[r].extended /\ ~processor.extended)
    <2>1. processor.step = "complete" /\ processor.round = r
      BY <1>1, OnlyComplete DEF Complete
    <2>2. QED
      BY <1>1, <2>1 DEF IInv, Checked
  <1>2. IInv /\ BidOfRound /\ [Next]_vars =>
            [\A r \in Rounds : Completes(r) =>
                \/ round[r].left <= Tolerance
                \/ round[r].extended /\ ~processor.extended]_vars
    BY <1>1
  <1>3. QED
    BY <1>2, Invariance, PTL DEF Spec, EarlyOnlyIfRaced

\* A round that has completed is not opened or completed again, whatever job of it is still
\* queued, stalled or tried again: completing it twice would open its successor twice.
NeverReopened ==
    [][\A r \in Rounds : round[r].status = "completed" =>
        round'[r].status = "completed" /\ ~(Complete /\ processor.round = r)]_vars

\* Jobs repeat, completions do not (rounds.processor.ts reads the status of the round before
\* it opens the transaction).
THEOREM CompletedOnce == Spec => NeverReopened
  <1>1. ASSUME IInv, BidOfRound, [Next]_vars, NEW r \in Rounds, round[r].status = "completed"
        PROVE  round'[r].status = "completed" /\ ~(Complete /\ processor.round = r)
    <2>1. CASE Complete
      <3> DEFINE q == processor.round
      <3>1. /\ q \in Rounds /\ round[q].status = "active"
            /\ round' = [n \in Rounds |->
                  IF n = q THEN [round[n] EXCEPT !.status = "completed", !.left = 0]
                  ELSE IF n = q + 1
                       THEN [status |-> "active", left |-> Duration, extended |-> FALSE]
                  ELSE round[n]]
        BY <1>1, <2>1 DEF Complete, IInv, Shape, Checked
      <3>2. q \in Nat /\ r \in Nat
        BY <1>1, <3>1, Numbers
      <3>3. r # q
        BY <1>1, <3>1
      <3>4. r # q + 1
        <4>1. r = q + 1 => q < r
          BY <3>2
        <4>2. r # q + 1 \/ round[q].status = "completed"
          BY <1>1, <3>1, <4>1 DEF IInv, InOrder
        <4>3. QED
          BY <3>1, <4>2
      <3>5. QED
        BY <1>1, <3>1, <3>3, <3>4
    <2>2. CASE Tick
      BY <1>1, <2>2 DEF Tick, IInv, Shape, Complete
    <2>3. CASE Start
      BY <1>1, <2>3 DEF Start, IInv, Shape, Complete
    <2>4. CASE Extend
      BY <1>1, <2>4 DEF Extend, IInv, Shape, Complete
    <2>5. CASE round' = round
      <3>1. Complete => round[processor.round].status = "active"
        BY <1>1 DEF Complete, IInv, Checked
      <3>2. QED
        BY <1>1, <2>5, <3>1
    <2>6. QED
      BY <1>1, <2>1, <2>2, <2>3, <2>4, <2>5
      DEF Next, vars, Handlers, Remove, Add, Take, Unstall, Claim, Processing, SkipEnded,
          RunEarly, PassCheck, Fail, Kick, Emit, Drained, Hurry, BidLate, BidEnds, Crash, Restart
  <1>2. IInv /\ BidOfRound /\ [Next]_vars =>
            [\A r \in Rounds : round[r].status = "completed" =>
                round'[r].status = "completed" /\ ~(Complete /\ processor.round = r)]_vars
    BY <1>1
  <1>3. QED
    BY <1>2, Invariance, PTL DEF Spec, NeverReopened

=============================================================================
