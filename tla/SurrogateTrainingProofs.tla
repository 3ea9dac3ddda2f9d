----------------------- MODULE SurrogateTrainingProofs -----------------------
(* The training of the surrogate for any losses, any number of epochs, any    *)
(* patience and any number of starts of the script: early stopping keeps the  *)
(* best weights, and what is written is what was kept.                        *)
EXTENDS SurrogateTraining, TLAPS

(* What makes Delivered inductive: where the weights and the statistics come  *)
(* from at each statement, and which start wrote the files.                   *)
Bookkeeping ==
    /\ stage \in {"epoch", "restore"} => net = epochs_run
    /\ stage \notin {"generate_train", "train", "stopped"} => scaled = TrainSeed
    /\ model_file.run <= run
    /\ stage \notin {"write_model", "save_report", "write_report", "finished", "stopped"} =>
          model_file.run < run
    /\ stage \notin {"write_report", "finished", "stopped"} => report_file.run < run

IInv == TypeOK /\ EarlyStopping /\ Delivered /\ Bookkeeping
-----------------------------------------------------------------------------
(* What a loss is compared with. *)
LEMMA Comparison ==
    ASSUME NEW loss \in Losses \cup {NaN}, best_val \in Losses \cup {None}
    PROVE  /\ Improves(loss) => loss \in Losses
           /\ Improves(loss) /\ best_val # None => loss < best_val
           /\ ~Improves(loss) /\ loss # NaN => best_val # None /\ best_val <= loss
BY LossesAssumption DEF Improves

LEMMA Appending ==
    ASSUME NEW S, NEW s \in Seq(S), NEW x \in S
    PROVE  /\ Append(s, x) \in Seq(S)
           /\ Len(Append(s, x)) = Len(s) + 1 /\ Len(s) \in Nat
           /\ \A i \in 1..Len(s) : Append(s, x)[i] = s[i]
           /\ Append(s, x)[Len(s) + 1] = x
OBVIOUS

LEMMA TypeInit == Init => TypeOK
<1> SUFFICES ASSUME Init PROVE TypeOK
  OBVIOUS
<1>1. losses \in Seq(Losses \cup {NaN}) /\ Len(losses) = 0
  BY DEF Init
<1> QED
  BY <1>1, EpochsAssumption, RunsAssumption
     DEF Init, TypeOK, Files, NoFile, File, Stages, Saving, epochs_run

LEMMA TypeStep == IInv /\ [Next]_vars => TypeOK'
<1> SUFFICES ASSUME TypeOK, EarlyStopping, Delivered, [Next]_vars PROVE TypeOK'
  BY DEF IInv
<1> USE EpochsAssumption, RunsAssumption DEF epochs_run
<1>1. ASSUME Epoch PROVE TypeOK'
  <2> PICK loss \in LossesOf(samples) : EpochWith(loss)
    BY <1>1 DEF Epoch
  <2>0. loss \in Losses \cup {NaN}
    BY DEF LossesOf
  <2>a. losses \in Seq(Losses \cup {NaN}) /\ losses' = Append(losses, loss)
    BY DEF EpochWith, TypeOK
  <2>b. Len(losses) < Epochs
    BY <1>1 DEF Epoch
  <2>1. /\ losses' \in Seq(Losses \cup {NaN}) /\ Len(losses') = Len(losses) + 1
        /\ Len(losses) < Epochs /\ Len(losses) \in Nat
    BY <2>0, <2>a, <2>b, Appending
  <2>2. patience_left \in 1..Patience /\ stage = "epoch"
    BY <1>1 DEF Epoch, EarlyStopping, PatienceCounts, TypeOK
  <2>3. /\ best_val' \in Losses \cup {None} /\ best_state' \in (1..Epochs) \cup {None}
        /\ patience_left' \in 0..Patience /\ stage' \in Stages /\ net' \in 0..Epochs
    BY <2>0, <2>1, <2>2, Comparison DEF EpochWith, TypeOK, Stages, Saving
  <2> QED
    BY <1>1, <2>1, <2>3 DEF Epoch, TypeOK, fileVars
<1>2. ASSUME BeginTraining \/ StartAgain PROVE TypeOK'
  <2>0. losses' = << >>
    BY <1>2 DEF BeginTraining, StartAgain
  <2>1. losses' \in Seq(Losses \cup {NaN}) /\ Len(losses') = 0
    BY <2>0
  <2> QED
    BY <1>2, <2>1 DEF BeginTraining, StartAgain, Continue, TypeOK, Stages, Saving, fileVars
<1>3. ASSUME Restore PROVE TypeOK'
  BY <1>3 DEF Restore, Continue, TypeOK, Stages, Saving, fileVars
<1>4. ASSUME Validate \/ OpenModel \/ WriteModel \/ OpenReport \/ WriteReport
      PROVE  TypeOK'
  <2>1. File(run, net, scaled) \in Files /\ Torn(run) \in Files
    BY DEF File, Torn, Files, TypeOK
  <2>2. ASSUME WriteReport PROVE report \in Files
    BY <2>2 DEF WriteReport, Continue, TypeOK, Delivered, DeliveredIsBest, File, Files, Saving
  <2> QED
    BY <1>4, <2>1, <2>2 DEF Validate, OpenModel, WriteModel, OpenReport, WriteReport,
       Continue, TypeOK, Stages, Saving, loopVars, fileVars
<1>5. ASSUME GenerateTrain \/ LoopEnds \/ GenerateTest \/ Stop PROVE TypeOK'
  BY <1>5 DEF GenerateTrain, LoopEnds, GenerateTest, Stop, Continue, TypeOK, Stages,
     Saving, loopVars, fileVars
<1>6. ASSUME UNCHANGED vars PROVE TypeOK'
  BY <1>6 DEF vars, TypeOK, loopVars, fileVars
<1> QED
  BY <1>1, <1>2, <1>3, <1>4, <1>5, <1>6 DEF Next, Script
-----------------------------------------------------------------------------
LEMMA StoppingInit == Init => EarlyStopping
BY EpochsAssumption DEF Init, EarlyStopping, BestIsKept, PatienceCounts, LastBest, Saving, epochs_run

\* Only an epoch and a fresh start touch the losses, the best and the patience.
LEMMA StoppingStep == IInv /\ [Next]_vars => EarlyStopping'
<1> SUFFICES ASSUME TypeOK, EarlyStopping, [Next]_vars PROVE EarlyStopping'
  BY DEF IInv
<1> USE EpochsAssumption DEF epochs_run
<1>1. ASSUME Epoch PROVE EarlyStopping'
  <2> PICK loss \in LossesOf(samples) : EpochWith(loss)
    BY <1>1 DEF Epoch
  <2> DEFINE n == Len(losses)
  <2>0. loss \in Losses \cup {NaN}
    BY DEF LossesOf
  <2>1. losses \in Seq(Losses \cup {NaN}) /\ losses' = Append(losses, loss)
    BY DEF EpochWith, TypeOK
  <2>2. /\ n \in Nat /\ Len(losses') = n + 1 /\ losses'[n + 1] = loss
        /\ \A e \in 1..n : losses'[e] = losses[e] /\ losses[e] \in Losses \cup {NaN}
    BY <2>0, <2>1, Appending
  <2>3. /\ stage = "epoch" /\ n < Epochs
        /\ best_val \in Losses \cup {None} /\ best_state \in (1..Epochs) \cup {None}
    BY <1>1 DEF Epoch, TypeOK
  <2>4. /\ best_state = None <=> best_val = None
        /\ best_val = None => \A e \in 1..n : losses[e] = NaN
        /\ best_val # None => /\ best_state \in 1..n
                              /\ losses[best_state] = best_val
                              /\ \A e \in 1..n : losses[e] # NaN =>
                                    /\ best_val <= losses[e]
                                    /\ e < best_state => best_val < losses[e]
    BY DEF EarlyStopping, BestIsKept
  <2>5. /\ patience_left = Patience - (n - LastBest)
        /\ patience_left \in 1..Patience
    BY <2>3 DEF EarlyStopping, PatienceCounts, TypeOK
  <2>6. CASE Improves(loss)
    <3>1. /\ best_val' = loss /\ best_state' = n + 1 /\ patience_left' = Patience
          /\ stage' = "epoch"
      BY <2>3, <2>6 DEF EpochWith
    <3>2. loss \in Losses /\ (best_val # None => loss < best_val)
      BY <2>0, <2>3, <2>6, Comparison
    <3>3. loss \in Int /\ loss # None /\ loss # NaN /\ n + 1 # None
      BY <2>2, <3>2, LossesAssumption
    <3>4. ASSUME NEW e \in 1..n, losses[e] # NaN PROVE loss < losses[e]
      <4>1. losses[e] \in Int /\ best_val # None
        BY <2>2, <2>4, <3>4, LossesAssumption
      <4>2. best_val \in Int /\ loss < best_val /\ best_val <= losses[e]
        BY <2>3, <2>4, <3>2, <3>4, <4>1, LossesAssumption
      <4> QED
        BY <3>3, <4>1, <4>2
    <3>5. ASSUME NEW e \in 1..Len(losses'), losses'[e] # NaN
          PROVE  loss <= losses'[e] /\ (e < n + 1 => loss < losses'[e])
      <4>1. CASE e = n + 1
        BY <2>2, <3>3, <4>1
      <4>2. CASE e \in 1..n
        <5>1. losses'[e] = losses[e] /\ losses[e] \in Losses \cup {NaN}
          BY <2>2, <4>2
        <5>2. losses[e] # NaN /\ losses[e] \in Int
          BY <3>5, <5>1, LossesAssumption
        <5>3. loss < losses[e]
          BY <3>4, <4>2, <5>2
        <5> QED
          BY <3>3, <5>1, <5>2, <5>3
      <4> QED
        BY <2>2, <3>5, <4>1, <4>2
    <3>7. BestIsKept'
      BY <2>2, <3>1, <3>3, <3>5 DEF BestIsKept
    <3>6. PatienceCounts'
      BY <2>2, <3>1, <3>3 DEF PatienceCounts, LastBest, Saving
    <3> QED
      BY <3>6, <3>7 DEF EarlyStopping
  <2>7. CASE ~Improves(loss)
    <3>1. /\ best_val' = best_val /\ best_state' = best_state
          /\ patience_left' = patience_left - 1
          /\ stage' = IF patience_left - 1 <= 0 THEN "restore" ELSE "epoch"
      BY <2>3, <2>7 DEF EpochWith
    <3>2. loss # NaN => best_val # None /\ best_val <= loss
      BY <2>0, <2>3, <2>7, Comparison
    <3>3. BestIsKept'
      BY <2>2, <2>4, <3>1, <3>2 DEF BestIsKept
    <3>4. PatienceCounts'
      <4>1. LastBest' = LastBest /\ LastBest \in 0..n
        BY <2>2, <2>4, <3>1 DEF LastBest
      <4> QED
        BY <2>2, <2>5, <3>1, <4>1 DEF PatienceCounts, Saving
    <3> QED
      BY <3>3, <3>4 DEF EarlyStopping
  <2> QED
    BY <2>6, <2>7
<1>2. ASSUME BeginTraining \/ StartAgain PROVE EarlyStopping'
  <2>1. /\ losses' = << >> /\ best_val' = None /\ best_state' = None
        /\ patience_left' = Patience /\ stage' \in {"epoch", "generate_train"}
    BY <1>2 DEF BeginTraining, StartAgain, Continue
  <2> QED
    BY <2>1 DEF EarlyStopping, BestIsKept, PatienceCounts, LastBest, Saving
<1>3. ASSUME UNCHANGED <<losses, best_val, best_state, patience_left>>,
             \/ stage' = stage
             \/ stage' \in {"train", "stopped"}
             \/ stage \notin {"epoch", "generate_train", "train", "stopped"}
                /\ stage' \notin {"epoch"}
             \/ stage = "epoch" /\ epochs_run = Epochs /\ stage' = "restore"
      PROVE  EarlyStopping'
  <2>1. stage \in Stages
    BY DEF TypeOK
  <2>2. BestIsKept'
    BY <1>3 DEF EarlyStopping, BestIsKept
  <2>3. PatienceCounts'
    BY <1>3, <2>1 DEF EarlyStopping, PatienceCounts, LastBest, Stages, Saving
  <2> QED
    BY <2>2, <2>3 DEF EarlyStopping
<1>4. ASSUME GenerateTrain \/ LoopEnds \/ Restore \/ GenerateTest \/ Validate \/ OpenModel
             \/ WriteModel \/ OpenReport \/ WriteReport \/ Stop \/ UNCHANGED vars
      PROVE  EarlyStopping'
  BY <1>3, <1>4 DEF GenerateTrain, LoopEnds, Restore, GenerateTest, Validate, OpenModel,
     WriteModel, OpenReport, WriteReport, Stop, Continue, vars, loopVars
<1> QED
  BY <1>1, <1>2, <1>4 DEF Next, Script
-----------------------------------------------------------------------------
LEMMA FilesInit == Init => Delivered /\ Bookkeeping
BY DEF Init, Delivered, DeliveredIsBest, ReportNeverAhead, Bookkeeping, NoFile, File,
       Saving, epochs_run

\* Weights and statistics are followed from the loop to the files.
LEMMA FilesStep == IInv /\ [Next]_vars => Delivered' /\ Bookkeeping'
<1> SUFFICES ASSUME IInv, [Next]_vars PROVE Delivered' /\ Bookkeeping'
  OBVIOUS
<1> USE DEF Delivered, DeliveredIsBest, ReportNeverAhead, Bookkeeping, Saving, epochs_run
<1>0. /\ run \in 1..MaxRuns /\ stage \in Stages
      /\ model_file.run \in Int /\ report_file.run \in Int
      /\ Delivered /\ Bookkeeping
  BY RunsAssumption DEF IInv, TypeOK, Files
<1>1. ASSUME Epoch PROVE Delivered' /\ Bookkeeping'
  <2> PICK loss \in LossesOf(samples) : EpochWith(loss)
    BY <1>1 DEF Epoch
  <2>1. loss \in Losses \cup {NaN} /\ losses \in Seq(Losses \cup {NaN})
    BY DEF LossesOf, IInv, TypeOK
  <2>2. net' = Len(losses) + 1 /\ Len(losses') = Len(losses) + 1
    BY <2>1, Appending DEF EpochWith
  <2>3. /\ stage = "epoch" /\ stage' \in {"epoch", "restore"}
        /\ UNCHANGED <<run, scaled, report, model_file, report_file>>
    BY <1>1 DEF Epoch, EpochWith, fileVars
  <2> QED
    BY <1>0, <2>2, <2>3
<1>2. ASSUME BeginTraining PROVE Delivered' /\ Bookkeeping'
  BY <1>0, <1>2 DEF BeginTraining, Continue, fileVars
<1>3. ASSUME StartAgain PROVE Delivered' /\ Bookkeeping'
  BY <1>0, <1>3 DEF StartAgain, fileVars
<1>4. ASSUME Restore PROVE Delivered' /\ Bookkeeping'
  BY <1>0, <1>4 DEF Restore, Continue, Chosen, fileVars
<1>5. ASSUME Validate PROVE Delivered' /\ Bookkeeping'
  BY <1>0, <1>5 DEF Validate, Continue, Chosen, loopVars, fileVars
<1>6. ASSUME OpenModel PROVE Delivered' /\ Bookkeeping'
  BY <1>0, <1>6 DEF OpenModel, Continue, Chosen, loopVars, Torn
<1>7. ASSUME WriteModel PROVE Delivered' /\ Bookkeeping'
  BY <1>0, <1>7 DEF WriteModel, Continue, Chosen, loopVars, File
<1>10. ASSUME OpenReport PROVE Delivered' /\ Bookkeeping'
  BY <1>0, <1>10 DEF OpenReport, Continue, Chosen, loopVars, File, Torn
<1>11. ASSUME WriteReport PROVE Delivered' /\ Bookkeeping'
  <2>1. /\ stage = "write_report" /\ stage' = "finished"
        /\ report_file' = report /\ Chosen' = Chosen
        /\ UNCHANGED <<run, net, scaled, losses, report, model_file>>
    BY <1>11 DEF WriteReport, Continue, Chosen, loopVars
  <2>2. /\ report = File(run, net, TrainSeed) /\ model_file = File(run, net, TrainSeed)
        /\ net = Chosen
    BY <1>0, <2>1
  <2>3. DeliveredIsBest' /\ Bookkeeping'
    BY <1>0, <2>1, <2>2 DEF File
  <2>4. ReportNeverAhead'
    BY <1>0, <2>1, <2>2 DEF File
  <2> QED
    BY <2>3, <2>4
<1>8. ASSUME GenerateTrain \/ LoopEnds \/ GenerateTest \/ Stop PROVE Delivered' /\ Bookkeeping'
  BY <1>0, <1>8 DEF GenerateTrain, LoopEnds, GenerateTest, Stop, Continue, Chosen,
     loopVars, fileVars
<1>9. ASSUME UNCHANGED vars PROVE Delivered' /\ Bookkeeping'
  BY <1>0, <1>9 DEF vars, loopVars, fileVars, Chosen
<1> QED
  BY <1>1, <1>2, <1>3, <1>4, <1>5, <1>6, <1>7, <1>8, <1>9, <1>10, <1>11
  DEF Next, Script
-----------------------------------------------------------------------------
(* The inductive invariant of the training script.                            *)
THEOREM Invariance == Spec => []IInv
<1>1. Init => IInv
  BY TypeInit, StoppingInit, FilesInit DEF IInv
<1>2. IInv /\ [Next]_vars => IInv'
  BY TypeStep, StoppingStep, FilesStep DEF IInv
<1> QED
  BY <1>1, <1>2, PTL DEF Spec

(* Every variable keeps its type: in particular patience never runs below     *)
(* zero and no more than Epochs epochs are run.                               *)
THEOREM TypeCorrect == Spec => []TypeOK
BY Invariance, PTL DEF IInv

(* Early stopping keeps the first of the smallest losses, passing over those  *)
(* that are not finite, and stops after exactly Patience epochs without a     *)
(* better one (SurrogateModel.train).                                         *)
THEOREM StopsAtTheBest == Spec => []EarlyStopping
BY Invariance, PTL DEF IInv

(* The model that is written in full is the best of its training, and a       *)
(* report that is written in full is of that model, or of an older run when   *)
(* the script was stopped before its own report: whether it is stopped        *)
(* between the two files or inside one of the writes.                         *)
THEOREM DeliversTheBest == Spec => []Delivered
BY Invariance, PTL DEF IInv
=============================================================================
