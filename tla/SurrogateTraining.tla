-------------------------- MODULE SurrogateTraining --------------------------
(* scripts/train_surrogate.py and what it runs: the training set is generated *)
(* by the physics engine, the network is trained with early stopping, a test  *)
(* set is generated from another seed, the network is validated on it, and    *)
(* the model file and the report are written.  The script may be stopped      *)
(* anywhere, inside a write too, and be run again over the files of the run   *)
(* before.  A write is two steps: opening the file cuts off what was in it,   *)
(* and the file is torn until the new content is there.                       *)
(*                                                                            *)
(* The network is known by the epoch its weights come from.  A validation     *)
(* loss is any of Losses: which one an epoch reaches is not the code's doing. *)
EXTENDS Integers, Sequences

CONSTANTS
    Losses,         \* the finite losses an epoch may reach, numbers
    NaN,            \* a loss that is not finite: it improves on nothing
    Epochs,         \* TrainConfig.epochs
    Patience,       \* TrainConfig.patience
    SampleSizes,    \* SurrogateConfig.n_samples of the training set
    TrainSeed,      \* the seed of the training set
    MaxRuns,        \* bound: how often the script is started
    None

ASSUME LossesAssumption == Losses \subseteq Int /\ NaN \notin Losses /\ None \notin Int
ASSUME EpochsAssumption == Epochs \in Nat \ {0} /\ Patience \in Nat \ {0}
ASSUME SizesAssumption  == SampleSizes \subseteq Nat \ {0}
ASSUME RunsAssumption   == MaxRuns \in Nat \ {0}

VARIABLES
    stage,          \* the statement of main() that comes next
    run,            \* how often the script was started
    samples,        \* size of the training set
    net,            \* the epoch the weights of the network come from
    scaled,         \* seed of the data the normalisation was fitted to
    losses,         \* validation losses so far, one per epoch
    best_val,       \* None: infinity
    best_state,     \* the epoch whose weights were copied, or None
    patience_left,
    report,         \* what validate returned, or None
    model_file, report_file     \* NoFile until written

loopVars  == <<net, losses, best_val, best_state, patience_left>>
fileVars  == <<model_file, report_file>>
vars == <<stage, run, samples, scaled, report, loopVars, fileVars>>

epochs_run == Len(losses)

(* A file tells which start of the script wrote it, for which weights, and   *)
(* with the statistics of which data; or which start was writing it when it  *)
(* was torn: empty or half written, it cannot be loaded.                     *)
File(r, n, s) == [run |-> r, net |-> n, scaled |-> s, whole |-> TRUE]
Torn(r) == [run |-> r, net |-> 0, scaled |-> None, whole |-> FALSE]
NoFile == File(0, 0, None)

(* The split of the samples; at least one of them validates. *)
Tenth(n) == n \div 10
ValidationSize(n) == IF Tenth(n) = 0 THEN 1 ELSE Tenth(n)
TrainingSize(n)   == n - ValidationSize(n)

(* Without a training sample the statistics of the normalisation are NaN,    *)
(* and so is every loss.                                                     *)
LossesOf(n) == IF TrainingSize(n) = 0 THEN {NaN} ELSE Losses \cup {NaN}

Init ==
    /\ stage = "generate_train"
    /\ run = 1
    /\ samples \in SampleSizes
    /\ net = 0
    /\ scaled = None
    /\ losses = << >>
    /\ best_val = None
    /\ best_state = None
    /\ patience_left = Patience
    /\ report = None
    /\ model_file = NoFile
    /\ report_file = NoFile

Continue(from, to) == stage = from /\ stage' = to

GenerateTrain ==
    /\ Continue("generate_train", "train")
    /\ UNCHANGED <<run, samples, scaled, report, loopVars, fileVars>>

(* The split, the statistics of the training part, and a fresh network.      *)
BeginTraining ==
    /\ Continue("train", "epoch")
    /\ scaled' = TrainSeed
    /\ net' = 0
    /\ losses' = << >>
    /\ best_val' = None
    /\ best_state' = None
    /\ patience_left' = Patience
    /\ UNCHANGED <<run, samples, report, fileVars>>

(* "<" is false for NaN, and true against infinity for any number. *)
Improves(loss) ==
    IF loss = NaN THEN FALSE ELSE IF best_val = None THEN TRUE ELSE loss < best_val

(* Faulty variant: patience is counted over the whole training. *)
EpochWith_KeepsPatience(loss) ==
    /\ net' = epochs_run + 1
    /\ losses' = Append(losses, loss)
    /\ IF Improves(loss)
       THEN /\ best_val' = loss
            /\ best_state' = epochs_run + 1
            /\ UNCHANGED <<stage, patience_left>>
       ELSE /\ patience_left' = patience_left - 1
            /\ stage' = IF patience_left' <= 0 THEN "restore" ELSE stage
            /\ UNCHANGED <<best_val, best_state>>

(* One round of the epoch loop: every weight is updated, then the loss on    *)
(* the validation part decides.                                              *)
EpochWith(loss) ==
    /\ net' = epochs_run + 1
    /\ losses' = Append(losses, loss)
    /\ IF Improves(loss)
       THEN /\ best_val' = loss
            /\ best_state' = epochs_run + 1
            /\ patience_left' = Patience
            /\ UNCHANGED stage
       ELSE /\ patience_left' = patience_left - 1
            /\ stage' = IF patience_left' <= 0 THEN "restore" ELSE stage
            /\ UNCHANGED <<best_val, best_state>>

Epoch ==
    /\ stage = "epoch"
    /\ epochs_run < Epochs
    /\ \E loss \in LossesOf(samples) : EpochWith(loss)
    /\ UNCHANGED <<run, samples, scaled, report, fileVars>>

LoopEnds ==
    /\ Continue("epoch", "restore")
    /\ epochs_run = Epochs
    /\ UNCHANGED <<run, samples, scaled, report, loopVars, fileVars>>

(* Faulty variant: the last weights stay in the network. *)
Restore_NotAtAll ==
    /\ Continue("restore", "generate_test")
    /\ UNCHANGED <<run, samples, scaled, report, loopVars, fileVars>>

Restore ==
    /\ Continue("restore", "generate_test")
    /\ net' = IF best_state # None THEN best_state ELSE net
    /\ UNCHANGED <<run, samples, scaled, report, losses, best_val, best_state,
                   patience_left, fileVars>>

GenerateTest ==
    /\ Continue("generate_test", "validate")
    /\ UNCHANGED <<run, samples, scaled, report, loopVars, fileVars>>

(* predict normalises with the statistics of the training data; the errors   *)
(* are measured against the engine's own output.                             *)
Validate ==
    /\ Continue("validate", "save_model")
    /\ report' = File(run, net, scaled)
    /\ UNCHANGED <<run, samples, scaled, loopVars, fileVars>>

(* torch.save opens the model file, and writes it. *)
OpenModel ==
    /\ Continue("save_model", "write_model")
    /\ model_file' = Torn(run)
    /\ UNCHANGED <<run, samples, scaled, report, loopVars, report_file>>

WriteModel ==
    /\ Continue("write_model", "save_report")
    /\ model_file' = File(run, net, scaled)
    /\ UNCHANGED <<run, samples, scaled, report, loopVars, report_file>>

(* write_text opens the report, and writes it. *)
OpenReport ==
    /\ Continue("save_report", "write_report")
    /\ report_file' = Torn(run)
    /\ UNCHANGED <<run, samples, scaled, report, loopVars, model_file>>

WriteReport ==
    /\ Continue("write_report", "finished")
    /\ report_file' = report
    /\ UNCHANGED <<run, samples, scaled, report, loopVars, model_file>>

(* The process is stopped; only the files stay. *)
Stop ==
    /\ stage \notin {"finished", "stopped"}
    /\ stage' = "stopped"
    /\ UNCHANGED <<run, samples, scaled, report, loopVars, fileVars>>

StartAgain ==
    /\ stage \in {"finished", "stopped"}
    /\ run < MaxRuns
    /\ run' = run + 1
    /\ stage' = "generate_train"
    /\ samples' \in SampleSizes
    /\ net' = 0
    /\ scaled' = None
    /\ losses' = << >>
    /\ best_val' = None
    /\ best_state' = None
    /\ patience_left' = Patience
    /\ report' = None
    /\ UNCHANGED fileVars

Script == GenerateTrain \/ BeginTraining \/ Epoch \/ LoopEnds \/ Restore
          \/ GenerateTest \/ Validate
          \/ OpenModel \/ WriteModel \/ OpenReport \/ WriteReport

Next == Script \/ Stop \/ StartAgain

Spec == Init /\ [][Next]_vars
-----------------------------------------------------------------------------
Saving == {"save_model", "write_model", "save_report", "write_report", "finished"}

Stages == {"generate_train", "train", "epoch", "restore", "generate_test",
           "validate", "stopped"} \cup Saving

Files == [run : 0..MaxRuns, net : 0..Epochs, scaled : {None, TrainSeed}, whole : BOOLEAN]

TypeOK ==
    /\ stage \in Stages
    /\ run \in 1..MaxRuns
    /\ samples \in SampleSizes
    /\ net \in 0..Epochs
    /\ scaled \in {None, TrainSeed}
    /\ losses \in Seq(Losses \cup {NaN}) /\ epochs_run <= Epochs
    /\ best_val \in Losses \cup {None}
    /\ best_state \in (1..Epochs) \cup {None}
    /\ patience_left \in 0..Patience
    /\ report \in Files \cup {None}
    /\ model_file \in Files /\ report_file \in Files

(* What is kept as best is the first of the smallest losses of this training  *)
(* so far, its weights those of its epoch, NaN epochs passed over; and it is  *)
(* None only as long as every loss was NaN.                                   *)
BestIsKept ==
    /\ best_state = None <=> best_val = None
    /\ best_val = None => \A e \in 1..epochs_run : losses[e] = NaN
    /\ best_val # None =>
          /\ best_state \in 1..epochs_run
          /\ losses[best_state] = best_val
          /\ \A e \in 1..epochs_run : losses[e] # NaN =>
                /\ best_val <= losses[e]
                /\ e < best_state => best_val < losses[e]

(* The loop goes on exactly until Patience epochs in a row brought nothing    *)
(* better, or all epochs are done: patience counts the epochs since the best. *)
LastBest == IF best_state = None THEN 0 ELSE best_state

PatienceCounts ==
    /\ patience_left = Patience - (epochs_run - LastBest)
    /\ stage = "epoch" => patience_left > 0
    /\ stage \in {"restore", "generate_test", "validate"} \cup Saving
         => epochs_run = Epochs \/ epochs_run = LastBest + Patience

EarlyStopping == BestIsKept /\ PatienceCounts

(* The model that is written is the best one of its training, with the        *)
(* statistics of the data it was trained on, and the report beside it speaks  *)
(* of that very model.  (Where no loss was ever a number it is the last one:  *)
(* nothing in the script refuses it.)                                         *)
Chosen == IF best_state = None THEN epochs_run ELSE best_state

DeliveredIsBest ==
    /\ stage \in {"generate_test", "validate"} \cup Saving => net = Chosen
    /\ stage \in Saving => report = File(run, net, TrainSeed)
    /\ stage \in {"save_report", "write_report", "finished"} =>
          model_file = File(run, net, TrainSeed)
    /\ stage = "finished" => report_file = model_file

(* A run that is stopped may leave a torn model, or a new one, beside the     *)
(* report of an older run, and it may leave a torn report; but never a report *)
(* of a model that was not written in full, and a report that can be read and *)
(* is of the run of the model file speaks of that very model.                 *)
ReportNeverAhead ==
    /\ report_file.run <= model_file.run
    /\ report_file.run = model_file.run =>
          model_file.whole /\ (report_file.whole => report_file = model_file)

Delivered == DeliveredIsBest /\ ReportNeverAhead
=============================================================================
