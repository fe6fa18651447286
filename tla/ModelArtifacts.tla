---------------------------- MODULE ModelArtifacts ----------------------------
(***************************************************************************)
(* From the catalog to an answer of the classifier service: export writes  *)
(* three CSV files and their metadata, train reads them and writes five    *)
(* artifacts, the service loads three of those when it starts, evaluate    *)
(* reads both directories.  The first three are run by hand, one after     *)
(* the other; each overwrites the files of its last run in place and one   *)
(* by one, and can die in between.  The service runs beside them and is    *)
(* restarted by Docker at any time.                                        *)
(*                                                                         *)
(* A file whose writer died is partial: a CSV then holds some of its rows, *)
(* the last one perhaps cut in its label; JSON and models cannot be read.  *)
(*                                                                         *)
(* Abstracted: the model to the order of its probability columns and what  *)
(* it has seen; metrics; feature extraction.  Of a partial CSV the rows    *)
(* left are only known by their labels.                                    *)
(***************************************************************************)
EXTENDS TrainingData, SequencesExt

CONSTANTS
    Null,
    Configs,      \* bound: export configurations tried
    MaxExports,   \* bound: exports
    MaxTrainings, \* bound: trainings
    MaxFaults     \* bound: exports and trainings that die

ASSUME ArtifactsAssumption == Configs \subseteq Config

VARIABLES
    data,        \* the CSV files
    dataMeta,    \* export-metadata.json: [state, cfg]
    exporter,    \* the locals of export_datasets, or Null
    artifact,    \* the artifact directory
    trainer,     \* the locals of train_model, or Null
    service,     \* the classifier service: its start-up, and what it loaded
    report,      \* history: the last evaluation report, or Null
    exports, trainings, faults

vars == <<data, dataMeta, exporter, artifact, trainer, service, report, exports,
          trainings, faults>>

Splits == <<"train", "validation", "test">>
Artifacts == <<"pipeline", "onnx", "labels", "metrics", "metadata">>

\* The label of a row that was cut off.
Cut == 0

NoGroups == [c \in CatalogCategories |-> {}]
NoCsv == [state |-> "absent", cfg |-> Null, labels |-> {}, used |-> NoGroups]
NoModel == [state |-> "absent", columns |-> <<>>, seen |-> NoGroups, cfg |-> Null]
Down == [pc |-> "down", labels |-> <<>>, columns |-> <<>>]

Init ==
    /\ data = [s \in Split |-> NoCsv]
    /\ dataMeta = [state |-> "absent", cfg |-> Null]
    /\ artifact = [a \in ToSet(Artifacts) |-> NoModel]
    /\ exporter = Null /\ trainer = Null /\ report = Null
    /\ service = Down
    /\ exports = 0 /\ trainings = 0 /\ faults = 0

\* One program at a time.
Prompt == exporter = Null /\ trainer = Null

-----------------------------------------------------------------------------
(* export_datasets.                                                        *)

ExportVars == <<artifact, trainer, service, report, trainings>>

Export(cfg) ==
    /\ Prompt /\ exports < MaxExports
    /\ Valid(cfg)
    /\ exports' = exports + 1
    /\ exporter' = [cfg |-> cfg, at |-> 1, plan |-> Null, csv |-> Null]
    /\ UNCHANGED <<ExportVars, data, dataMeta, faults>>

Exporting(split) == exporter # Null /\ exporter.at <= 3 /\ split = Splits[exporter.at]

LabelsOf(plan) == {c \in Labels : plan[c] > 0}

\* generate_realistic_rows.
GenerateSplit(split) ==
    /\ Exporting(split) /\ exporter.plan = Null
    /\ Plannable(exporter.cfg, split)
    /\ \E plan \in Plans(exporter.cfg, split) :
       \E used \in Used(exporter.cfg, split, plan) :
          exporter' = [exporter EXCEPT !.plan = plan,
                          !.csv = [state |-> "whole", cfg |-> exporter.cfg,
                                   labels |-> LabelsOf(plan), used |-> used]]
    /\ UNCHANGED <<ExportVars, data, dataMeta, exports, faults>>

\* build_category_plan throws: the splits before are already overwritten.
GenerateFails(split) ==
    /\ Exporting(split) /\ exporter.plan = Null
    /\ ~Plannable(exporter.cfg, split)
    /\ exporter' = Null
    /\ UNCHANGED <<ExportVars, data, dataMeta, exports, faults>>

WriteSplit(split) ==
    /\ Exporting(split) /\ exporter.plan # Null
    /\ data' = [data EXCEPT ![split] = exporter.csv]
    /\ exporter' = [exporter EXCEPT !.at = @ + 1, !.plan = Null, !.csv = Null]
    /\ UNCHANGED <<ExportVars, dataMeta, exports, faults>>

OpenExportMetadata ==
    /\ exporter # Null /\ exporter.at = 4
    /\ dataMeta' = [state |-> "partial", cfg |-> Null]
    /\ exporter' = [exporter EXCEPT !.at = 5]
    /\ UNCHANGED <<ExportVars, data, exports, faults>>

WriteExportMetadata ==
    /\ exporter # Null /\ exporter.at = 5
    /\ dataMeta' = [state |-> "whole", cfg |-> exporter.cfg]
    /\ exporter' = Null
    /\ UNCHANGED <<ExportVars, data, exports, faults>>

\* Some of the rows, the last one perhaps cut.
PartsOf(csv) ==
    {[csv EXCEPT !.state = "partial", !.labels = some,
                 !.used = [c \in CatalogCategories |->
                              IF c \in some THEN csv.used[c] ELSE {}]] :
        some \in SUBSET (csv.labels \cup {Cut})}

\* Between two files, or while it writes one.
ExportDies ==
    /\ exporter # Null /\ faults < MaxFaults
    /\ faults' = faults + 1
    /\ \/ UNCHANGED data
       \/ /\ exporter.plan # Null
          /\ \E part \in PartsOf(exporter.csv) :
                data' = [data EXCEPT ![Splits[exporter.at]] = part]
    /\ exporter' = Null
    /\ UNCHANGED <<ExportVars, dataMeta, exports>>

ExportNext ==
    \/ \E cfg \in Configs : Export(cfg)
    \/ \E split \in Split : GenerateSplit(split) \/ GenerateFails(split) \/ WriteSplit(split)
    \/ OpenExportMetadata \/ WriteExportMetadata \/ ExportDies

-----------------------------------------------------------------------------
(* train_model.                                                            *)

TrainVars == <<data, dataMeta, exporter, service, report, exports>>

\* classes_ of the classifier: sorted.
Classes(labels) ==
    LET columns == 1 .. Cardinality(labels) IN
    CHOOSE s \in [columns -> labels] : \A i, j \in columns : i < j => s[i] < s[j]

\* load_dataset and load_export_metadata do not throw.
Readable(split) == data[split].labels # {} /\ dataMeta.state # "partial"

\* Everything is read and fitted before anything is written; one class is not
\* enough.
Train ==
    /\ Prompt /\ trainings < MaxTrainings
    /\ Readable("train") /\ Readable("validation")
    /\ Cardinality(data["train"].labels) > 1
    /\ trainings' = trainings + 1
    /\ trainer' = [model |-> [state |-> "whole", columns |-> Classes(data["train"].labels),
                              seen |-> data["train"].used, cfg |-> data["train"].cfg],
                   at |-> 1, open |-> FALSE]
    /\ UNCHANGED <<TrainVars, artifact, faults>>

OpenArtifact ==
    /\ trainer # Null /\ ~trainer.open
    /\ artifact' = [artifact EXCEPT ![Artifacts[trainer.at]] = [NoModel EXCEPT !.state = "partial"]]
    /\ trainer' = [trainer EXCEPT !.open = TRUE]
    /\ UNCHANGED <<TrainVars, trainings, faults>>

WriteArtifact ==
    /\ trainer # Null /\ trainer.open
    /\ artifact' = [artifact EXCEPT ![Artifacts[trainer.at]] = trainer.model]
    /\ trainer' = IF trainer.at = Len(Artifacts) THEN Null
                  ELSE [trainer EXCEPT !.at = @ + 1, !.open = FALSE]
    /\ UNCHANGED <<TrainVars, trainings, faults>>

\* It dies, or the conversion to ONNX throws.
TrainDies ==
    /\ trainer # Null /\ faults < MaxFaults
    /\ faults' = faults + 1
    /\ trainer' = Null
    /\ UNCHANGED <<TrainVars, artifact, trainings>>

-----------------------------------------------------------------------------
(* The classifier service with the strategy "ml".                          *)

ServiceVars == <<data, dataMeta, exporter, artifact, trainer, report, exports,
                 trainings, faults>>

\* Mutant: any labels will do.
ExactLabelsNever(columns) == TRUE

\* parseLabels: the labels must be those of TransactionCategory.
ExactLabels(columns) == ToSet(columns) = Labels

\* OnnxModelLoader.load: the model file has to exist, no more.
Load ==
    /\ service.pc = "down"
    /\ artifact["onnx"].state # "absent"
    /\ artifact["labels"].state = "whole" /\ ExactLabels(artifact["labels"].columns)
    /\ artifact["metadata"].state = "whole"
    /\ service' = [Down EXCEPT !.pc = "loaded", !.labels = artifact["labels"].columns]
    /\ UNCHANGED ServiceVars

\* OnnxInferenceEngine: the session reads the model, as it is by now.
CreateSession ==
    /\ service.pc = "loaded"
    /\ service' = IF artifact["onnx"].state = "whole"
                  THEN [service EXCEPT !.pc = "up", !.columns = artifact["onnx"].columns]
                  ELSE Down
    /\ UNCHANGED ServiceVars

\* The container is restarted; it is again and again while Load throws.
Restart ==
    /\ service.pc # "down"
    /\ service' = Down
    /\ UNCHANGED ServiceVars

\* extractProbabilityRow finds a row: predict answers.
Answers == service.pc = "up" /\ Len(service.columns) = Len(service.labels)

-----------------------------------------------------------------------------
(* evaluate_artifacts.                                                     *)

\* find_probability_output: as many columns as labels, no more is looked at.
HasProbabilities(columns, labels) == Len(columns) = Len(labels)

\* The labels may be any.
Evaluate(split) ==
    /\ Prompt
    /\ Readable(split)
    /\ \A a \in {"labels", "pipeline", "onnx"} : artifact[a].state = "whole"
    /\ LET labels == artifact["labels"].columns  columns == artifact["onnx"].columns IN
       /\ HasProbabilities(columns, labels)
       /\ report' = [labels |-> labels, columns |-> columns]
    /\ UNCHANGED <<data, dataMeta, exporter, artifact, trainer, service, exports,
                   trainings, faults>>

Next ==
    \/ ExportNext
    \/ Train \/ OpenArtifact \/ WriteArtifact \/ TrainDies
    \/ Load \/ CreateSession \/ Restart
    \/ \E split \in Split : Evaluate(split)

Spec == Init /\ [][Next]_vars

-----------------------------------------------------------------------------
\* Every column of the model under the label it was trained with: whatever
\* trainings the files come from, the service never gives an answer under a
\* wrong label, nor does an evaluation whose labels are complete; the number of
\* columns is all that is compared.  Not so for a model trained on a CSV file
\* that was cut in the middle of a label.
AnswersAreLabelled ==
    LET uncut(columns) == Cut \notin ToSet(columns) IN
    /\ Answers /\ uncut(service.columns) => service.labels = service.columns
    /\ report # Null /\ ToSet(report.labels) = Labels /\ uncut(report.columns)
          => report.labels = report.columns

\* With merchants held out, no group the model was trained on occurs in the
\* validation or test file of the same configuration, however the ratio rounds;
\* the splits draw their pools in separate calls.
NoMerchantLeaks ==
    LET model == artifact["pipeline"] IN
    \A s \in {"validation", "test"} : \A c \in CatalogCategories :
        /\ model.state = "whole" /\ data[s].cfg = model.cfg
        /\ model.cfg.strategy = "holdout" /\ Cardinality(Groups[c]) > 1
        => model.seen[c] \cap data[s].used[c] = {}

\* The README's claim for the realistic profile, evaluation on unseen merchants:
\* where the metadata says so and no export runs, training and evaluation files
\* share no group.  Violated: an export that throws or dies between two splits
\* leaves the old ones, and the old metadata, beside the new ones.
EvaluationMerchantsAreUnseen ==
    exporter = Null /\ dataMeta.state = "whole" /\ dataMeta.cfg.profile = "realistic"
       /\ dataMeta.cfg.strategy = "holdout" =>
        \A s \in {"validation", "test"} : \A c \in CatalogCategories :
            Cardinality(Groups[c]) > 1 => data["train"].used[c] \cap data[s].used[c] = {}

\* A plan has the rows asked for, every category within one of its share.
SharesAreKept ==
    exporter # Null /\ exporter.plan # Null =>
        LET n == SumOf(exporter.plan) IN
        /\ n = Total(exporter.cfg, Splits[exporter.at])
        /\ exporter.cfg.profile = "realistic" /\ SumOf(Share) = 100 =>
              \A c \in Labels : 100 * exporter.plan[c] \in
                  Share[c] * n - 99 .. Share[c] * n + 99
=============================================================================
