------------------------------ MODULE Documents -------------------------------
(***************************************************************************)
(* The documents of `scenario run` (cli/src/cmd_scenario.cpp): a scenario  *)
(* file is parsed, its references are resolved, it is validated and        *)
(* planned, and after the run its artifacts are written into a run         *)
(* directory (core/reporting/src/run_directory.cpp), file by file, any of  *)
(* which may fail.  Someone may then edit the saved plan, load it with     *)
(* plan_from_json, and give the saved scenario to the command again.  The  *)
(* run itself is the subject of Pipeline and of the runtime's modules.     *)
(***************************************************************************)
EXTENDS DocumentPlan

CONSTANTS Files,      \* the files given: [format, document]
          Edits(_),   \* the documents one edit away
          MaxEdits    \* how many edits there are, of either file

ASSUME DocumentsAssumption == MaxEdits \in Nat

VARIABLES file,      \* the scenario file
          edits,     \* edits made so far
          stage,     \* how far the command has got, or its exit code
          scenario,  \* the scenario in memory, None at first
          plan,      \* the plan, None before it is made
          directory, \* the run directory: what each of its files holds
          due,       \* the artifacts to be written
          planFile,  \* the saved plan, as it may have been edited; None at first
          loaded     \* the results of plan_from_json; None before it is called

vars == <<file, edits, stage, scenario, plan, directory, due, planFile, loaded>>

Init == /\ file \in Files
        /\ edits = 0
        /\ stage = "given" /\ scenario = None /\ plan = None
        /\ directory = EmptyObject /\ due = <<>>
        /\ planFile = None /\ loaded = None

Saved == <<directory, due, planFile, loaded>>

EditFile ==
    /\ stage = "given" /\ edits < MaxEdits
    /\ \E document \in Edits(file.document) : file' = [file EXCEPT !.document = document]
    /\ edits' = edits + 1
    /\ UNCHANGED <<stage, scenario, plan, Saved>>

\* One step of the command: it fails, or it has a result.
Parse ==
    /\ stage = "given"
    /\ \/ /\ ParseThrows(file.format, file.document)
          /\ stage' = "GenericFailure" /\ UNCHANGED scenario
       \/ /\ ~ParseThrows(file.format, file.document)
          /\ ParseFile(file.format, file.document) = {}
          /\ stage' = "InputValidationFailure" /\ UNCHANGED scenario
       \/ /\ ~ParseThrows(file.format, file.document)
          /\ scenario' \in ParseFile(file.format, file.document)
          /\ stage' = "parsed"
    /\ UNCHANGED <<file, edits, plan, Saved>>

Resolve ==
    /\ stage = "parsed"
    /\ \/ /\ ResolveWaveformRefs(scenario) = {}
          /\ stage' = "InputValidationFailure" /\ UNCHANGED scenario
       \/ /\ scenario' \in ResolveWaveformRefs(scenario)
          /\ stage' = "resolved"
    /\ UNCHANGED <<file, edits, plan, Saved>>

CheckDocument ==
    /\ stage = "resolved"
    /\ stage' = IF ValidateDocument(scenario) THEN "validated" ELSE "InputValidationFailure"
    /\ UNCHANGED <<file, edits, scenario, plan, Saved>>

MakePlan ==
    /\ stage = "validated"
    /\ \/ /\ PlannableDocument(scenario)
          /\ plan' = DocumentPlanOf(scenario) /\ stage' = "planned"
       \/ /\ ~PlannableDocument(scenario)
          /\ stage' = "PlanningFailure" /\ UNCHANGED plan
    /\ UNCHANGED <<file, edits, scenario, Saved>>

-----------------------------------------------------------------------------
(* The artifacts. *)

\* The report names every artifact, itself included, but not the log.
ArtifactsOf(s) ==
    <<"scenario.normalized.json">>
    \o (IF s.reporting.save_plan THEN <<"plan.json">> ELSE <<>>)
    \o (IF s.reporting.save_metrics THEN <<"metrics.json">> ELSE <<>>)
    \o <<"report.json">>

\* Mutant: the report is written as soon as its contents are known.
WritesReportFirst(s) == <<"report.json">> \o Front(ArtifactsOf(s)) \o <<"logs.txt">>

Writes(s) == ArtifactsOf(s) \o <<"logs.txt">>

\* The device is opened and the plan prepared, armed and run; whatever fails
\* is over before a file is written.
RunPlan ==
    /\ stage = "planned"
    /\ \/ stage' \in {"PreparationFailure", "ExecutionFailure"} /\ UNCHANGED due
       \/ /\ scenario.reporting.save_plan \/ scenario.reporting.save_metrics
          /\ stage' = "writing" /\ due' = Writes(scenario)
       \/ /\ ~scenario.reporting.save_plan /\ ~scenario.reporting.save_metrics
          /\ stage' = "Success" /\ UNCHANGED due
    /\ UNCHANGED <<file, edits, scenario, plan, directory, planFile, loaded>>

ContentsOf(name) ==
    CASE name = "scenario.normalized.json" -> Dumped(ScenarioToJson(scenario))
      [] name = "plan.json" -> Dumped(PlanToJson(plan))
      [] name = "report.json" -> WriteArray(Text, ArtifactsOf(scenario))
      [] OTHER -> Text(name)

\* A file is written to its end, or the writing throws: it is not there, or
\* only in part.
WriteArtifact ==
    /\ stage = "writing" /\ due # <<>>
    /\ \/ /\ directory' = (Head(due) :> ContentsOf(Head(due))) @@ directory
          /\ due' = Tail(due)
          /\ stage' = IF Tail(due) = <<>> THEN "Success" ELSE "writing"
       \/ /\ \/ directory' = (Head(due) :> Null) @@ directory
             \/ UNCHANGED directory
          /\ stage' = "GenericFailure" /\ UNCHANGED due
    /\ UNCHANGED <<file, edits, scenario, plan, planFile, loaded>>

-----------------------------------------------------------------------------
(* What may be done with the files afterwards. *)

IsWritten(name) == Has(directory, name) /\ directory[name] # Null

TakePlanFile ==
    /\ stage = "Success" /\ IsWritten("plan.json") /\ planFile = None
    /\ \/ planFile' = directory["plan.json"] /\ UNCHANGED edits
       \/ /\ edits < MaxEdits
          /\ planFile' \in {p \in Edits(directory["plan.json"]) : ~ParseThrows("json", p)}
          /\ edits' = edits + 1
    /\ UNCHANGED <<file, stage, scenario, plan, directory, due, loaded>>

LoadPlan ==
    /\ planFile # None /\ loaded = None
    /\ loaded' = PlanFromJson(planFile)
    /\ UNCHANGED <<file, edits, stage, scenario, plan, directory, due, planFile>>

Next == \/ EditFile \/ Parse \/ Resolve \/ CheckDocument \/ MakePlan
        \/ RunPlan \/ WriteArtifact \/ TakePlanFile \/ LoadPlan

Spec == Init /\ [][Next]_vars
-----------------------------------------------------------------------------
(* The saved plan. *)

RfSettingsOf(s) == {x.rf : x \in ToSet(s.devices) \cup ToSet(s.channels)}

\* What plan_from_json refuses though the command runs it: a bandwidth that is
\* not positive, and impairments of which none is set, which are saved as null.
HasUnsetImpairments(s) ==
    \E em \in ToSet(s.emitters) : Has(em, "impairments") /\ em.impairments = EmptyObject
HasBadBandwidth(s) == \E rf \in RfSettingsOf(s) : Has(rf, "bandwidth_hz") /\ rf.bandwidth_hz <= 0

\* Nor does it take an estimate of the memory that exceeds an int64_t.
HasHugeEstimate(p) ==
    \E part \in {p} \cup ToSet(p.channel_plans) : part.resource_estimate.peak_memory_bytes > MaxInt64

\* Every plan of the command, written and read again, is the same plan, but
\* for the three cases above and for infinities, which a file cannot hold.
SavedPlanReloads ==
    stage = "planned" =>
        LET written == PlanToJson(plan)
            reloaded == PlanFromJson(Dumped(written))
        IN  IF \/ HasUnsetImpairments(scenario) \/ HasBadBandwidth(scenario)
               \/ HasHugeEstimate(plan)
            THEN reloaded = {}
            ELSE ~Holds("huge", written) => reloaded = {plan}

\* Whatever plan_from_json makes of an edited file has nothing that is lost or
\* refused when it is saved in its turn.
EditedPlanIsStable ==
    loaded \notin {None, {}} =>
        \A p \in loaded : PlanFromJson(Dumped(PlanToJson(p))) =
            IF \/ HasUnsetImpairments(p.normalized_scenario)
               \/ \E ri \in ToSet(p.render_instructions)
                              \cup UNION {ToSet(cp.render_instructions) : cp \in ToSet(p.channel_plans)} :
                     Has(ri, "impairments") /\ ri.impairments = EmptyObject
            THEN {} ELSE {p}

-----------------------------------------------------------------------------
(* The run directory. *)

\* A report is there only when every artifact it names is, in full.
ReportImpliesArtifacts ==
    IsWritten("report.json") =>
        \A i \in DOMAIN directory["report.json"].array :
            IsWritten(directory["report.json"].array[i].text)

\* A scenario file in YAML has no booleans, so that none asks for a report.
YamlLeavesNoFiles == file.format = "yaml" => directory = EmptyObject

-----------------------------------------------------------------------------
(* The saved scenario, given to the command again. *)

RereadScenario ==
    {t \in UNION {ResolveWaveformRefs(s) :
                    s \in ParseFile("json", directory["scenario.normalized.json"])} :
        ValidateDocument(t) /\ PlannableDocument(t)}

NestedParams(wf) == [wf EXCEPT !.params = [params |-> @]]

\* The command runs it too, with the parameters of every waveform one level
\* deeper, where no source looks for them; all else is the same.
RerunLosesOnlyParameters ==
    IsWritten("scenario.normalized.json")
        /\ ~HasUnsetImpairments(scenario) /\ ~Holds("huge", ScenarioToJson(scenario)) =>
        RereadScenario =
            {[scenario EXCEPT
                !.waveforms = [i \in DOMAIN @ |-> NestedParams(@[i])],
                !.emitters = [i \in DOMAIN @ |-> [@[i] EXCEPT !.waveform = NestedParams(@)]]]}

\* "All runs should be reproducible from scenario files" (docs/Design.md:1813):
\* what the normalized scenario of a run renders is what the run rendered.
SavedScenarioReproduces ==
    IsWritten("scenario.normalized.json") =>
        \A t \in RereadScenario :
            DocumentPlanOf(t).render_instructions = plan.render_instructions
=============================================================================
