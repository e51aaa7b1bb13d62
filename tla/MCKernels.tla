----------------------------- MODULE MCKernels ------------------------------
(***************************************************************************)
(* Instances for TLC of the small machines, in one run: a behaviour is one *)
(* of them at work, while the others rest at an initial state.  They share *)
(* nothing.                                                                *)
(***************************************************************************)
EXTENDS Datalog, GraphPath, Validity, Recall, Intake, Backup, GraphCanvas

CONSTANTS a, b, c, d, note, memo, essay, small, wide

VARIABLE kernel

\* A machine at rest has one input.
ProgramAtRest == CHOOSE p \in Programs : TRUE
QuestionAtRest == CHOOSE q \in Questions : TRUE
CallAtRest == CHOOSE x \in Calls : TRUE
UrlAtRest == CHOOSE u \in Urls : TRUE
SizeAtRest == CHOOSE s \in Sizes : TRUE

KernelsInit ==
  /\ kernel \in {"datalog", "path", "validity", "recall", "intake", "backup", "canvas"}
  /\ DatalogStart(IF kernel = "datalog" THEN Programs ELSE {ProgramAtRest})
  /\ PathStart(IF kernel = "path" THEN Questions ELSE {QuestionAtRest})
  /\ ValidityInit
  /\ RecallStart(IF kernel = "recall" THEN Calls ELSE {CallAtRest})
  /\ IntakeStart(IF kernel = "intake" THEN Urls ELSE {UrlAtRest})
  /\ BackupInit
  /\ CanvasStart(IF kernel = "canvas" THEN Sizes ELSE {SizeAtRest})

KernelsNext ==
  /\ UNCHANGED kernel
  /\ \/ /\ kernel = "datalog" /\ DatalogNext
        /\ UNCHANGED <<pathVars, validityVars, recallVars, intakeVars, backupVars, canvasVars>>
     \/ /\ kernel = "path" /\ PathNext
        /\ UNCHANGED <<datalogVars, validityVars, recallVars, intakeVars, backupVars, canvasVars>>
     \/ /\ kernel = "validity" /\ ValidityNext
        /\ UNCHANGED <<datalogVars, pathVars, recallVars, intakeVars, backupVars, canvasVars>>
     \/ /\ kernel = "recall" /\ RecallNext
        /\ UNCHANGED <<datalogVars, pathVars, validityVars, intakeVars, backupVars, canvasVars>>
     \/ /\ kernel = "intake" /\ IntakeNext
        /\ UNCHANGED <<datalogVars, pathVars, validityVars, recallVars, backupVars, canvasVars>>
     \/ /\ kernel = "backup" /\ BackupNext
        /\ UNCHANGED <<datalogVars, pathVars, validityVars, recallVars, intakeVars, canvasVars>>
     \/ /\ kernel = "canvas" /\ CanvasNext
        /\ UNCHANGED <<datalogVars, pathVars, validityVars, recallVars, intakeVars, backupVars>>

kernelsVars == <<kernel, datalogVars, pathVars, validityVars, recallVars, intakeVars,
                 backupVars, canvasVars>>

IntakeRests ==
  UNCHANGED <<kernel, datalogVars, pathVars, validityVars, recallVars, backupVars, canvasVars>>

\* The fairness of IntakeSpec.
KernelsSpec ==
  /\ KernelsInit /\ [][KernelsNext]_kernelsVars
  /\ WF_kernelsVars(kernel = "intake" /\ Handler /\ IntakeRests)
  /\ WF_kernelsVars(kernel = "intake" /\ Abort /\ IntakeRests)

\* IntakeEnds of Intake, in the behaviours that are of it: a run of the
\* handler is settled, and as SettledWell says (fetch-pinned.ts:27).
IntakesEnd == kernel = "intake" => IntakeEnds

(***************************************************************************)
(* Datalog: all programs of up to three rules over four tuples, of which   *)
(* three may be derived in two passes, with one fact or none.              *)
(***************************************************************************)
SomeTuples == {a, b, c, d}
SomePrograms ==
  [facts : {{}, {a}},
   rules : BoundedSeq([head : {b, c, d}, body : {{}, {a}, {b}, {c}, {b, c}}], 3)]

\* GraphPath: every choice of active facts among eight, to two goals.
Arrows == <<<<a, b>>, <<a, c>>, <<b, c>>, <<c, b>>, <<b, d>>, <<c, d>>, <<d, a>>, <<a, d>>>>
SomeQuestions ==
  {[facts |-> [i \in DOMAIN Arrows |->
                 [from |-> Arrows[i][1], to |-> Arrows[i][2], live |-> i \in S]],
    from |-> a, to |-> goal, maxDepth |-> k] :
     S \in SUBSET DOMAIN Arrows, goal \in {a, d}, k \in 0..3}

\* Recall: up to three episodes with three texts in two sessions.
SomeLength == [t \in Texts |-> CASE t = note -> 0 [] t = memo -> 8 [] t = essay -> 9]
SomeShares == [q \in {a, b} |-> IF q = a THEN {note, memo} ELSE {}]
SomeMentions == [q \in {a, b} |-> IF q = a THEN {memo, essay} ELSE {}]
SomeCalls ==
  [query : {a, b}, strategy : {"recent", "lexical", "entity"}, session : {"", "s"},
   episodes : BoundedSeq([text : Texts, session : {"s", "t"}], 3)]

\* Intake: addresses of which one is private, and one answer that mixes.
PublicHost == [form |-> "v4", a |-> 8, b |-> 8]
PrivateHost == [form |-> "v4", a |-> 10, b |-> 0]
NamedHost == [form |-> "name", a |-> 0, b |-> 0]
MappedHost == [form |-> "mapped", a |-> 192, b |-> 168]
SomeHosts == {PublicHost, PrivateHost, NamedHost, MappedHost}
SomeUrls == [parses : {TRUE}, web : BOOLEAN, host : SomeHosts]
SomeAnswers == {<<>>, <<PublicHost>>, <<PublicHost, PrivateHost>>, <<MappedHost>>}

\* GraphCanvas: two graphs that share a node.
SomeGraphs ==
  {[nodes |-> {a, b}, edges |-> {c}, incident |-> [n \in {a, b} |-> c]],
   [nodes |-> {a}, edges |-> {d}, incident |-> [n \in {a} |-> d]]}
=============================================================================
