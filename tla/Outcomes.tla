------------------------------- MODULE Outcomes -------------------------------
(***************************************************************************)
(* How an execution becomes an outcome: parse_capture of                   *)
(* execution/outcomes.py, PytestReportParser.parse of                      *)
(* evaluators/pytest_report.py, and what the worker does when it could not *)
(* resolve a manifest.  Pure functions, applied once to every input within *)
(* the bounds; the properties say what a grade stands for.                 *)
(*                                                                         *)
(* What the capture says went wrong is a set of signs.  A report is its    *)
(* list of tests, or what is wrong with it.                                *)
(***************************************************************************)
EXTENDS Naturals, Sequences, FiniteSets

CONSTANTS
    TestId,
    MaxSigns,           \* bound on the signs of failure of one capture
    MaxTests,           \* bound on the tests of a report and of a manifest
    Nil

ASSUME OutcomeAssumption ==
    /\ MaxSigns \in Nat /\ MaxTests \in Nat
    /\ Nil \notin Nat /\ Nil \notin {"valid", "accept", "reject"}

\* runtime_error is a code of a patch, protection or validation failure
\* ("patch") or another one ("runtime"); build_exit_code # 0; the flags.
Sign == {"patch", "runtime", "build", "cancelled", "timed_out", "oom_killed", "truncated"}

Tuples(S) == UNION {[1 .. n -> S] : n \in 0 .. MaxTests}

Capture ==
    [signs : {S \in SUBSET Sign : Cardinality(S) <= MaxSigns
                                  /\ ~({"patch", "runtime"} \subseteq S)},
     exit_code : {Nil, 0, 1}]

Manifest ==
    [known_parser : BOOLEAN,
     expected_collection : Tuples(TestId),
     required_pass_ids : SUBSET TestId,
     permitted_skips : SUBSET TestId]

\* An outcome of a test other than passed and skipped counts as failed.
TestResult == [test_id : TestId, status : {"passed", "skipped", "failed"}]

\* "empty": no bytes.  "malformed": not UTF-8, not JSON, not an object, tests
\* not a list, an entry that is not an object or has no name.  "bad_duration":
\* a duration that is not a number.  "raising": what parse does not expect, a
\* RecursionError of json.loads or an OverflowError of float().
Report ==
    [kind : {"empty", "malformed", "raising"}, tests : {<<>>}] \cup
    [kind : {"bad_duration", "good"}, tests : Tuples(TestResult)]

VARIABLES capture, manifest, report, result

outcomeVars == <<capture, manifest, report, result>>

-----------------------------------------------------------------------------
Invalid(outcome, code) ==
    [outcome |-> outcome, evaluation_validity |-> "invalid", error_code |-> code]

Valid(outcome, code) ==
    [outcome |-> outcome, evaluation_validity |-> "valid", error_code |-> code]

\* An exception leaves parse_capture and run_one: no outcome is recorded.
Raised == [outcome |-> Nil, evaluation_validity |-> Nil, error_code |-> Nil]

Occurrences(id, tuple) == Cardinality({i \in DOMAIN tuple : tuple[i] = id})

CollectedIds(tests) == [i \in DOMAIN tests |-> tests[i].test_id]

\* Mutant: only the sets are compared.
CollectionMatchesAsSet(expected, ids) ==
    expected = <<>> \/ {expected[i] : i \in DOMAIN expected} = {ids[i] : i \in DOMAIN ids}

\* sorted(expected_collection) = sorted(collected), if there is an expectation.
CollectionMatches(expected, ids) ==
    \/ expected = <<>>
    \/ \A id \in TestId : Occurrences(id, expected) = Occurrences(id, ids)

DisallowedSkip(m, tests) ==
    \E i \in DOMAIN tests :
        tests[i].status = "skipped" /\ tests[i].test_id \notin m.permitted_skips

\* Mutant: only the tests that must pass are looked at.
HasFailuresRequired(m, tests) ==
    \E id \in m.required_pass_ids :
        ~\E i \in DOMAIN tests : tests[i].test_id = id /\ tests[i].status = "passed"

\* results_map keeps the last result of each test.
HasFailures(m, tests) ==
    \/ \E i \in DOMAIN tests : tests[i].status = "failed"
    \/ \E id \in m.required_pass_ids :
          ~\E i \in DOMAIN tests :
              /\ tests[i] = [test_id |-> id, status |-> "passed"]
              /\ \A k \in DOMAIN tests : tests[k].test_id = id => k <= i

ParseTests(m, tests, exit_code) ==
    IF tests = <<>> THEN Invalid("invalid_evaluation", "EMPTY_COLLECTION")
    ELSE IF ~CollectionMatches(m.expected_collection, CollectedIds(tests))
      THEN Invalid("invalid_evaluation", "COLLECTION_MISMATCH")
    ELSE IF DisallowedSkip(m, tests)
      THEN Invalid("invalid_evaluation", "COLLECTION_MISMATCH")
    ELSE IF HasFailures(m, tests)
      THEN Valid("reject", IF exit_code = 0 THEN "EXIT_REPORT_MISMATCH" ELSE Nil)
    ELSE IF exit_code \notin {Nil, 0}
      THEN Invalid("invalid_evaluation", "EXIT_REPORT_MISMATCH")
    ELSE Valid("accept", Nil)

\* PytestReportParser.parse
ParseReport(m, r, exit_code) ==
    IF r.kind = "empty" THEN Invalid("invalid_evaluation", "EMPTY_COLLECTION")
    ELSE IF r.kind = "raising" THEN Raised
    ELSE IF r.kind = "malformed" THEN Invalid("invalid_evaluation", "PARSER_ERROR")
    ELSE IF r.kind = "bad_duration"
      THEN Invalid("invalid_evaluation", "PARSER_ERROR")
    ELSE ParseTests(m, r.tests, exit_code)

\* The signs that end the evaluation before the report, in order of precedence.
Limits == <<[sign |-> "build", code |-> "BUILD_ERROR"],
            [sign |-> "cancelled", code |-> "CANCELLED"],
            [sign |-> "timed_out", code |-> "TIMEOUT"],
            [sign |-> "oom_killed", code |-> "RESOURCE_EXHAUSTED"],
            [sign |-> "truncated", code |-> "ARTIFACT_LIMIT"]>>

\* Mutant: the truncation of the output is not looked at.
ReachedUnlessTruncated(signs) == {i \in 1 .. 4 : Limits[i].sign \in signs}

Reached(signs) == {i \in DOMAIN Limits : Limits[i].sign \in signs}

FirstLimit(signs) ==
    Limits[CHOOSE i \in Reached(signs) : \A k \in Reached(signs) : i <= k]

\* parse_capture
ParseCapture(c, m, r) ==
    IF "patch" \in c.signs THEN Invalid("invalid_evaluation", "PATCH_ERROR")
    ELSE IF "runtime" \in c.signs THEN Invalid("error", "RUNTIME_ERROR")
    ELSE IF Reached(c.signs) # {}
      THEN Invalid("invalid_evaluation", FirstLimit(c.signs).code)
    ELSE IF m.known_parser THEN ParseReport(m, r, c.exit_code)
    ELSE Invalid("invalid_evaluation", "PARSER_ERROR")

\* The worker, when the job's records could not be resolved.
Unresolved(c) ==
    IF "patch" \in c.signs THEN Invalid("invalid_evaluation", "PATCH_ERROR")
    ELSE Invalid("error", "INFRASTRUCTURE_ERROR")

Classify ==
    /\ result = Nil
    /\ result' = IF manifest = Nil THEN Unresolved(capture)
                 ELSE ParseCapture(capture, manifest, report)
    /\ UNCHANGED <<capture, manifest, report>>

OutcomeInit ==
    /\ capture \in Capture
    /\ manifest \in Manifest \cup {Nil}
    /\ report \in Report
    /\ result = Nil

OutcomeSpec == OutcomeInit /\ [][Classify]_outcomeVars

-----------------------------------------------------------------------------
(* Properties *)

\* parse_capture, "Precedence": a grade is given only to an execution with no
\* sign of failure at all, whatever its report claims, read by a known parser;
\* exactly accept and reject are valid.
GradesAreClean ==
    result # Nil =>
        /\ (result.evaluation_validity = "valid") <=> (result.outcome \in {"accept", "reject"})
        /\ result.evaluation_validity = "valid" =>
              /\ capture.signs = {}
              /\ manifest # Nil /\ report.kind = "good"
              /\ manifest.known_parser

Passed(id) == \E i \in DOMAIN report.tests :
                  report.tests[i] = [test_id |-> id, status |-> "passed"]

\* PytestReportParser: accept means that tests ran, the collection is the one
\* expected, nothing failed, only permitted tests were skipped, every required
\* test passed, and the exit status does not contradict it.
AcceptMeansPassed ==
    result # Nil =>
        (result.outcome = "accept" =>
            LET ran == report.tests
            IN  /\ ran # <<>>
                /\ manifest.expected_collection # <<>> =>
                      /\ Len(ran) = Len(manifest.expected_collection)
                      /\ {ran[i].test_id : i \in DOMAIN ran} =
                           {manifest.expected_collection[i] :
                                i \in DOMAIN manifest.expected_collection}
                /\ \A i \in DOMAIN ran :
                      Passed(ran[i].test_id) \/ ran[i].test_id \in manifest.permitted_skips
                /\ \A i \in DOMAIN ran : ran[i].status # "failed"
                /\ \A id \in manifest.required_pass_ids : Passed(id)
                /\ capture.exit_code # 1)

\* A test that must pass is listed both as passed and as skipped.
Ambiguous(m, tests) ==
    \E i, k \in DOMAIN tests :
        /\ tests[i].test_id = tests[k].test_id /\ tests[i].test_id \in m.required_pass_ids
        /\ tests[i].status = "passed" /\ tests[k].status = "skipped"

\* The order of the tests in the report does not change the outcome.  Since
\* results_map keeps the last result of a test, this is not so of a report that is
\* ambiguous, unless an expected collection that names each test once refuses it.
OrderDoesNotMatter ==
    result # Nil =>
        LET n == Len(report.tests)
            orders == {p \in [1 .. n -> 1 .. n] : \A i, k \in 1 .. n : p[i] = p[k] => i = k}
            parsed == /\ manifest # Nil /\ report.kind = "good"
                      /\ manifest.known_parser /\ capture.signs = {}
            expected == manifest.expected_collection
        IN  parsed =>
              ((Ambiguous(manifest, report.tests) =>
                    expected # <<>> /\ \A id \in TestId : Occurrences(id, expected) <= 1) =>
                  \A p \in orders :
                      ParseTests(manifest, [i \in 1 .. n |-> report.tests[p[i]]],
                                 capture.exit_code).outcome = result.outcome)

=============================================================================
