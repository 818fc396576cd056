----------------------------- MODULE OutcomeProofs -----------------------------
(***************************************************************************)
(* A grade is given only to a clean execution, an accept only to the tests *)
(* that were expected and passed, and the order in which tests are listed  *)
(* changes no outcome unless the report is ambiguous, for any tests,       *)
(* manifests and reports of any length.                                    *)
(*                                                                         *)
(* Lists are compared by bijections between their places, test by test: no *)
(* induction on their length is needed.                                    *)
(***************************************************************************)
EXTENDS Outcomes, FiniteSetTheorems, FunctionTheorems, WellFoundedInduction, TLAPS

\* A capture that passes the checks of parse_capture has no sign of failure.
LEMMA NoSignLeft ==
    ASSUME NEW signs \in SUBSET Sign, "patch" \notin signs, "runtime" \notin signs,
           Reached(signs) = {}
    PROVE  signs = {}
  <1>1. DOMAIN Limits = 1 .. 5
    BY DEF Limits
  <1>2. /\ Limits[1].sign = "build" /\ Limits[2].sign = "cancelled"
        /\ Limits[3].sign = "timed_out" /\ Limits[4].sign = "oom_killed"
        /\ Limits[5].sign = "truncated"
    BY DEF Limits
  <1>3. \A i \in 1 .. 5 : Limits[i].sign \notin signs
    BY <1>1 DEF Reached
  <1>4. /\ "build" \notin signs /\ "cancelled" \notin signs /\ "timed_out" \notin signs
        /\ "oom_killed" \notin signs /\ "truncated" \notin signs
    BY <1>2, <1>3
  <1> QED
    BY <1>4 DEF Sign

\* The results the parser builds are valid exactly for accept and reject.
LEMMA TestsParsed ==
    ASSUME NEW m, NEW tests, NEW exit
    PROVE  LET p == ParseTests(m, tests, exit)
           IN  (p.evaluation_validity = "valid") <=> (p.outcome \in {"accept", "reject"})
  BY DEF ParseTests, Invalid, Valid

\* So is what a report gives, and only a well-formed one is graded.
LEMMA ReportParsed ==
    ASSUME NEW m, NEW r \in Report, NEW exit
    PROVE  LET p == ParseReport(m, r, exit)
           IN  /\ (p.evaluation_validity = "valid") <=> (p.outcome \in {"accept", "reject"})
               /\ p.evaluation_validity = "valid" => r.kind = "good"
  <1>1. r.kind \in {"empty", "malformed", "raising", "bad_duration", "good"}
    BY DEF Report
  <1>2. CASE r.kind = "good"
    BY <1>2, TestsParsed DEF ParseReport
  <1>3. CASE r.kind # "good"
    BY <1>1, <1>3, OutcomeAssumption DEF ParseReport, Invalid, Raised
  <1> QED
    BY <1>2, <1>3

\* So is what a capture gives, and only a clean one is graded.
LEMMA CaptureParsed ==
    ASSUME NEW c, c.signs \in SUBSET Sign, NEW m, NEW r \in Report
    PROVE  LET p == ParseCapture(c, m, r)
           IN  /\ (p.evaluation_validity = "valid") <=> (p.outcome \in {"accept", "reject"})
               /\ p.evaluation_validity = "valid" =>
                     c.signs = {} /\ m.known_parser /\ r.kind = "good"
  <1>1. CASE "patch" \in c.signs \/ "runtime" \in c.signs \/ Reached(c.signs) # {}
    BY <1>1 DEF ParseCapture, Invalid
  <1>2. CASE ~("patch" \in c.signs \/ "runtime" \in c.signs \/ Reached(c.signs) # {})
    <2>1. c.signs = {}
      BY <1>2, NoSignLeft
    <2>2. CASE m.known_parser
      BY <1>2, <2>1, <2>2, ReportParsed DEF ParseCapture
    <2>3. CASE ~m.known_parser
      BY <1>2, <2>3 DEF ParseCapture, Invalid
    <2> QED
      BY <2>1, <2>2, <2>3
  <1> QED
    BY <1>1, <1>2

\* The inputs are what they were, and the grade is clean.
CleanInv ==
    /\ capture.signs \in SUBSET Sign
    /\ report \in Report
    /\ GradesAreClean

\* parse_capture and the report parser grade only executions with no sign of
\* failure, whatever the report claims.
THEOREM OnlyCleanGraded == OutcomeSpec => []GradesAreClean
  <1>1. OutcomeInit => CleanInv
    BY DEF OutcomeInit, CleanInv, GradesAreClean, Capture
  <1>2. CleanInv /\ [Classify]_outcomeVars => CleanInv'
    <2> SUFFICES ASSUME CleanInv, [Classify]_outcomeVars PROVE CleanInv'
      OBVIOUS
    <2>1. CASE UNCHANGED outcomeVars
      BY <2>1 DEF outcomeVars, CleanInv, GradesAreClean
    <2>2. CASE Classify /\ manifest = Nil
      BY <2>2 DEF Classify, CleanInv, GradesAreClean, Unresolved, Invalid
    <2>3. CASE Classify /\ manifest # Nil
      <3>1. result' = ParseCapture(capture, manifest, report)
        BY <2>3 DEF Classify
      <3>2. UNCHANGED <<capture, manifest, report>>
        BY <2>3 DEF Classify
      <3>3. /\ (result'.evaluation_validity = "valid")
                  <=> (result'.outcome \in {"accept", "reject"})
            /\ result'.evaluation_validity = "valid" =>
                  capture.signs = {} /\ manifest.known_parser /\ report.kind = "good"
        BY <3>1, CaptureParsed DEF CleanInv
      <3> QED
        BY <2>3, <3>2, <3>3 DEF CleanInv, GradesAreClean
    <2> QED
      BY <2>1, <2>2, <2>3
  <1>3. CleanInv => GradesAreClean
    BY DEF CleanInv
  <1> QED
    BY <1>1, <1>2, <1>3, PTL DEF OutcomeSpec

-----------------------------------------------------------------------------
(* Tuples, and how often a test occurs in one. *)

\* A tuple of the model is a sequence.
LEMMA TupleFacts ==
    ASSUME NEW S, NEW t \in Tuples(S)
    PROVE  /\ Len(t) \in Nat /\ t \in [1 .. Len(t) -> S] /\ DOMAIN t = 1 .. Len(t)
           /\ t = <<>> <=> Len(t) = 0
           /\ IsFiniteSet(1 .. Len(t)) /\ Cardinality(1 .. Len(t)) = Len(t)
  <1>1. PICK n \in 0 .. MaxTests : t \in [1 .. n -> S]
    BY DEF Tuples
  <1>2. n \in Nat
    BY OutcomeAssumption
  <1>3. t \in Seq(S) /\ Len(t) = n
    BY <1>1, <1>2
  <1>4. t = <<>> <=> n = 0
    BY <1>2, <1>3
  <1>5. IsFiniteSet(1 .. n) /\ Cardinality(1 .. n) = n
    BY <1>2, FS_Interval
  <1> QED
    BY <1>1, <1>2, <1>3, <1>4, <1>5

\* Where id stands in t.
Places(id, t) == {i \in DOMAIN t : t[i] = id}

\* Counting a test is counting its places; at most one is a unique place.
LEMMA PlacesFacts ==
    ASSUME NEW n \in Nat, NEW t, DOMAIN t = 1 .. n, NEW id
    PROVE  /\ IsFiniteSet(Places(id, t))
           /\ Occurrences(id, t) = Cardinality(Places(id, t))
           /\ Occurrences(id, t) \in Nat
           /\ Occurrences(id, t) = 0 <=> Places(id, t) = {}
           /\ Occurrences(id, t) <= 1 =>
                 \A i, k \in DOMAIN t : t[i] = id /\ t[k] = id => i = k
  <1> DEFINE P == Places(id, t)
  <1>1. IsFiniteSet(1 .. n) /\ P \subseteq 1 .. n
    BY FS_Interval DEF Places
  <1>2. IsFiniteSet(P) /\ Cardinality(P) \in Nat
    BY <1>1, FS_Subset, FS_CardinalityType
  <1>3. Occurrences(id, t) = Cardinality(P)
    BY DEF Occurrences, Places
  <1>4. Cardinality(P) = 0 <=> P = {}
    BY <1>2, FS_EmptySet
  <1>5. ASSUME Cardinality(P) <= 1, NEW i \in P, NEW k \in P PROVE i = k
    <2>1. Cardinality(P) = 1
      BY <1>2, <1>4, <1>5
    <2> QED
      BY <1>2, <1>5, <2>1, FS_Singleton
  <1>6. Cardinality(P) <= 1 => \A i, k \in DOMAIN t : t[i] = id /\ t[k] = id => i = k
    BY <1>5 DEF Places
  <1> HIDE DEF P
  <1> QED
    BY <1>2, <1>3, <1>4, <1>6 DEF P

\* Every test occurs equally often in s and in t.
EquallyOften(n, m, s, t) ==
    /\ n \in Nat /\ m \in Nat
    /\ s \in [1 .. n -> TestId] /\ t \in [1 .. m -> TestId]
    /\ \A id \in TestId : Occurrences(id, s) = Occurrences(id, t)

\* s and t have the same length and the same tests.
SameTests(n, m, s, t) ==
    /\ n = m
    /\ \A i \in 1 .. n : \E k \in 1 .. m : s[i] = t[k]
    /\ \A k \in 1 .. m : \E i \in 1 .. n : t[k] = s[i]

\* Tuples in which every test occurs equally often have the same length and
\* the same tests: the bijections between the places of each test make one
\* between all places.
LEMMA SameOccurrences ==
    ASSUME NEW n, NEW m, NEW s, NEW t, EquallyOften(n, m, s, t)
    PROVE  SameTests(n, m, s, t)
  <1> USE DEF EquallyOften
  <1> DEFINE B(id) == Bijection(Places(id, s), Places(id, t))
             f == [id \in TestId |-> CHOOSE b : b \in B(id)]
             g == [i \in 1 .. n |-> f[s[i]][i]]
  <1>1. \A id \in TestId : f[id] \in B(id)
    <2> SUFFICES ASSUME NEW id \in TestId PROVE B(id) # {}
      BY Zenon
    <2>1. /\ IsFiniteSet(Places(id, s)) /\ IsFiniteSet(Places(id, t))
          /\ Cardinality(Places(id, s)) = Cardinality(Places(id, t))
      BY PlacesFacts
    <2> QED
      BY <2>1, FS_SameCardinalityBij, Fun_ExistsBij
  <1>2. ASSUME NEW id \in TestId
        PROVE  /\ f[id] \in [Places(id, s) -> Places(id, t)]
               /\ \A a, b \in Places(id, s) : f[id][a] = f[id][b] => a = b
               /\ \A k \in Places(id, t) : \E i \in Places(id, s) : f[id][i] = k
    <2> HIDE DEF f
    <2>1. f[id] \in Bijection(Places(id, s), Places(id, t))
      BY <1>1, <1>2
    <2> QED
      BY <2>1, Fun_BijectionProperties
  <1> HIDE DEF f
  <1>3. \A i \in 1 .. n : s[i] \in TestId /\ i \in Places(s[i], s)
    BY DEF Places
  <1>4. \A i \in 1 .. n : f[s[i]][i] \in Places(s[i], t)
    BY <1>2, <1>3
  <1>5. \A i \in 1 .. n : g[i] \in 1 .. m /\ t[g[i]] = s[i]
    BY <1>4 DEF Places
  <1>6. g \in [1 .. n -> 1 .. m]
    BY <1>5
  <1>7. \A i, k \in 1 .. n : g[i] = g[k] => i = k
    <2> SUFFICES ASSUME NEW i \in 1 .. n, NEW k \in 1 .. n, g[i] = g[k] PROVE i = k
      OBVIOUS
    <2>1. s[i] = s[k]
      BY <1>5
    <2>2. f[s[i]][i] = f[s[i]][k]
      BY <2>1
    <2> QED
      BY <1>2, <1>3, <2>1, <2>2
  <1>8. \A k \in 1 .. m : \E i \in 1 .. n : g[i] = k
    <2> SUFFICES ASSUME NEW k \in 1 .. m PROVE \E i \in 1 .. n : g[i] = k
      OBVIOUS
    <2>1. t[k] \in TestId /\ k \in Places(t[k], t)
      BY DEF Places
    <2>2. PICK i \in Places(t[k], s) : f[t[k]][i] = k
      BY <1>2, <2>1
    <2>3. i \in 1 .. n /\ s[i] = t[k]
      BY <2>2 DEF Places
    <2> QED
      BY <2>2, <2>3
  <1>9. g \in Bijection(1 .. n, 1 .. m)
    BY <1>6, <1>7, <1>8, Fun_IsBij
  <1>10. ExistsBijection(1 .. n, 1 .. m)
    BY <1>9, Fun_ExistsBij
  <1>11. /\ IsFiniteSet(1 .. n) /\ Cardinality(1 .. n) = n
         /\ IsFiniteSet(1 .. m) /\ Cardinality(1 .. m) = m
    BY FS_Interval
  <1>12. n = m
    BY <1>10, <1>11, FS_Bijection
  <1>13. \A i \in 1 .. n : \E k \in 1 .. m : s[i] = t[k]
    BY <1>5
  <1>14. \A k \in 1 .. m : \E i \in 1 .. n : t[k] = s[i]
    <2> SUFFICES ASSUME NEW k \in 1 .. m PROVE \E i \in 1 .. n : t[k] = s[i]
      OBVIOUS
    <2> HIDE DEF g
    <2>1. PICK i \in 1 .. n : g[i] = k
      BY <1>8
    <2>2. t[k] = s[i]
      BY <1>5, <2>1
    <2> QED
      BY <2>2
  <1> QED
    BY <1>12, <1>13, <1>14 DEF SameTests

-----------------------------------------------------------------------------
(* What an accepted report looks like. *)

\* The inputs do not change and the result is the one they give.
ClassifiedInv ==
    /\ capture \in Capture
    /\ manifest \in Manifest \cup {Nil}
    /\ report \in Report
    /\ result # Nil =>
          result = IF manifest = Nil THEN Unresolved(capture)
                   ELSE ParseCapture(capture, manifest, report)

\* What was classified is what parse_capture says of the inputs.
LEMMA Classified == OutcomeSpec => []ClassifiedInv
  <1>1. OutcomeInit => ClassifiedInv
    BY DEF OutcomeInit, ClassifiedInv
  <1>2. ClassifiedInv /\ [Classify]_outcomeVars => ClassifiedInv'
    BY DEF ClassifiedInv, Classify, outcomeVars
  <1> QED
    BY <1>1, <1>2, PTL DEF OutcomeSpec

\* The tests of a good report.
LEMMA GoodReport ==
    ASSUME NEW r \in Report, r.kind = "good"
    PROVE  r.tests \in Tuples(TestResult)
  BY DEF Report

\* An execution with no sign of failure, a known parser and a good report is
\* decided by the tests; accept comes from there only.
LEMMA DecidedByTests ==
    ASSUME NEW c, c.signs \in SUBSET Sign, NEW m, NEW r \in Report
    PROVE  /\ ParseCapture(c, m, r).outcome = "accept" =>
                 c.signs = {} /\ m.known_parser /\ r.kind = "good"
           /\ c.signs = {} /\ m.known_parser /\ r.kind = "good" =>
                 ParseCapture(c, m, r) = ParseTests(m, r.tests, c.exit_code)
  <1>1. ParseCapture(c, m, r).outcome = "accept" =>
            c.signs = {} /\ m.known_parser /\ r.kind = "good"
    BY CaptureParsed
  <1>2. c.signs = {} => Reached(c.signs) = {}
    BY DEF Reached
  <1>3. c.signs = {} /\ m.known_parser /\ r.kind = "good" =>
            ParseCapture(c, m, r) = ParseTests(m, r.tests, c.exit_code)
    BY <1>2 DEF ParseCapture, ParseReport
  <1> QED
    BY <1>1, <1>3

\* The ways through ParseTests.
LEMMA ParsedOutcome ==
    ASSUME NEW m, NEW tests, NEW exit
    PROVE  ParseTests(m, tests, exit).outcome =
             IF \/ tests = <<>>
                \/ ~CollectionMatches(m.expected_collection, CollectedIds(tests))
                \/ DisallowedSkip(m, tests)
             THEN "invalid_evaluation"
             ELSE IF HasFailures(m, tests) THEN "reject"
             ELSE IF exit \notin {Nil, 0} THEN "invalid_evaluation"
             ELSE "accept"
  BY DEF ParseTests, Invalid, Valid

\* The test ids of a report, in order.
LEMMA CollectedFacts ==
    ASSUME NEW tests \in Tuples(TestResult)
    PROVE  /\ CollectedIds(tests) \in [1 .. Len(tests) -> TestId]
           /\ \A i \in 1 .. Len(tests) : CollectedIds(tests)[i] = tests[i].test_id
           /\ \A i \in 1 .. Len(tests) :
                 /\ tests[i].test_id \in TestId
                 /\ tests[i].status \in {"passed", "skipped", "failed"}
                 /\ tests[i] = [test_id |-> tests[i].test_id, status |-> tests[i].status]
  <1>1. tests \in [1 .. Len(tests) -> TestResult] /\ DOMAIN tests = 1 .. Len(tests)
    BY TupleFacts
  <1>2. \A i \in 1 .. Len(tests) :
          /\ tests[i].test_id \in TestId
          /\ tests[i].status \in {"passed", "skipped", "failed"}
          /\ tests[i] = [test_id |-> tests[i].test_id, status |-> tests[i].status]
    BY <1>1 DEF TestResult
  <1> QED
    BY <1>1, <1>2 DEF CollectedIds

\* When a collection is expected, a matching one has its length and its tests.
LEMMA MatchedCollection ==
    ASSUME NEW expected \in Tuples(TestId), NEW ran \in Tuples(TestResult),
           expected # <<>>, CollectionMatches(expected, CollectedIds(ran))
    PROVE  /\ Len(ran) = Len(expected)
           /\ {ran[i].test_id : i \in DOMAIN ran} = {expected[i] : i \in DOMAIN expected}
  <1>1. \A id \in TestId : Occurrences(id, expected) = Occurrences(id, CollectedIds(ran))
    BY DEF CollectionMatches
  <1>2. PICK n \in Nat : n = Len(expected)
    BY TupleFacts
  <1>3. PICK m \in Nat : m = Len(ran)
    BY TupleFacts
  <1>4. expected \in [1 .. n -> TestId] /\ DOMAIN expected = 1 .. n
    BY <1>2, TupleFacts
  <1>5. DOMAIN ran = 1 .. m
    BY <1>3, TupleFacts
  <1>6. PICK ids : ids = CollectedIds(ran)
    OBVIOUS
  <1>7. ids \in [1 .. m -> TestId] /\ \A i \in 1 .. m : ids[i] = ran[i].test_id
    BY <1>3, <1>6, CollectedFacts
  <1>8. \A id \in TestId : Occurrences(id, expected) = Occurrences(id, ids)
    BY <1>1, <1>6
  <1>9. PICK D, E : D = 1 .. n /\ E = 1 .. m
    OBVIOUS
  <1>10. /\ n = m
         /\ \A i \in D : \E k \in E : expected[i] = ids[k]
         /\ \A k \in E : \E i \in D : ids[k] = expected[i]
    <2>1. n \in Nat /\ m \in Nat /\ expected \in [1 .. n -> TestId] /\ ids \in [1 .. m -> TestId]
      BY <1>2, <1>3, <1>4, <1>7
    <2>2. SameTests(n, m, expected, ids)
      <3>1. EquallyOften(n, m, expected, ids)
        BY <1>8, <2>1 DEF EquallyOften
      <3> QED
        BY <3>1, SameOccurrences
    <2> QED
      BY <1>9, <2>2 DEF SameTests
  <1>11. \A k \in E : ids[k] = ran[k].test_id
    BY <1>7, <1>9
  <1>12. {ran[k].test_id : k \in E} = {expected[i] : i \in D}
    <2>1. ASSUME NEW x \in {ran[k].test_id : k \in E} PROVE x \in {expected[i] : i \in D}
      <3>1. PICK k \in E : x = ran[k].test_id
        BY <2>1
      <3>2. PICK i \in D : ids[k] = expected[i]
        BY <1>10, <3>1
      <3> QED
        BY <1>11, <3>1, <3>2
    <2>2. ASSUME NEW x \in {expected[i] : i \in D} PROVE x \in {ran[k].test_id : k \in E}
      <3>1. PICK i \in D : x = expected[i]
        BY <2>2
      <3>2. PICK k \in E : expected[i] = ids[k]
        BY <1>10, <3>1
      <3> QED
        BY <1>11, <3>1, <3>2
    <2> QED
      BY <2>1, <2>2, Zenon
  <1> QED
    BY <1>2, <1>3, <1>4, <1>5, <1>9, <1>10, <1>12

\* accept means that tests ran, the collection is the one expected, nothing
\* failed, only permitted tests were skipped and the required ones passed.
THEOREM AcceptIsEarned == OutcomeSpec => []AcceptMeansPassed
  <1>1. ClassifiedInv => AcceptMeansPassed
    <2> SUFFICES ASSUME ClassifiedInv, result # Nil, result.outcome = "accept"
                 PROVE
          LET ran == report.tests
          IN  /\ ran # <<>>
              /\ manifest.expected_collection # <<>> =>
                    /\ Len(ran) = Len(manifest.expected_collection)
                    /\ {ran[i].test_id : i \in DOMAIN ran} =
                         {manifest.expected_collection[i] :
                              i \in DOMAIN manifest.expected_collection}
              /\ \A i \in DOMAIN ran :
                    Passed(ran[i].test_id) \/ ran[i].test_id \in manifest.permitted_skips
              /\ \A i \in DOMAIN ran : ran[i].status # "failed"
              /\ \A id \in manifest.required_pass_ids : Passed(id)
              /\ capture.exit_code # 1
      BY DEF AcceptMeansPassed
    <2> DEFINE ran == report.tests
               ids == CollectedIds(ran)
               expected == manifest.expected_collection
    <2>1. manifest \in Manifest /\ result = ParseCapture(capture, manifest, report)
      <3>1. manifest # Nil
        BY DEF ClassifiedInv, Unresolved, Invalid
      <3> QED
        BY <3>1 DEF ClassifiedInv
    <2>2. capture.signs \in SUBSET Sign /\ report \in Report
      BY DEF ClassifiedInv, Capture
    <2>3. /\ report.kind = "good"
          /\ ParseTests(manifest, ran, capture.exit_code).outcome = "accept"
      BY <2>1, <2>2, DecidedByTests
    <2>4. /\ ran # <<>> /\ CollectionMatches(expected, ids)
          /\ ~DisallowedSkip(manifest, ran) /\ ~HasFailures(manifest, ran)
          /\ capture.exit_code \in {Nil, 0}
      BY <2>3, ParsedOutcome
    <2>5. capture.exit_code # 1
      BY <2>4, OutcomeAssumption
    <2>6. ran \in Tuples(TestResult) /\ expected \in Tuples(TestId)
      BY <2>1, <2>2, <2>3, GoodReport DEF Manifest
    <2>7. DOMAIN ran = 1 .. Len(ran) /\ Len(ran) \in Nat
      BY <2>6, TupleFacts
    <2>8. expected # <<>> =>
            /\ Len(ran) = Len(expected)
            /\ {ran[i].test_id : i \in DOMAIN ran} = {expected[i] : i \in DOMAIN expected}
      <3> SUFFICES ASSUME expected # <<>>
                   PROVE  /\ Len(ran) = Len(expected)
                          /\ {ran[i].test_id : i \in DOMAIN ran} =
                               {expected[i] : i \in DOMAIN expected}
        OBVIOUS
      <3> QED
        BY <2>4, <2>6, <2>7, TupleFacts, MatchedCollection
    <2>9. \A i \in DOMAIN ran : ran[i].status # "failed"
      BY <2>4 DEF HasFailures
    <2>10. \A i \in DOMAIN ran :
             Passed(ran[i].test_id) \/ ran[i].test_id \in manifest.permitted_skips
      <3> SUFFICES ASSUME NEW i \in DOMAIN ran
                   PROVE  Passed(ran[i].test_id)
                             \/ ran[i].test_id \in manifest.permitted_skips
        OBVIOUS
      <3>1. /\ ran[i].status \in {"passed", "skipped", "failed"}
            /\ ran[i] = [test_id |-> ran[i].test_id, status |-> ran[i].status]
        BY <2>6, <2>7, CollectedFacts
      <3>2. CASE ran[i].status = "skipped"
        BY <2>4, <3>2 DEF DisallowedSkip
      <3>3. CASE ran[i].status = "passed"
        BY <3>1, <3>3 DEF Passed
      <3> QED
        BY <2>9, <3>1, <3>2, <3>3
    <2>11. \A id \in manifest.required_pass_ids : Passed(id)
      BY <2>4 DEF HasFailures, Passed
    <2> QED
      BY <2>4, <2>5, <2>8, <2>9, <2>10, <2>11
  <1> QED
    BY <1>1, Classified, PTL

-----------------------------------------------------------------------------
(* The order of the tests. *)

\* tests and other are the same list in two orders: place i of other is place
\* p[i] of tests.
Reordering(n, tests, other, p) ==
    /\ n \in Nat
    /\ tests \in [1 .. n -> TestResult] /\ other \in [1 .. n -> TestResult]
    /\ p \in [1 .. n -> 1 .. n]
    /\ \A i, k \in 1 .. n : p[i] = p[k] => i = k
    /\ \A i \in 1 .. n : other[i] = tests[p[i]]

\* A permutation of the places reaches all of them.
LEMMA ReorderingIsOnto ==
    ASSUME NEW n, NEW tests, NEW other, NEW p, Reordering(n, tests, other, p)
    PROVE  \A k \in 1 .. n : \E i \in 1 .. n : p[i] = k
  <1>1. IsFiniteSet(1 .. n) /\ p \in [1 .. n -> 1 .. n]
    <2>1. n \in Int /\ 1 \in Int
      BY DEF Reordering
    <2>2. IsFiniteSet(1 .. n)
      BY <2>1, FS_Interval
    <2> QED
      BY <2>2 DEF Reordering
  <1>2. p \in Injection(1 .. n, 1 .. n)
    BY <1>1, Fun_IsInj DEF Reordering
  <1>3. p \in Surjection(1 .. n, 1 .. n)
    BY <1>1, <1>2, FS_Injection
  <1> QED
    BY <1>3 DEF Surjection

\* The two lists have the same entries.
LEMMA SameEntries ==
    ASSUME NEW D, NEW tests, NEW other, NEW p,
           \A i \in D : p[i] \in D /\ other[i] = tests[p[i]],
           \A k \in D : \E i \in D : p[i] = k
    PROVE  /\ \A i \in D : \E k \in D : tests[k] = other[i]
           /\ \A k \in D : \E i \in D : other[i] = tests[k]
  OBVIOUS

\* Each test occurs in both equally often.
LEMMA ReorderingCounts ==
    ASSUME NEW n, NEW tests, NEW other, NEW p, Reordering(n, tests, other, p),
           NEW id
    PROVE  Occurrences(id, CollectedIds(other)) = Occurrences(id, CollectedIds(tests))
  <1> DEFINE D == 1 .. n
             S == Places(id, CollectedIds(other))
             T == Places(id, CollectedIds(tests))
             q == [i \in S |-> p[i]]
  <1>1. \A k \in D : \E i \in D : p[i] = k
    BY ReorderingIsOnto
  <1>2. /\ DOMAIN CollectedIds(other) = D /\ DOMAIN CollectedIds(tests) = D
        /\ \A i \in D : /\ CollectedIds(other)[i] = other[i].test_id
                        /\ CollectedIds(tests)[i] = tests[i].test_id
    BY DEF CollectedIds, Reordering
  <1>3. \A i \in D : p[i] \in D /\ other[i] = tests[p[i]]
    BY DEF Reordering
  <1>4. \A i, k \in D : p[i] = p[k] => i = k
    BY DEF Reordering
  <1>5. /\ n \in Nat /\ IsFiniteSet(S)
        /\ Occurrences(id, CollectedIds(other)) = Cardinality(S)
        /\ Occurrences(id, CollectedIds(tests)) = Cardinality(T)
    BY <1>2, PlacesFacts DEF Reordering
  <1>6. /\ \A i : i \in S <=> i \in D /\ other[i].test_id = id
        /\ \A i : i \in T <=> i \in D /\ tests[i].test_id = id
    BY <1>2 DEF Places
  <1> HIDE DEF D, S, T
  <1>7. q \in [S -> T]
    BY <1>3, <1>6
  <1>8. \A a, b \in S : q[a] = q[b] => a = b
    BY <1>4, <1>6
  <1>9. \A k \in T : \E i \in S : q[i] = k
    <2> SUFFICES ASSUME NEW k \in T PROVE \E i \in S : q[i] = k
      OBVIOUS
    <2>1. PICK i \in D : p[i] = k
      BY <1>1, <1>6
    <2>2. i \in S
      BY <1>3, <1>6, <2>1
    <2> QED
      BY <2>1, <2>2
  <1>10. ExistsBijection(S, T)
    BY <1>7, <1>8, <1>9, Fun_IsBij, Fun_ExistsBij
  <1> QED
    BY <1>5, <1>10, FS_Bijection

\* While no test occurs twice, the last result of a test is its only one.
FailuresAnywhere(m, D, tests) ==
    \/ \E i \in D : tests[i].status = "failed"
    \/ \E id \in m.required_pass_ids :
          ~\E i \in D : tests[i] = [test_id |-> id, status |-> "passed"]

\* Among numbers up to n there is a largest.
LEMMA Largest ==
    ASSUME NEW n \in Nat, NEW S \in SUBSET (1 .. n), S # {}
    PROVE  \E i \in S : \A k \in S : k <= i
  <1> DEFINE T == {n - k : k \in S}
  <1>1. T \subseteq Nat /\ T # {}
    <2>1. \A k \in S : n - k \in Nat
      <3> TAKE k \in S
      <3>1. k \in 1 .. n
        OBVIOUS
      <3> QED
        BY <3>1
    <2>2. PICK k \in S : TRUE
      OBVIOUS
    <2>3. n - k \in T
      BY <2>2
    <2> QED
      BY <2>1, <2>3
  <1> HIDE DEF T
  <1>2. PICK x \in T : \A y \in T : ~(<<y, x>> \in OpToRel(<, Nat))
    BY <1>1, NatLessThanWellFounded, WFMin, Zenon
  <1>3. \A y \in T : ~(y < x)
    BY <1>1, <1>2 DEF OpToRel
  <1>4. PICK i \in S : x = n - i
    BY DEF T
  <1>5. ASSUME NEW k \in S PROVE k <= i
    <2>1. n - k \in T
      BY DEF T
    <2>2. ~(n - k < n - i)
      BY <1>3, <1>4, <2>1
    <2>3. i \in Int /\ k \in Int
      OBVIOUS
    <2> QED
      BY <2>2, <2>3
  <1> QED
    BY <1>5

\* If no test that must pass is listed as passed and as skipped, it does not
\* matter which result of a test counts.
LEMMA FailuresOfClear ==
    ASSUME NEW m, NEW n \in Nat, NEW tests \in [1 .. n -> TestResult], ~Ambiguous(m, tests)
    PROVE  HasFailures(m, tests) <=> FailuresAnywhere(m, 1 .. n, tests)
  <1>1. DOMAIN tests = 1 .. n
    OBVIOUS
  <1>2. FailuresAnywhere(m, 1 .. n, tests) => HasFailures(m, tests)
    BY <1>1 DEF HasFailures, FailuresAnywhere
  <1>3. ASSUME \A i \in 1 .. n : tests[i].status # "failed",
               NEW id \in m.required_pass_ids,
               NEW j \in 1 .. n, tests[j] = [test_id |-> id, status |-> "passed"]
        PROVE  \E i \in 1 .. n :
                  /\ tests[i] = [test_id |-> id, status |-> "passed"]
                  /\ \A k \in 1 .. n : tests[k].test_id = id => k <= i
    <2> DEFINE S == {k \in 1 .. n : tests[k].test_id = id}
    <2>1. S \in SUBSET (1 .. n) /\ S # {}
      BY <1>3
    <2>2. PICK i \in S : \A k \in S : k <= i
      BY <2>1, Largest
    <2>3. i \in 1 .. n /\ tests[i].test_id = id /\ tests[i] \in TestResult
      OBVIOUS
    <2>4. tests[i].status \in {"passed", "skipped", "failed"}
      BY <2>3 DEF TestResult
    <2>5. tests[j].test_id = id /\ tests[j].status = "passed"
      BY <1>3
    <2>6. tests[i].status # "skipped"
      BY <1>1, <1>3, <2>3, <2>5 DEF Ambiguous
    <2>7. tests[i].status = "passed"
      BY <1>3, <2>3, <2>4, <2>6
    <2>8. tests[i] = [test_id |-> id, status |-> "passed"]
      BY <2>3, <2>7 DEF TestResult
    <2> QED
      BY <2>2, <2>3, <2>8
  <1> QED
    BY <1>1, <1>2, <1>3 DEF HasFailures, FailuresAnywhere

\* Lists with the same entries have failures anywhere alike.
LEMMA SameFailures ==
    ASSUME NEW m, NEW D, NEW tests, NEW other,
           \A i \in D : \E k \in D : tests[k] = other[i],
           \A k \in D : \E i \in D : other[i] = tests[k]
    PROVE  /\ FailuresAnywhere(m, D, other) <=> FailuresAnywhere(m, D, tests)
           /\ DOMAIN tests = D /\ DOMAIN other = D =>
                 (DisallowedSkip(m, other) <=> DisallowedSkip(m, tests))
  <1>1. (\E i \in D : other[i].status = "failed") <=> (\E i \in D : tests[i].status = "failed")
    OBVIOUS
  <1>2. \A x : (\E i \in D : other[i] = x) <=> (\E i \in D : tests[i] = x)
    OBVIOUS
  <1>3. FailuresAnywhere(m, D, other) <=> FailuresAnywhere(m, D, tests)
    BY <1>1, <1>2 DEF FailuresAnywhere
  <1>4. DOMAIN tests = D /\ DOMAIN other = D =>
          (DisallowedSkip(m, other) <=> DisallowedSkip(m, tests))
    BY DEF DisallowedSkip
  <1> QED
    BY <1>3, <1>4

\* A list in which no test occurs twice.
LEMMA UniqueTests ==
    ASSUME NEW n \in Nat, NEW tests \in [1 .. n -> TestResult],
           \A id \in TestId : Occurrences(id, CollectedIds(tests)) <= 1
    PROVE  \A i, k \in 1 .. n : tests[i].test_id = tests[k].test_id => i = k
  <1>1. /\ DOMAIN CollectedIds(tests) = 1 .. n
        /\ \A i \in 1 .. n : /\ CollectedIds(tests)[i] = tests[i].test_id
                             /\ tests[i].test_id \in TestId
    BY DEF CollectedIds, TestResult
  <1> SUFFICES ASSUME NEW i \in 1 .. n, NEW k \in 1 .. n, tests[i].test_id = tests[k].test_id
               PROVE  i = k
    OBVIOUS
  <1> DEFINE id == tests[i].test_id
             ids == CollectedIds(tests)
  <1>2. Occurrences(id, ids) <= 1 /\ DOMAIN ids = 1 .. n /\ ids[i] = id /\ ids[k] = id
    BY <1>1
  <1> HIDE DEF id, ids
  <1>3. \A a, b \in DOMAIN ids : ids[a] = id /\ ids[b] = id => a = b
    BY <1>2, PlacesFacts
  <1> QED
    BY <1>2, <1>3

\* The outcome is that of the report in any other order.
LEMMA ReorderedOutcome ==
    ASSUME NEW m, NEW exit, NEW n, NEW tests, NEW other, NEW p,
           Reordering(n, tests, other, p),
           Ambiguous(m, tests) =>
              /\ m.expected_collection # <<>>
              /\ \A id \in TestId : Occurrences(id, m.expected_collection) <= 1
    PROVE  ParseTests(m, other, exit).outcome = ParseTests(m, tests, exit).outcome
  <1>1. /\ n \in Nat /\ tests \in [1 .. n -> TestResult] /\ other \in [1 .. n -> TestResult]
        /\ DOMAIN tests = 1 .. n /\ DOMAIN other = 1 .. n /\ 1 .. n \in SUBSET Nat
    BY DEF Reordering
  <1>2. tests = <<>> <=> other = <<>>
    <2>1. /\ tests \in Seq(TestResult) /\ Len(tests) = n
          /\ other \in Seq(TestResult) /\ Len(other) = n
      BY <1>1
    <2>2. \A s \in Seq(TestResult) : s = <<>> <=> Len(s) = 0
      OBVIOUS
    <2> QED
      BY <2>1, <2>2
  <1>3. \A id \in TestId : Occurrences(id, CollectedIds(other)) =
                           Occurrences(id, CollectedIds(tests))
    BY ReorderingCounts
  <1>4. CollectionMatches(m.expected_collection, CollectedIds(other)) <=>
        CollectionMatches(m.expected_collection, CollectedIds(tests))
    BY <1>3 DEF CollectionMatches
  <1>5. /\ \A i \in 1 .. n : \E k \in 1 .. n : tests[k] = other[i]
        /\ \A k \in 1 .. n : \E i \in 1 .. n : other[i] = tests[k]
    <2>1. \A i \in 1 .. n : p[i] \in 1 .. n /\ other[i] = tests[p[i]]
      BY DEF Reordering
    <2> QED
      BY <2>1, ReorderingIsOnto, SameEntries
  <1>6. /\ FailuresAnywhere(m, 1 .. n, other) <=> FailuresAnywhere(m, 1 .. n, tests)
        /\ DisallowedSkip(m, other) <=> DisallowedSkip(m, tests)
    BY <1>1, <1>5, SameFailures
  <1>7. ASSUME CollectionMatches(m.expected_collection, CollectedIds(tests))
        PROVE  HasFailures(m, other) <=> HasFailures(m, tests)
    <2>1. ~Ambiguous(m, tests)
      <3> SUFFICES ASSUME Ambiguous(m, tests) PROVE FALSE
        OBVIOUS
      <3>1. \A id \in TestId : Occurrences(id, CollectedIds(tests)) <= 1
        BY <1>7 DEF CollectionMatches
      <3>2. \A i, k \in 1 .. n : tests[i].test_id = tests[k].test_id => i = k
        BY <1>1, <3>1, UniqueTests
      <3> QED
        BY <1>1, <3>2 DEF Ambiguous
    <2>2. ~Ambiguous(m, other)
      <3> SUFFICES ASSUME NEW i \in 1 .. n, NEW k \in 1 .. n,
                          other[i].test_id = other[k].test_id,
                          other[i].test_id \in m.required_pass_ids,
                          other[i].status = "passed", other[k].status = "skipped"
                   PROVE  FALSE
        BY <1>1 DEF Ambiguous
      <3>1. PICK a \in 1 .. n : tests[a] = other[i]
        BY <1>5
      <3>2. PICK b \in 1 .. n : tests[b] = other[k]
        BY <1>5
      <3> QED
        BY <1>1, <2>1, <3>1, <3>2 DEF Ambiguous
    <2>3. /\ HasFailures(m, tests) <=> FailuresAnywhere(m, 1 .. n, tests)
          /\ HasFailures(m, other) <=> FailuresAnywhere(m, 1 .. n, other)
      BY <1>1, <2>1, <2>2, FailuresOfClear
    <2> QED
      BY <1>6, <2>3
  <1> QED
    BY <1>2, <1>4, <1>6, <1>7, ParsedOutcome

\* Reordering the report does not change the outcome, unless a test that must pass
\* is listed as passed and as skipped and no collection of distinct tests is
\* expected.
THEOREM OrderIsIrrelevant == OutcomeSpec => []OrderDoesNotMatter
  <1>1. ClassifiedInv => OrderDoesNotMatter
    <2> SUFFICES ASSUME ClassifiedInv, result # Nil, manifest # Nil, report.kind = "good",
                        manifest.known_parser, capture.signs = {},
                        Ambiguous(manifest, report.tests) =>
                           /\ manifest.expected_collection # <<>>
                           /\ \A id \in TestId :
                                 Occurrences(id, manifest.expected_collection) <= 1,
                        NEW p \in [1 .. Len(report.tests) -> 1 .. Len(report.tests)],
                        \A i, k \in 1 .. Len(report.tests) : p[i] = p[k] => i = k
                 PROVE
          ParseTests(manifest, [i \in 1 .. Len(report.tests) |-> report.tests[p[i]]],
                     capture.exit_code).outcome = result.outcome
      BY DEF OrderDoesNotMatter
    <2>1. capture.signs \in SUBSET Sign /\ report \in Report
      BY DEF ClassifiedInv, Capture
    <2>2. result.outcome = ParseTests(manifest, report.tests, capture.exit_code).outcome
      BY <2>1, DecidedByTests DEF ClassifiedInv
    <2>3. report.tests \in Tuples(TestResult)
      BY <2>1, GoodReport
    <2>4. /\ Len(report.tests) \in Nat
          /\ report.tests \in [1 .. Len(report.tests) -> TestResult]
      BY <2>3, TupleFacts
    <2> DEFINE n == Len(report.tests)
               other == [i \in 1 .. n |-> report.tests[p[i]]]
    <2>5. /\ other \in [1 .. n -> TestResult]
          /\ \A i \in 1 .. n : other[i] = report.tests[p[i]]
      BY <2>4
    <2> HIDE DEF other
    <2>6. Reordering(n, report.tests, other, p)
      BY <2>4, <2>5 DEF Reordering
    <2>7. ParseTests(manifest, other, capture.exit_code).outcome = result.outcome
      BY <2>2, <2>6, ReorderedOutcome
    <2> QED
      BY <2>7 DEF other
  <1> QED
    BY <1>1, Classified, PTL

=============================================================================
