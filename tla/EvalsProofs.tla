---------------------------- MODULE EvalsProofs ----------------------------
(***************************************************************************)
(* Proofs about Evals, for every set of processes, every catalogue without *)
(* duplicate keys and every choice of faults.                              *)
(***************************************************************************)
EXTENDS Evals, FiniteSetTheorems, SequenceTheorems, WellFoundedInduction, TLAPS

\* A session that has a run, before and after a case, and when all are done.
Running == {"case", "insert", "update", "execute", "commit"}

\* What a request in progress has in hand, when known is the set of committed cases: the
\* rows of its session are those of its results, one for each case so far, in order.
ResultsOK(w, known) ==
  /\ w.run \in EvalRun
  /\ w.run.name = w.name
  /\ Len(w.run.results) = Len(w.results)
  /\ Len(w.results) <= Len(Catalogue)
  /\ \A i \in 1..Len(w.results) :
       /\ w.run.results[i] = RowOf(w.results[i])
       /\ w.results[i].case_key = Catalogue[i].key
       /\ w.results[i].passed = Passed(w.results[i].scorecard)
       /\ Catalogue[i].key \in known \cup w.cases

WorkOK(w, known) ==
  /\ w.pc \in {"baseline", "create"} => w.name \in Name /\ w.results = <<>>
  /\ w.pc \in Running => ResultsOK(w, known)
  /\ w.pc \in {"insert", "update", "execute"} => Len(w.results) < Len(Catalogue)
  /\ w.pc = "execute" => Catalogue[Len(w.results) + 1].key \in known \cup w.cases
  /\ w.pc = "commit" =>
       w.run.status = "COMPLETED" /\ Len(w.results) = Len(Catalogue)

\* The inductive invariant.
EvalsInv ==
  /\ TypeOK
  /\ CommittedRunsAreComplete
  /\ ReportMatchesRows
  /\ \A p \in Process : WorkOK(work[p], db.cases)

\* Storing a result and reading it back gives the result.
LEMMA RowRoundTrip ==
  ASSUME NEW r \in EvalResult
  PROVE  RowOf(r) \in ResultRow /\ ResultOf(RowOf(r)) = r
BY DEF EvalResult, ResultRow, RowOf, ResultOf

\* A scorecard of a case is that of an execution.
LEMMA ScorecardsDef ==
  ASSUME NEW c \in Cases, NEW scorecard \in Scorecards[c]
  PROVE  \E delivered, slow : scorecard = ScoreCase(c, ExecuteCase(c, delivered, slow))
<1> DEFINE D == {d \in {TRUE} \cup {FALSE : f \in Faults \cap {"tool"}} : HasResponse(c, d)}
           S == {FALSE} \cup {TRUE : f \in Faults \cap {"slow"}}
           Score(d, s) == ScoreCase(c, ExecuteCase(c, d, s))
<1>1. Scorecards[c] = {Score(d, s) : d \in D, s \in S}
  BY DEF Scorecards
<1> HIDE DEF D, S, Score
<1>2. \E d \in D, s \in S : scorecard = Score(d, s)
  BY <1>1
<1> QED
  BY <1>2 DEF Score

\* A scorecard has dimensions of the scoring only.
LEMMA ScorecardsType ==
  ASSUME NEW c \in Cases, NEW scorecard \in Scorecards[c]
  PROVE  scorecard \in SUBSET Dimension
<1>1. PICK delivered, slow : scorecard = ScoreCase(c, ExecuteCase(c, delivered, slow))
  BY ScorecardsDef
<1>2. \A output : ScoreCase(c, output) \in SUBSET Dimension
  BY DEF ScoreCase, Dimension
<1> QED
  BY <1>1, <1>2

\* The cases of the catalogue are cases, and their keys are keys.
LEMMA CatalogueKeys ==
  ASSUME NEW i \in 1..Len(Catalogue)
  PROVE  Catalogue[i] \in Cases /\ Catalogue[i].key \in Keys
BY EvalsAssumption DEF Keys, Cases

\* The length of the catalogue is a number.
LEMMA CatalogueLength == Len(Catalogue) \in Nat
BY EvalsAssumption, LenProperties

\* What a request has in hand stays right when other sessions commit more cases.
LEMMA WorkOKMonotone ==
  ASSUME NEW w \in Work, NEW known, NEW more, WorkOK(w, known)
  PROVE  WorkOK(w, known \cup more)
BY DEF WorkOK, ResultsOK

\* A step of one request that commits nothing and answers nothing.
LEMMA WorkStepKeepsInv ==
  ASSUME EvalsInv, NEW p \in Process, NEW w \in Work, WorkOK(w, db.cases),
         Update(p, w), UNCHANGED <<db, answer>>
  PROVE  EvalsInv'
<1>1. TypeOK'
  BY DEF EvalsInv, TypeOK, Update
<1>2. \A q \in Process : WorkOK(work[q], db.cases)'
  <2> TAKE q \in Process
  <2>1. WorkOK(work'[q], db.cases)
    BY DEF EvalsInv, TypeOK, Update
  <2> QED
    BY <2>1 DEF WorkOK, ResultsOK, Running
<1>3. CommittedRunsAreComplete'
  BY DEF EvalsInv, CommittedRunsAreComplete
<1>4. ReportMatchesRows'
  BY DEF EvalsInv, ReportMatchesRows
<1> QED
  BY <1>1, <1>2, <1>3, <1>4 DEF EvalsInv

\* Nothing has happened at first.
LEMMA InitEvalsInv == Init => EvalsInv
<1> SUFFICES ASSUME Init
             PROVE  EvalsInv
  OBVIOUS
<1>1. Idle \in Work /\ NoAnswer \in Answer
  BY DEF Idle, Work, NoAnswer, Answer
<1>2. TypeOK
  BY <1>1 DEF Init, TypeOK
<1>3. CommittedRunsAreComplete /\ ReportMatchesRows
  BY DEF Init, CommittedRunsAreComplete, ReportMatchesRows, NoAnswer
<1>4. \A p \in Process : WorkOK(work[p], db.cases)
  BY DEF Init, Idle, WorkOK, Running
<1> QED
  BY <1>2, <1>3, <1>4 DEF EvalsInv

\* A request's steps before and between its cases keep the invariant.
LEMMA SimpleStepsKeepInv ==
  ASSUME EvalsInv, NEW p \in Process,
         \/ LoadBaseline(p) \/ CreateRun(p) \/ FindCase(p) \/ InsertCase(p)
         \/ InsertConflict(p) \/ UpdateCase(p) \/ CaseRaises(p) \/ FinishRun(p)
  PROVE  EvalsInv'
<1>1. work[p] \in Work /\ WorkOK(work[p], db.cases)
  BY DEF EvalsInv, TypeOK
<1>3. CASE LoadBaseline(p)
  <2> DEFINE found == HasBaseline(work[p].name)
             w == [work[p] EXCEPT !.pc = IF found THEN "raising" ELSE "create",
                                  !.compared = found]
  <2>1. found \in BOOLEAN
    BY DEF HasBaseline
  <2>2. w \in Work
    BY <1>1, <2>1 DEF Work
  <2>3. WorkOK(w, db.cases)
    BY <1>1, <1>3 DEF LoadBaseline, WorkOK, Running, Work
  <2> QED
    BY <1>3, <2>2, <2>3, WorkStepKeepsInv DEF LoadBaseline
<1>4. CASE CreateRun(p)
  <2> DEFINE run == [name |-> work[p].name, status |-> "IN_PROGRESS", results |-> <<>>]
             w == [work[p] EXCEPT !.pc = "case", !.run = run]
  <2>1. work[p].name \in Name /\ work[p].results = <<>>
    BY <1>1, <1>4 DEF CreateRun, WorkOK
  <2>2. run \in EvalRun
    BY <2>1 DEF EvalRun
  <2>3. w \in Work
    BY <1>1, <2>2 DEF Work
  <2>4. WorkOK(w, db.cases)
    <3>1. w.pc = "case" /\ w.run = run /\ w.results = <<>> /\ w.name = run.name
      BY <1>1, <2>1 DEF Work
    <3>2. ResultsOK(w, db.cases)
      BY <2>2, <3>1, CatalogueLength DEF ResultsOK
    <3> QED
      BY <3>1, <3>2 DEF WorkOK
  <2> QED
    BY <1>4, <2>3, <2>4, WorkStepKeepsInv DEF CreateRun
<1>5. CASE FindCase(p)
  <2>0. PICK next \in IF Current(p).key \in db.cases \cup work[p].cases
                     THEN {"execute", "update"} ELSE {"insert"} :
          Update(p, [work[p] EXCEPT !.pc = next])
    BY <1>5 DEF FindCase
  <2> DEFINE w == [work[p] EXCEPT !.pc = next]
  <2>1. w \in Work
    BY <1>1 DEF Work
  <2>2. ResultsOK(work[p], db.cases)
    BY <1>1, <1>5 DEF FindCase, WorkOK, Running
  <2>3. WorkOK(w, db.cases)
    BY <1>1, <1>5, <2>2 DEF FindCase, WorkOK, Running, Work, Current, ResultsOK
  <2> QED
    BY <1>5, <2>0, <2>1, <2>3, WorkStepKeepsInv DEF FindCase
<1>6. CASE InsertCase(p) \/ UpdateCase(p)
  <2> DEFINE w == [work[p] EXCEPT !.pc = "execute", !.cases = @ \cup {Current(p).key}]
  <2>1. ResultsOK(work[p], db.cases) /\ Len(work[p].results) < Len(Catalogue)
    BY <1>1, <1>6 DEF InsertCase, UpdateCase, WorkOK, Running
  <2>2. Len(work[p].results) + 1 \in 1..Len(Catalogue)
    <3>1. Len(work[p].results) \in Nat
      BY <1>1, LenProperties DEF Work
    <3> QED
      BY <2>1, <3>1, CatalogueLength
  <2>3. Current(p).key \in Keys
    BY <2>2, CatalogueKeys DEF Current
  <2>4. w \in Work
    BY <1>1, <2>3 DEF Work
  <2>5. WorkOK(w, db.cases)
    BY <1>1, <2>1 DEF WorkOK, Running, Work, Current, ResultsOK
  <2> QED
    BY <1>6, <2>4, <2>5, WorkStepKeepsInv DEF InsertCase, UpdateCase
<1>7. CASE InsertConflict(p)
  <2> DEFINE w == [work[p] EXCEPT !.pc = "raising", !.cases = {}]
  <2>1. w \in Work /\ WorkOK(w, db.cases)
    BY <1>1 DEF Work, WorkOK, Running
  <2> QED
    BY <1>7, <2>1, WorkStepKeepsInv DEF InsertConflict
<1>8. CASE CaseRaises(p)
  <2> DEFINE w == [work[p] EXCEPT !.pc = "raising", !.run.status = "FAILED"]
  <2>1. work[p].run \in EvalRun
    BY <1>1, <1>8 DEF CaseRaises, WorkOK, ResultsOK, Running
  <2>2. w \in Work
    BY <1>1, <2>1 DEF Work, EvalRun
  <2>3. WorkOK(w, db.cases)
    BY <1>1 DEF Work, WorkOK, Running
  <2> QED
    BY <1>8, <2>2, <2>3, WorkStepKeepsInv DEF CaseRaises
<1>9. CASE FinishRun(p)
  <2> DEFINE w == [work[p] EXCEPT !.pc = "commit", !.run.status = "COMPLETED"]
  <2>1. ResultsOK(work[p], db.cases) /\ Len(work[p].results) = Len(Catalogue)
    BY <1>1, <1>9 DEF FinishRun, WorkOK, Running
  <2>2. work[p].run \in EvalRun
    BY <2>1 DEF ResultsOK
  <2>3. w.run \in EvalRun /\ w \in Work
    BY <1>1, <2>2 DEF Work, EvalRun
  <2>4. /\ w.run.name = work[p].run.name /\ w.run.results = work[p].run.results
        /\ w.name = work[p].name /\ w.results = work[p].results /\ w.cases = work[p].cases
        /\ w.run.status = "COMPLETED" /\ w.pc = "commit"
    BY <1>1, <2>2 DEF Work, EvalRun
  <2>5. ResultsOK(w, db.cases)
    BY <2>1, <2>3, <2>4 DEF ResultsOK
  <2>6. WorkOK(w, db.cases)
    BY <2>1, <2>4, <2>5 DEF WorkOK
  <2> QED
    BY <1>9, <2>3, <2>6, WorkStepKeepsInv DEF FinishRun
<1> QED
  BY <1>3, <1>4, <1>5, <1>6, <1>7, <1>8, <1>9

\* A crash ends sessions and commits nothing.
LEMMA CrashKeepsInv ==
  ASSUME EvalsInv, NEW p \in Process, Crash(p)
  PROVE  EvalsInv'
<1>1. Idle \in Work /\ \A known : WorkOK(Idle, known)
  BY DEF Idle, Work, WorkOK, Running
<1>2. TypeOK'
  BY <1>1 DEF EvalsInv, TypeOK, Crash
<1>3. \A q \in Process : WorkOK(work[q], db.cases)'
  <2> TAKE q \in Process
  <2>1. WorkOK(work'[q], db.cases)
    BY <1>1 DEF EvalsInv, Crash
  <2> QED
    BY <2>1 DEF Crash, WorkOK, ResultsOK, Running
<1>4. CommittedRunsAreComplete' /\ ReportMatchesRows'
  BY DEF EvalsInv, Crash, CommittedRunsAreComplete, ReportMatchesRows
<1> QED
  BY <1>2, <1>3, <1>4 DEF EvalsInv

\* A case that is done adds a row and a result that belong together.
LEMMA RunCaseKeepsInv ==
  ASSUME EvalsInv, NEW p \in Process, RunCase(p)
  PROVE  EvalsInv'
<1>0. PICK scorecard \in Scorecards[Current(p)] :
        LET result == [case_key |-> Current(p).key, passed |-> Passed(scorecard),
                       scorecard |-> scorecard]
        IN Update(p, [work[p] EXCEPT !.pc = "case",
                                     !.run.results = Append(@, RowOf(result)),
                                     !.results = Append(@, result)])
  BY DEF RunCase
<1> DEFINE n == Len(work[p].results)
           result == [case_key |-> Current(p).key, passed |-> Passed(scorecard),
                      scorecard |-> scorecard]
           run == [work[p].run EXCEPT !.results = Append(@, RowOf(result))]
           results == Append(work[p].results, result)
           w == [work[p] EXCEPT !.pc = "case",
                                !.run.results = Append(@, RowOf(result)),
                                !.results = Append(@, result)]
<1>1. work[p] \in Work /\ WorkOK(work[p], db.cases) /\ work[p].pc = "execute"
  BY DEF EvalsInv, TypeOK, RunCase
<1>2. /\ ResultsOK(work[p], db.cases) /\ n < Len(Catalogue)
      /\ Catalogue[n + 1].key \in db.cases \cup work[p].cases
  BY <1>1 DEF WorkOK, Running
<1>3. n \in Nat /\ n + 1 \in 1..Len(Catalogue)
  <2>1. n \in Nat
    BY <1>1, LenProperties DEF Work
  <2> QED
    BY <1>2, <2>1, CatalogueLength
<1>4. result \in EvalResult
  <2>1. Current(p) \in Cases /\ Current(p).key \in Keys
    BY <1>3, CatalogueKeys DEF Current
  <2>2. scorecard \in SUBSET Dimension
    BY <2>1, ScorecardsType
  <2>3. Passed(scorecard) \in BOOLEAN
    BY DEF Passed
  <2> QED
    BY <2>1, <2>2, <2>3 DEF EvalResult
<1>5. RowOf(result) \in ResultRow
  BY <1>4, RowRoundTrip
<1>6. work[p].run \in EvalRun /\ work[p].results \in Seq(EvalResult)
  BY <1>1, <1>2 DEF ResultsOK, Work
<1>7. work[p].run.results \in Seq(ResultRow) /\ Len(work[p].run.results) = n
  BY <1>2, <1>6 DEF ResultsOK, EvalRun
<1> HIDE DEF result
<1>8. /\ results \in Seq(EvalResult) /\ Len(results) = n + 1 /\ results[n + 1] = result
      /\ \A i \in 1..n : results[i] = work[p].results[i]
  BY <1>3, <1>4, <1>6, AppendProperties
<1>9. /\ Append(work[p].run.results, RowOf(result)) \in Seq(ResultRow)
      /\ Len(Append(work[p].run.results, RowOf(result))) = n + 1
      /\ Append(work[p].run.results, RowOf(result))[n + 1] = RowOf(result)
      /\ \A i \in 1..n : Append(work[p].run.results, RowOf(result))[i] = work[p].run.results[i]
  BY <1>3, <1>5, <1>7, AppendProperties
<1>10. run \in EvalRun /\ run.name = work[p].run.name
       /\ run.results = Append(work[p].run.results, RowOf(result))
  BY <1>6, <1>9 DEF EvalRun
<1>11. /\ w.pc = "case" /\ w.run = run /\ w.results = results
       /\ w.name = work[p].name /\ w.cases = work[p].cases
  BY <1>1, <1>6 DEF Work, EvalRun
<1>12. w \in Work
  BY <1>1, <1>8, <1>10, <1>6 DEF Work, EvalRun
<1>13. /\ result.case_key = Catalogue[n + 1].key
       /\ result.passed = Passed(result.scorecard)
  BY DEF result, Current
<1> HIDE DEF w, run, results, n
<1>14. ResultsOK(w, db.cases)
  <2>1. /\ w.run \in EvalRun /\ w.run.name = w.name
        /\ Len(w.run.results) = Len(w.results) /\ Len(w.results) <= Len(Catalogue)
    <3>1. work[p].run.name = work[p].name /\ n < Len(Catalogue)
      BY <1>2 DEF ResultsOK
    <3>2. Len(w.run.results) = n + 1 /\ Len(w.results) = n + 1
      BY <1>8, <1>9, <1>10, <1>11
    <3>3. n + 1 <= Len(Catalogue)
      BY <1>3, <3>1, CatalogueLength
    <3> QED
      BY <1>10, <1>11, <3>1, <3>2, <3>3
  <2>2. ASSUME NEW i \in 1..Len(w.results)
        PROVE  /\ w.run.results[i] = RowOf(w.results[i])
               /\ w.results[i].case_key = Catalogue[i].key
               /\ w.results[i].passed = Passed(w.results[i].scorecard)
               /\ Catalogue[i].key \in db.cases \cup w.cases
    <3>1. CASE i = n + 1
      BY <3>1, <1>2, <1>8, <1>9, <1>10, <1>11, <1>13
    <3>2. CASE i # n + 1
      <4>1. i \in 1..n
        BY <3>2, <1>3, <1>8, <1>11
      <4>2. i \in 1..Len(work[p].results)
        BY <4>1 DEF n
      <4> QED
        BY <4>1, <4>2, <1>2, <1>8, <1>9, <1>10, <1>11 DEF ResultsOK
    <3> QED
      BY <3>1, <3>2
  <2> QED
    BY <2>1, <2>2 DEF ResultsOK
<1>15. WorkOK(w, db.cases)
  BY <1>11, <1>14 DEF WorkOK
<1>16. Update(p, w) /\ UNCHANGED <<db, answer>>
  BY <1>0 DEF RunCase, w, result
<1> QED
  BY <1>12, <1>15, <1>16, WorkStepKeepsInv

\* A new request and a rollback put no row in question: they answer without a report.
LEMMA EndsKeepInv ==
  ASSUME EvalsInv, NEW p \in Process, Request(p) \/ Rollback(p)
  PROVE  EvalsInv'
<1> DEFINE a == [NoAnswer EXCEPT !.kind = "error", !.compared = work[p].compared]
<1>1. PICK w \in Work, b \in Answer :
        /\ Update(p, w) /\ WorkOK(w, db.cases)
        /\ answer' = [answer EXCEPT ![p] = b] /\ b.kind # "report"
        /\ db' = db
  <2>1. CASE Request(p)
    <3>1. PICK name \in Name, compare \in BOOLEAN :
            Update(p, [Idle EXCEPT !.pc = IF compare THEN "baseline" ELSE "create",
                                   !.name = name, !.compare = compare])
      BY <2>1 DEF Request
    <3> DEFINE v == [Idle EXCEPT !.pc = IF compare THEN "baseline" ELSE "create",
                                 !.name = name, !.compare = compare]
    <3>2. Idle \in Work
      BY DEF Work, Idle
    <3>3. v \in Work
      BY <3>2 DEF Work
    <3>4. /\ v.pc \in {"baseline", "create"} /\ v.name \in Name /\ v.results = <<>>
      BY DEF Idle
    <3>5. WorkOK(v, db.cases)
      BY <3>4 DEF WorkOK, Running
    <3>6. NoAnswer \in Answer /\ NoAnswer.kind # "report"
      BY DEF NoAnswer, Answer
    <3> QED
      BY <2>1, <3>1, <3>3, <3>5, <3>6 DEF Request
  <2>2. CASE Rollback(p)
    <3>1. work[p].compared \in BOOLEAN
      BY DEF EvalsInv, TypeOK, Work
    <3>2. a \in Answer /\ a.kind # "report"
      BY <3>1 DEF NoAnswer, Answer
    <3>3. Idle \in Work /\ WorkOK(Idle, db.cases)
      BY DEF Work, Idle, WorkOK, Running
    <3> QED
      BY <2>2, <3>2, <3>3 DEF Rollback
  <2> QED
    BY <2>1, <2>2
<1>2. TypeOK'
  BY <1>1 DEF EvalsInv, TypeOK, Update
<1>3. CommittedRunsAreComplete'
  BY <1>1 DEF EvalsInv, CommittedRunsAreComplete
<1>4. ReportMatchesRows'
  <2> SUFFICES ASSUME NEW q \in Process, answer'[q].kind = "report"
               PROVE  /\ answer'[q].row \in 1..Len(db'.runs)
                      /\ answer'[q].report = GetEvalReport(db'.runs[answer'[q].row])
    BY DEF ReportMatchesRows
  <2>1. answer'[q] = answer[q]
    BY <1>1 DEF EvalsInv, TypeOK
  <2> QED
    BY <1>1, <2>1 DEF EvalsInv, ReportMatchesRows
<1>5. \A q \in Process : WorkOK(work[q], db.cases)'
  <2> TAKE q \in Process
  <2>1. WorkOK(work'[q], db.cases)
    BY <1>1 DEF EvalsInv, TypeOK, Update
  <2> QED
    BY <1>1, <2>1 DEF WorkOK, ResultsOK, Running
<1> QED
  BY <1>2, <1>3, <1>4, <1>5 DEF EvalsInv

\* The positions of a sequence that satisfy a condition are finitely many.
LEMMA CountType ==
  ASSUME NEW n \in Nat, NEW S \in SUBSET (1..n)
  PROVE  Cardinality(S) \in Nat
<1>1. IsFiniteSet(1..n)
  BY FS_Interval
<1> QED
  BY <1>1, FS_Subset, FS_CardinalityType

\* A report on results is a report.
LEMMA BuildReportType ==
  ASSUME NEW name \in Name, NEW results \in Seq(EvalResult)
  PROVE  BuildReport(name, results) \in Report
<1> DEFINE n == Len(results)
           passed == {i \in 1..n : results[i].passed}
           scored(d) == {i \in 1..n : d \in results[i].scorecard}
<1>1. n \in Nat
  BY LenProperties
<1>2. Cardinality(passed) \in Nat
  <2>1. passed \in SUBSET (1..n)
    OBVIOUS
  <2> QED
    BY <1>1, <2>1, CountType
<1>3. \A d \in Dimension : Cardinality(scored(d)) \in Nat
  <2> TAKE d \in Dimension
  <2>1. scored(d) \in SUBSET (1..n)
    OBVIOUS
  <2> HIDE DEF scored, n
  <2> QED
    BY <1>1, <2>1, CountType
<1>4. [d \in Dimension |-> Cardinality(scored(d))] \in [Dimension -> Nat]
  BY <1>3
<1>5. BuildReport(name, results) =
        [run_name |-> name, total_cases |-> n, passed_cases |-> Cardinality(passed),
         dimensions |-> [d \in Dimension |-> Cardinality(scored(d))], results |-> results]
  BY DEF BuildReport
<1> HIDE DEF scored, n, passed
<1> QED
  BY <1>1, <1>2, <1>4, <1>5 DEF Report

\* Rows that belong to results give the report on these results.
LEMMA RebuiltReport ==
  ASSUME NEW run \in EvalRun, NEW results \in Seq(EvalResult),
         Len(run.results) = Len(results),
         \A i \in 1..Len(results) : run.results[i] = RowOf(results[i])
  PROVE  GetEvalReport(run) = BuildReport(run.name, results)
<1> DEFINE rebuilt == [i \in 1..Len(run.results) |-> ResultOf(run.results[i])]
<1>1. Len(results) \in Nat /\ results = [i \in 1..Len(results) |-> results[i]]
  BY LenProperties, SeqDef
<1>2. \A i \in 1..Len(results) : results[i] \in EvalResult
  BY ElementOfSeq
<1>3. \A i \in 1..Len(results) : ResultOf(run.results[i]) = results[i]
  BY <1>2, RowRoundTrip
<1>4. rebuilt = results
  BY <1>1, <1>3
<1> QED
  BY <1>4 DEF GetEvalReport

\* A commit adds a complete run, the report on it agrees with its rows, and what the other
\* sessions know stays true.
LEMMA CommitKeepsInv ==
  ASSUME EvalsInv, NEW p \in Process, Commit(p)
  PROVE  EvalsInv'
<1> DEFINE n == Len(db.runs)
           run == work[p].run
           report == BuildReport(work[p].name, work[p].results)
           a == [kind |-> "report", row |-> Len(db.runs) + 1,
                 report |-> BuildReport(work[p].name, work[p].results),
                 compared |-> work[p].compared, regression |-> FALSE]
<1>1. work[p] \in Work /\ WorkOK(work[p], db.cases) /\ work[p].pc = "commit"
  BY DEF EvalsInv, TypeOK, Commit
<1>2. /\ ResultsOK(work[p], db.cases)
      /\ run.status = "COMPLETED" /\ Len(work[p].results) = Len(Catalogue)
  BY <1>1 DEF WorkOK, Running
<1>3. /\ run \in EvalRun /\ run.name = work[p].name /\ work[p].name \in Name
      /\ work[p].results \in Seq(EvalResult) /\ work[p].cases \in SUBSET Keys
      /\ work[p].compared \in BOOLEAN
  BY <1>1, <1>2 DEF ResultsOK, Work, EvalRun
<1>4. /\ db \in [cases : SUBSET Keys, runs : Seq(EvalRun)]
      /\ work \in [Process -> Work] /\ answer \in [Process -> Answer]
  BY DEF EvalsInv, TypeOK
<1>5. n \in Nat
  BY <1>4, LenProperties
<1>6. /\ db'.cases = db.cases \cup work[p].cases /\ db'.runs = Append(db.runs, run)
      /\ db' = [cases |-> db'.cases, runs |-> db'.runs]
      /\ answer' = [answer EXCEPT ![p] = a]
      /\ work' = [work EXCEPT ![p] = Idle]
  BY DEF Commit, Update
<1>7. /\ db'.runs \in Seq(EvalRun) /\ Len(db'.runs) = n + 1 /\ db'.runs[n + 1] = run
      /\ \A i \in 1..n : db'.runs[i] = db.runs[i]
  BY <1>3, <1>4, <1>5, <1>6, AppendProperties
<1>8. report \in Report
  BY <1>3, BuildReportType
<1> HIDE DEF n, report
<1>9. a \in Answer /\ a.row = n + 1 /\ a.report = report
  BY <1>3, <1>5, <1>8 DEF Answer, n, report
<1>10. TypeOK'
  <2>1. db' \in [cases : SUBSET Keys, runs : Seq(EvalRun)]
    BY <1>3, <1>4, <1>6, <1>7
  <2>2. Idle \in Work
    BY DEF Idle, Work
  <2> HIDE DEF a
  <2> QED
    BY <1>4, <1>6, <1>9, <2>1, <2>2 DEF TypeOK
<1> HIDE DEF a, run
<1>11. \A j \in 1..Len(Catalogue) :
         /\ run.results[j].case_key = Catalogue[j].key
         /\ run.results[j].status = "PASSED" <=> Passed(run.results[j].scorecard)
  <2> TAKE j \in 1..Len(Catalogue)
  <2>1. /\ run.results[j] = RowOf(work[p].results[j])
        /\ work[p].results[j].case_key = Catalogue[j].key
        /\ work[p].results[j].passed = Passed(work[p].results[j].scorecard)
    BY <1>2 DEF ResultsOK, run
  <2> QED
    BY <2>1 DEF RowOf
<1>12. Keys \subseteq db'.cases
  <2> SUFFICES ASSUME NEW i \in 1..Len(Catalogue)
               PROVE  Catalogue[i].key \in db'.cases
    BY DEF Keys, Cases
  <2> QED
    BY <1>2, <1>6 DEF ResultsOK
<1>13. CommittedRunsAreComplete'
  <2> SUFFICES ASSUME NEW i \in 1..Len(db'.runs)
               PROVE  /\ db'.runs[i].status = "COMPLETED"
                      /\ Len(db'.runs[i].results) = Len(Catalogue)
                      /\ \A j \in 1..Len(Catalogue) :
                           /\ db'.runs[i].results[j].case_key = Catalogue[j].key
                           /\ db'.runs[i].results[j].status = "PASSED"
                                <=> Passed(db'.runs[i].results[j].scorecard)
                      /\ Keys \subseteq db'.cases
    BY DEF CommittedRunsAreComplete
  <2>1. CASE i = n + 1
    <3>1. Len(run.results) = Len(Catalogue)
      BY <1>2 DEF ResultsOK, run
    <3>2. run.status = "COMPLETED"
      BY <1>2 DEF run
    <3> QED
      BY <2>1, <3>1, <3>2, <1>7, <1>11, <1>12
  <2>2. CASE i # n + 1
    <3>1. i \in 1..Len(db.runs) /\ db'.runs[i] = db.runs[i]
      BY <2>2, <1>5, <1>7 DEF n
    <3> QED
      BY <3>1, <1>12 DEF EvalsInv, CommittedRunsAreComplete
  <2> QED
    BY <2>1, <2>2
<1>14. report = GetEvalReport(run)
  <2>1. /\ Len(run.results) = Len(work[p].results)
        /\ \A i \in 1..Len(work[p].results) : run.results[i] = RowOf(work[p].results[i])
        /\ run.name = work[p].name
    BY <1>2 DEF ResultsOK, run
  <2> QED
    BY <1>3, <2>1, RebuiltReport DEF report
<1>15. ReportMatchesRows'
  <2> SUFFICES ASSUME NEW q \in Process, answer'[q].kind = "report"
               PROVE  /\ answer'[q].row \in 1..Len(db'.runs)
                      /\ answer'[q].report = GetEvalReport(db'.runs[answer'[q].row])
    BY DEF ReportMatchesRows
  <2>1. CASE q = p
    <3>1. answer'[q] = a
      BY <1>4, <1>6, <2>1
    <3> QED
      BY <3>1, <1>5, <1>7, <1>9, <1>14
  <2>2. CASE q # p
    <3>1. answer'[q] = answer[q]
      BY <1>4, <1>6, <2>2
    <3>2. /\ answer[q].row \in 1..n
          /\ answer[q].report = GetEvalReport(db.runs[answer[q].row])
      BY <3>1 DEF EvalsInv, ReportMatchesRows, n
    <3>3. db'.runs[answer[q].row] = db.runs[answer[q].row]
      BY <3>2, <1>7
    <3> QED
      BY <3>1, <3>2, <3>3, <1>5, <1>7
  <2> QED
    BY <2>1, <2>2
<1>16. \A q \in Process : WorkOK(work[q], db.cases)'
  <2> TAKE q \in Process
  <2>1. work'[q] \in Work /\ WorkOK(work'[q], db.cases)
    <3>1. CASE q = p
      <4>1. work'[q] = Idle
        BY <3>1, <1>4, <1>6
      <4>2. Idle \in Work /\ WorkOK(Idle, db.cases)
        BY DEF Idle, Work, WorkOK, Running
      <4> QED
        BY <4>1, <4>2
    <3>2. CASE q # p
      <4>1. work'[q] = work[q]
        BY <3>2, <1>4, <1>6
      <4> QED
        BY <4>1, <1>4 DEF EvalsInv
    <3> QED
      BY <3>1, <3>2
  <2>2. WorkOK(work'[q], db'.cases)
    BY <1>6, <2>1, WorkOKMonotone
  <2> QED
    BY <2>2 DEF WorkOK, ResultsOK, Running
<1> QED
  BY <1>10, <1>13, <1>15, <1>16 DEF EvalsInv

\* Every step of every process keeps the invariant.
LEMMA NextKeepsInv == EvalsInv /\ [Next]_vars => EvalsInv'
<1> SUFFICES ASSUME EvalsInv, [Next]_vars
             PROVE  EvalsInv'
  OBVIOUS
<1>1. CASE UNCHANGED vars
  <2>1. db' = db /\ work' = work /\ answer' = answer
    BY <1>1 DEF vars
  <2>2. TypeOK' /\ CommittedRunsAreComplete'
    BY <2>1 DEF EvalsInv, TypeOK, CommittedRunsAreComplete
  <2>3. ReportMatchesRows'
    BY <2>1 DEF EvalsInv, ReportMatchesRows
  <2>4. \A p \in Process : WorkOK(work[p], db.cases)'
    BY <2>1 DEF EvalsInv, WorkOK, ResultsOK
  <2> QED
    BY <2>2, <2>3, <2>4 DEF EvalsInv
<1>2. ASSUME NEW p \in Process, Request(p) \/ Step(p) \/ Crash(p)
      PROVE  EvalsInv'
  <2>1. CASE Request(p) \/ Rollback(p)
    BY <2>1, EndsKeepInv
  <2>2. CASE Commit(p)
    BY <2>2, CommitKeepsInv
  <2>3. CASE RunCase(p)
    BY <2>3, RunCaseKeepsInv
  <2>4. CASE \/ LoadBaseline(p) \/ CreateRun(p) \/ FindCase(p) \/ InsertCase(p)
             \/ InsertConflict(p) \/ UpdateCase(p) \/ CaseRaises(p) \/ FinishRun(p)
    BY <2>4, SimpleStepsKeepInv
  <2>5. CASE Crash(p)
    BY <2>5, CrashKeepsInv
  <2> QED
    BY <1>2, <2>1, <2>2, <2>3, <2>4, <2>5 DEF Step
<1> QED
  BY <1>1, <1>2 DEF Next

\* The invariant holds always.
THEOREM EvalsInvariant == Spec => []EvalsInv
BY InitEvalsInv, NextKeepsInv, PTL DEF Spec

\* Every state is well typed: db, work and answer of the runner and its two callers.
THEOREM EvalsTypeCorrect == Spec => []TypeOK
<1>1. EvalsInv => TypeOK
  BY DEF EvalsInv
<1> QED
  BY <1>1, EvalsInvariant, PTL

\* Every committed eval run is complete and rated by its scorecards, whatever fails.
THEOREM RunsAreComplete == Spec => []CommittedRunsAreComplete
<1>1. EvalsInv => CommittedRunsAreComplete
  BY DEF EvalsInv
<1> QED
  BY <1>1, EvalsInvariant, PTL

\* A report that was given is the report the rows give ever after.
THEOREM ReportsMatchRows == Spec => []ReportMatchesRows
<1>1. EvalsInv => ReportMatchesRows
  BY DEF EvalsInv
<1> QED
  BY <1>1, EvalsInvariant, PTL

-----------------------------------------------------------------------------
(* No circular wait *)

\* The keys of the first n cases.
KeysUpTo(n) == {Catalogue[i].key : i \in 1..n}

\* A session writes the cases in their order: it holds no key beyond the case it is at.
HeldInOrder(w) ==
  /\ w.pc \in {"baseline", "create"} => w.cases = {}
  /\ w.pc \in {"case", "insert", "update"} => w.cases \subseteq KeysUpTo(Len(w.results))
  /\ w.pc = "execute" => w.cases \subseteq KeysUpTo(Len(w.results) + 1)

HeldInv == \A p \in Process : HeldInOrder(work[p])

\* The first n cases are among the first n + 1.
LEMMA KeysUpToGrow ==
  ASSUME NEW n \in Nat
  PROVE  KeysUpTo(n) \cup {Catalogue[n + 1].key} \subseteq KeysUpTo(n + 1)
<1>1. \A i \in 1..n : i \in 1..(n + 1)
  OBVIOUS
<1>2. n + 1 \in 1..(n + 1)
  OBVIOUS
<1> QED
  BY <1>1, <1>2 DEF KeysUpTo

\* A set of numbers has a least one.
LEMMA LeastNumber ==
  ASSUME NEW T \in SUBSET Nat, T # {}
  PROVE  \E m \in T : \A n \in T : m <= n
<1>1. PICK m \in T : \A n \in T : ~(<<n, m>> \in OpToRel(<, Nat))
  BY NatLessThanWellFounded, WFMin
<1>2. \A n \in T : ~(n < m)
  BY <1>1 DEF OpToRel
<1> QED
  BY <1>2

\* A step changes what its own session holds only, and a crash ends sessions.
LEMMA HeldStep ==
  ASSUME EvalsInv, HeldInv, [Next]_vars
  PROVE  HeldInv'
<1>1. \A q \in Process : work[q] \in Work /\ WorkOK(work[q], db.cases) /\ HeldInOrder(work[q])
  BY DEF EvalsInv, TypeOK, HeldInv
<1>2. work \in [Process -> Work]
  BY DEF EvalsInv, TypeOK
<1>3. HeldInOrder(Idle)
  BY DEF HeldInOrder, Idle
<1>4. ASSUME NEW p \in Process, NEW w, HeldInOrder(w), Update(p, w)
      PROVE  HeldInv'
  <2>1. \A q \in Process : HeldInOrder(work'[q])
    BY <1>1, <1>2, <1>4 DEF Update
  <2> QED
    BY <2>1 DEF HeldInv, HeldInOrder
<1>5. CASE UNCHANGED vars
  BY <1>5 DEF vars, HeldInv, HeldInOrder
<1>6. ASSUME NEW p \in Process, Crash(p)
      PROVE  HeldInv'
  <2>1. \A q \in Process : HeldInOrder(work'[q])
    BY <1>1, <1>3, <1>6 DEF Crash
  <2> QED
    BY <2>1 DEF HeldInv, HeldInOrder
<1>7. ASSUME NEW p \in Process, Request(p)
      PROVE  HeldInv'
  <2>1. PICK name \in Name, compare \in BOOLEAN :
          Update(p, [Idle EXCEPT !.pc = IF compare THEN "baseline" ELSE "create",
                                 !.name = name, !.compare = compare])
    BY <1>7 DEF Request
  <2> DEFINE w == [Idle EXCEPT !.pc = IF compare THEN "baseline" ELSE "create",
                               !.name = name, !.compare = compare]
  <2>2. HeldInOrder(w)
    BY DEF HeldInOrder, Idle
  <2> QED
    BY <1>4, <2>1, <2>2
<1>8. ASSUME NEW p \in Process, Commit(p) \/ Rollback(p)
      PROVE  HeldInv'
  BY <1>3, <1>4, <1>8 DEF Commit, Rollback
<1>9. ASSUME NEW p \in Process, LoadBaseline(p) \/ InsertConflict(p) \/ CaseRaises(p) \/ FinishRun(p)
      PROVE  HeldInv'
  <2>1. PICK w : Update(p, w) /\ HeldInOrder(w)
    <3>1. CASE LoadBaseline(p)
      <4> DEFINE found == HasBaseline(work[p].name)
                 w == [work[p] EXCEPT !.pc = IF found THEN "raising" ELSE "create",
                                      !.compared = found]
      <4>1. HeldInOrder(w)
        BY <1>1, <3>1 DEF LoadBaseline, HeldInOrder, Work
      <4> QED
        BY <3>1, <4>1 DEF LoadBaseline
    <3>2. CASE InsertConflict(p)
      <4> DEFINE w == [work[p] EXCEPT !.pc = "raising", !.cases = {}]
      <4>1. HeldInOrder(w)
        BY <1>1 DEF HeldInOrder, Work
      <4> QED
        BY <3>2, <4>1 DEF InsertConflict
    <3>3. CASE CaseRaises(p)
      <4> DEFINE w == [work[p] EXCEPT !.pc = "raising", !.run.status = "FAILED"]
      <4>1. HeldInOrder(w)
        BY <1>1 DEF HeldInOrder, Work
      <4> QED
        BY <3>3, <4>1 DEF CaseRaises
    <3>4. CASE FinishRun(p)
      <4> DEFINE w == [work[p] EXCEPT !.pc = "commit", !.run.status = "COMPLETED"]
      <4>1. HeldInOrder(w)
        BY <1>1 DEF HeldInOrder, Work
      <4> QED
        BY <3>4, <4>1 DEF FinishRun
    <3> QED
      BY <1>9, <3>1, <3>2, <3>3, <3>4
  <2> QED
    BY <1>4, <2>1
<1>10. ASSUME NEW p \in Process, CreateRun(p)
       PROVE  HeldInv'
  <2> DEFINE w == [work[p] EXCEPT !.pc = "case", !.run = [name |-> work[p].name,
                                    status |-> "IN_PROGRESS", results |-> <<>>]]
  <2>1. w.pc = "case" /\ w.cases = {}
    BY <1>1, <1>10 DEF CreateRun, HeldInOrder, Work
  <2>2. HeldInOrder(w)
    BY <2>1 DEF HeldInOrder
  <2> QED
    BY <1>4, <1>10, <2>2 DEF CreateRun
<1>11. ASSUME NEW p \in Process, FindCase(p)
       PROVE  HeldInv'
  <2>1. PICK next \in {"execute", "update", "insert"} : Update(p, [work[p] EXCEPT !.pc = next])
    BY <1>11 DEF FindCase
  <2> DEFINE w == [work[p] EXCEPT !.pc = next]
  <2>2. /\ w.pc = next /\ w.results = work[p].results /\ w.cases = work[p].cases
        /\ work[p].cases \subseteq KeysUpTo(Len(work[p].results))
    BY <1>1, <1>11 DEF FindCase, HeldInOrder, Work
  <2>3. Len(w.results) \in Nat
    BY <1>1, <2>2, LenProperties DEF Work
  <2>4. HeldInOrder(w)
    BY <2>2, <2>3, KeysUpToGrow DEF HeldInOrder
  <2> QED
    BY <1>4, <2>1, <2>4
<1>12. ASSUME NEW p \in Process, InsertCase(p) \/ UpdateCase(p)
       PROVE  HeldInv'
  <2> DEFINE w == [work[p] EXCEPT !.pc = "execute", !.cases = @ \cup {Current(p).key}]
  <2>1. /\ w.pc = "execute" /\ w.results = work[p].results
        /\ w.cases = work[p].cases \cup {Catalogue[Len(work[p].results) + 1].key}
        /\ work[p].cases \subseteq KeysUpTo(Len(work[p].results))
    BY <1>1, <1>12 DEF InsertCase, UpdateCase, HeldInOrder, Work, Current
  <2>2. Len(w.results) \in Nat
    BY <1>1, <2>1, LenProperties DEF Work
  <2>3. HeldInOrder(w)
    BY <2>1, <2>2, KeysUpToGrow DEF HeldInOrder
  <2> QED
    BY <1>4, <1>12, <2>3 DEF InsertCase, UpdateCase
<1>13. ASSUME NEW p \in Process, RunCase(p)
       PROVE  HeldInv'
  <2>1. PICK scorecard \in Scorecards[Current(p)] :
          LET result == [case_key |-> Current(p).key, passed |-> Passed(scorecard),
                         scorecard |-> scorecard]
          IN Update(p, [work[p] EXCEPT !.pc = "case",
                                       !.run.results = Append(@, RowOf(result)),
                                       !.results = Append(@, result)])
    BY <1>13 DEF RunCase
  <2> DEFINE result == [case_key |-> Current(p).key, passed |-> Passed(scorecard),
                        scorecard |-> scorecard]
             w == [work[p] EXCEPT !.pc = "case", !.run.results = Append(@, RowOf(result)),
                                  !.results = Append(@, result)]
  <2>2. /\ w.pc = "case" /\ w.results = Append(work[p].results, result)
        /\ w.cases = work[p].cases
        /\ work[p].cases \subseteq KeysUpTo(Len(work[p].results) + 1)
    BY <1>1, <1>13 DEF RunCase, HeldInOrder, Work
  <2>3. result \in EvalResult
    <3>1. /\ Len(work[p].results) \in Nat
          /\ Len(work[p].results) < Len(Catalogue)
      BY <1>1, <1>13, LenProperties DEF RunCase, Work, WorkOK
    <3>2. Len(work[p].results) + 1 \in 1..Len(Catalogue)
      BY <3>1, CatalogueLength
    <3>3. Current(p) \in Cases /\ Current(p).key \in Keys
      BY <3>2, CatalogueKeys DEF Current
    <3>4. scorecard \in SUBSET Dimension
      BY <3>3, ScorecardsType
    <3> QED
      BY <3>3, <3>4 DEF EvalResult, Passed
  <2> HIDE DEF result, w
  <2>4. Len(w.results) = Len(work[p].results) + 1
    <3>1. work[p].results \in Seq(EvalResult)
      BY <1>1 DEF Work
    <3> QED
      BY <2>2, <2>3, <3>1, AppendProperties
  <2>5. HeldInOrder(w)
    BY <2>2, <2>4 DEF HeldInOrder
  <2> QED
    BY <1>4, <2>1, <2>5 DEF w, result
<1> QED
  BY <1>5, <1>6, <1>7, <1>8, <1>9, <1>10, <1>11, <1>12, <1>13 DEF Next, Step

\* Who waits for another session is behind it: that one has come further in the catalogue.
LEMMA WaitersAreBehind ==
  ASSUME EvalsInv, HeldInv, NEW p \in Process, NEW q \in Process, WaitsFor(p, q),
         work[q].pc \in {"insert", "update"}
  PROVE  Len(work[p].results) < Len(work[q].results)
<1> DEFINE m == Len(work[p].results)
           n == Len(work[q].results)
<1>1. /\ m \in Nat /\ n \in Nat /\ m < Len(Catalogue) /\ n < Len(Catalogue)
  BY LenProperties DEF EvalsInv, TypeOK, WaitsFor, Work, WorkOK
<1>2. Catalogue[m + 1].key \in KeysUpTo(n)
  BY DEF WaitsFor, Current, HeldInv, HeldInOrder
<1>3. PICK i \in 1..n : Catalogue[i].key = Catalogue[m + 1].key
  BY <1>2 DEF KeysUpTo
<1>4. i \in 1..Len(Catalogue) /\ m + 1 \in 1..Len(Catalogue)
  BY <1>1, CatalogueLength
<1>5. i = m + 1
  BY <1>3, <1>4, EvalsAssumption
<1> QED
  BY <1>1, <1>5

\* For any number of processes, every catalogue without duplicate keys and every choice of
\* faults: no sessions wait for each other in a circle, since who has come furthest waits for
\* nobody who waits.
THEOREM WaitsAreNotCircular == Spec => []NoCircularWait
<1>1. Init => HeldInv
  <2>1. HeldInOrder(Idle)
    BY DEF HeldInOrder, Idle
  <2> QED
    BY <2>1 DEF Init, HeldInv, HeldInOrder
<1>2. ASSUME EvalsInv, HeldInv
      PROVE  NoCircularWait
  <2> SUFFICES ASSUME NEW S \in SUBSET Process, S # {}
               PROVE  \E p \in S : \A q \in S : ~WaitsFor(p, q)
    BY DEF NoCircularWait
  <2>1. CASE \E p \in S : work[p].pc \notin {"insert", "update"}
    BY <2>1 DEF WaitsFor
  <2>2. CASE \A p \in S : work[p].pc \in {"insert", "update"}
    <3> DEFINE left(p) == Len(Catalogue) - Len(work[p].results)
               T == {left(p) : p \in S}
    <3>1. ASSUME NEW p \in S
          PROVE  Len(work[p].results) \in Nat /\ left(p) \in Nat
      <4>1. Len(work[p].results) \in Nat
        BY <1>2, LenProperties DEF EvalsInv, TypeOK, Work
      <4>2. Len(work[p].results) < Len(Catalogue)
        BY <1>2, <2>2 DEF EvalsInv, WorkOK
      <4> QED
        BY <4>1, <4>2, CatalogueLength
    <3>2. T \in SUBSET Nat /\ T # {}
      BY <3>1
    <3>3. PICK p \in S : \A q \in S : left(p) <= left(q)
      <4>1. PICK m \in T : \A n \in T : m <= n
        <5> HIDE DEF T
        <5> QED
          BY <3>2, LeastNumber
      <4> QED
        BY <4>1
    <3>4. \A q \in S : ~(Len(work[p].results) < Len(work[q].results))
      BY <3>1, <3>3, CatalogueLength
    <3>5. \A q \in S : ~WaitsFor(p, q)
      BY <1>2, <2>2, <3>4, WaitersAreBehind
    <3> QED
      BY <3>5
  <2> QED
    BY <2>1, <2>2
<1>3. EvalsInv /\ HeldInv /\ [Next]_vars => HeldInv'
  BY HeldStep
<1> QED
  BY <1>1, <1>2, <1>3, EvalsInvariant, PTL DEF Spec

-----------------------------------------------------------------------------
(* Passed cases are grounded *)

Grounded(c, scorecard) ==
  ExpectsCitation(c) /\ Passed(scorecard) => "citation_presence" \in scorecard

\* What is scored but not committed is grounded as well.
GroundedWork(w) ==
  w.pc \in Running => \A i \in 1..Len(w.results) : Grounded(Catalogue[i], w.results[i].scorecard)

GroundedInv ==
  /\ PassedCasesAreGrounded
  /\ \A p \in Process : GroundedWork(work[p])

\* The dimensions that a missing citation does not cost are too few to pass.
LEMMA FiveDoNotPass ==
  ASSUME NEW scorecard \in SUBSET {"tool_choice", "approval_trigger", "format_correctness",
                                   "latency_signal", "cost_signal"}
  PROVE  ~Passed(scorecard)
<1> DEFINE one == {"groundedness"}
           two == one \cup {"tool_choice"}
           three == two \cup {"approval_trigger"}
           four == three \cup {"response_usefulness"}
           five == four \cup {"format_correctness"}
           six == five \cup {"citation_presence"}
           seven == six \cup {"latency_signal"}
           a == {"tool_choice"}
           b == a \cup {"approval_trigger"}
           c == b \cup {"format_correctness"}
           d == c \cup {"latency_signal"}
           e == d \cup {"cost_signal"}
<1>1. Dimension = seven \cup {"cost_signal"}
  BY DEF Dimension
<1>2. Cardinality(Dimension) = 8
  <2>1. IsFiniteSet(one) /\ Cardinality(one) = 1
    BY FS_Singleton
  <2>2. IsFiniteSet(two) /\ Cardinality(two) = 2
    BY <2>1, FS_AddElement
  <2>3. IsFiniteSet(three) /\ Cardinality(three) = 3
    BY <2>2, FS_AddElement
  <2>4. IsFiniteSet(four) /\ Cardinality(four) = 4
    BY <2>3, FS_AddElement
  <2>5. IsFiniteSet(five) /\ Cardinality(five) = 5
    BY <2>4, FS_AddElement
  <2>6. IsFiniteSet(six) /\ Cardinality(six) = 6
    BY <2>5, FS_AddElement
  <2>7. IsFiniteSet(seven) /\ Cardinality(seven) = 7
    BY <2>6, FS_AddElement
  <2> QED
    BY <1>1, <2>7, FS_AddElement
<1>3. IsFiniteSet(e) /\ Cardinality(e) = 5
  <2>1. IsFiniteSet(a) /\ Cardinality(a) = 1
    BY FS_Singleton
  <2>2. IsFiniteSet(b) /\ Cardinality(b) = 2
    BY <2>1, FS_AddElement
  <2>3. IsFiniteSet(c) /\ Cardinality(c) = 3
    BY <2>2, FS_AddElement
  <2>4. IsFiniteSet(d) /\ Cardinality(d) = 4
    BY <2>3, FS_AddElement
  <2> QED
    BY <2>4, FS_AddElement
<1>4. scorecard \in SUBSET e
  OBVIOUS
<1> HIDE DEF e
<1>5. IsFiniteSet(scorecard) /\ Cardinality(scorecard) <= 5
  BY <1>3, <1>4, FS_Subset
<1>6. Cardinality(scorecard) \in Nat
  BY <1>5, FS_CardinalityType
<1> QED
  BY <1>2, <1>5, <1>6 DEF Passed

\* A text without the expected citation has not the expected words either.  (_build_response
\* with score_case)
LEMMA ScorecardsAreGrounded ==
  ASSUME NEW c \in Cases, NEW scorecard \in Scorecards[c]
  PROVE  Grounded(c, scorecard)
<1>0. PICK delivered, slow : scorecard = ScoreCase(c, ExecuteCase(c, delivered, slow))
  BY ScorecardsDef
<1> DEFINE output == ExecuteCase(c, delivered, slow)
<1> SUFFICES ASSUME ExpectsCitation(c), "citation_presence" \notin scorecard
             PROVE  ~Passed(scorecard)
  BY DEF Grounded
<1>1. ~(output.citations >= c.min_citations)
  BY <1>0 DEF ScoreCase
<1>2. output.response_text # "snippet"
  BY <1>1 DEF ExpectsCitation, ExecuteCase
<1>3. output.response_text \notin c.response_contains
  BY <1>2 DEF ExpectsCitation
<1>4. scorecard = ScoreCase(c, output)
  BY <1>0
<1> HIDE DEF output
<1>5. scorecard \in SUBSET {"tool_choice", "approval_trigger", "format_correctness",
                            "latency_signal", "cost_signal"}
  BY <1>1, <1>3, <1>4 DEF ScoreCase
<1> QED
  BY <1>5, FiveDoNotPass

\* A step of one request that commits nothing.
LEMMA WorkStepIsGrounded ==
  ASSUME TypeOK, GroundedInv, NEW p \in Process, NEW w, GroundedWork(w), Update(p, w), db' = db
  PROVE  GroundedInv'
<1>1. \A q \in Process : GroundedWork(work'[q])
  BY DEF TypeOK, GroundedInv, Update
<1>2. (\A q \in Process : GroundedWork(work[q]))'
  BY <1>1 DEF GroundedWork
<1>3. PassedCasesAreGrounded'
  BY DEF GroundedInv, PassedCasesAreGrounded
<1> QED
  BY <1>2, <1>3 DEF GroundedInv

\* A case that is done adds a grounded scorecard.
LEMMA RunCaseIsGrounded ==
  ASSUME EvalsInv, GroundedInv, NEW p \in Process, RunCase(p)
  PROVE  GroundedInv'
<1>0. PICK scorecard \in Scorecards[Current(p)] :
        LET result == [case_key |-> Current(p).key, passed |-> Passed(scorecard),
                       scorecard |-> scorecard]
        IN Update(p, [work[p] EXCEPT !.pc = "case",
                                     !.run.results = Append(@, RowOf(result)),
                                     !.results = Append(@, result)])
  BY DEF RunCase
<1> DEFINE n == Len(work[p].results)
           result == [case_key |-> Current(p).key, passed |-> Passed(scorecard),
                      scorecard |-> scorecard]
           w == [work[p] EXCEPT !.pc = "case",
                                !.run.results = Append(@, RowOf(result)),
                                !.results = Append(@, result)]
<1>1. work[p] \in Work /\ WorkOK(work[p], db.cases) /\ work[p].pc = "execute"
  BY DEF EvalsInv, TypeOK, RunCase
<1>2. n \in Nat /\ n + 1 \in 1..Len(Catalogue)
  <2>1. n \in Nat
    BY <1>1, LenProperties DEF Work
  <2> QED
    BY <1>1, <2>1, CatalogueLength DEF WorkOK
<1>3. result \in EvalResult
  <2>1. Current(p) \in Cases /\ Current(p).key \in Keys
    BY <1>2, CatalogueKeys DEF Current
  <2>2. scorecard \in SUBSET Dimension
    BY <2>1, ScorecardsType
  <2>3. Passed(scorecard) \in BOOLEAN
    BY DEF Passed
  <2> QED
    BY <2>1, <2>2, <2>3 DEF EvalResult
<1>4. Grounded(Catalogue[n + 1], result.scorecard)
  BY <1>2, CatalogueKeys, ScorecardsAreGrounded DEF Current
<1>5. w.pc = "case" /\ w.results = Append(work[p].results, result)
  BY <1>1 DEF Work
<1>6. Update(p, w) /\ db' = db
  BY <1>0 DEF RunCase
<1> HIDE DEF result, w
<1>7. /\ Len(w.results) = n + 1 /\ w.results[n + 1] = result
      /\ \A i \in 1..n : w.results[i] = work[p].results[i]
  <2>1. work[p].results \in Seq(EvalResult)
    BY <1>1 DEF Work
  <2> QED
    BY <1>3, <1>5, <2>1, AppendProperties
<1>8. \A i \in 1..n : Grounded(Catalogue[i], work[p].results[i].scorecard)
  BY <1>1 DEF GroundedInv, GroundedWork, Running
<1> HIDE DEF n
<1>9. \A i \in 1..Len(w.results) : i = n + 1 \/ i \in 1..n
  BY <1>2, <1>7
<1>10. GroundedWork(w)
  BY <1>4, <1>7, <1>8, <1>9 DEF GroundedWork
<1> QED
  BY <1>6, <1>10, WorkStepIsGrounded DEF EvalsInv

\* A commit publishes the rows of results that are grounded.
LEMMA CommitIsGrounded ==
  ASSUME EvalsInv, GroundedInv, NEW p \in Process, Commit(p)
  PROVE  GroundedInv'
<1> DEFINE n == Len(db.runs)
           w == work[p]
<1>1. w \in Work /\ WorkOK(w, db.cases) /\ w.pc = "commit"
  BY DEF EvalsInv, TypeOK, Commit
<1>2. ResultsOK(w, db.cases) /\ Len(w.results) = Len(Catalogue)
  BY <1>1 DEF WorkOK, Running
<1>3. db.runs \in Seq(EvalRun) /\ n \in Nat
  BY LenProperties DEF EvalsInv, TypeOK
<1>4. db'.runs = Append(db.runs, w.run) /\ Update(p, Idle)
  BY DEF Commit
<1> HIDE DEF w
<1>5. /\ Len(db'.runs) = n + 1 /\ db'.runs[n + 1] = w.run
      /\ \A i \in 1..n : db'.runs[i] = db.runs[i]
  BY <1>2, <1>3, <1>4, AppendProperties DEF ResultsOK
<1>6. ASSUME NEW j \in 1..Len(Catalogue), ExpectsCitation(Catalogue[j]),
             w.run.results[j].status = "PASSED"
      PROVE  "citation_presence" \in w.run.results[j].scorecard
  <2>1. Grounded(Catalogue[j], w.results[j].scorecard)
    BY <1>1, <1>2 DEF GroundedInv, GroundedWork, Running, w
  <2>2. w.run.results[j] = RowOf(w.results[j]) /\ w.results[j].passed = Passed(w.results[j].scorecard)
    BY <1>2 DEF ResultsOK
  <2>3. w.run.results[j].scorecard = w.results[j].scorecard /\ w.results[j].passed
    BY <1>6, <2>2 DEF RowOf
  <2> QED
    BY <1>6, <2>1, <2>2, <2>3 DEF Grounded
<1>7. PassedCasesAreGrounded'
  <2> SUFFICES ASSUME NEW i \in 1..Len(db'.runs), NEW j \in 1..Len(Catalogue),
                      ExpectsCitation(Catalogue[j]), db'.runs[i].results[j].status = "PASSED"
               PROVE  "citation_presence" \in db'.runs[i].results[j].scorecard
    BY DEF PassedCasesAreGrounded
  <2>1. i = n + 1 \/ i \in 1..n
    BY <1>3, <1>5
  <2>2. CASE i = n + 1
    BY <1>5, <1>6, <2>2
  <2>3. CASE i \in 1..n
    BY <1>5, <2>3 DEF GroundedInv, PassedCasesAreGrounded
  <2> QED
    BY <2>1, <2>2, <2>3
<1>8. \A q \in Process : GroundedWork(work'[q])
  BY <1>4 DEF GroundedInv, GroundedWork, Update, EvalsInv, TypeOK, Idle, Running
<1>9. (\A q \in Process : GroundedWork(work[q]))'
  BY <1>8 DEF GroundedWork
<1> QED
  BY <1>7, <1>9 DEF GroundedInv

\* The other steps score nothing.
LEMMA OtherStepsAreGrounded ==
  ASSUME EvalsInv, GroundedInv, NEW p \in Process,
         \/ Request(p) \/ LoadBaseline(p) \/ CreateRun(p) \/ FindCase(p) \/ InsertCase(p)
         \/ InsertConflict(p) \/ UpdateCase(p) \/ CaseRaises(p) \/ FinishRun(p) \/ Rollback(p)
  PROVE  GroundedInv'
<1>1. work[p] \in Work /\ WorkOK(work[p], db.cases) /\ GroundedWork(work[p])
  BY DEF EvalsInv, TypeOK, GroundedInv
<1>2. ASSUME NEW w, Update(p, w), db' = db,
             \/ w.pc \notin Running
             \/ w.results = <<>>
             \/ w.results = work[p].results /\ work[p].pc \in Running
      PROVE  GroundedInv'
  <2>1. GroundedWork(w)
    BY <1>1, <1>2 DEF GroundedWork
  <2> QED
    BY <1>2, <2>1, WorkStepIsGrounded DEF EvalsInv
<1>3. CASE Request(p)
  <2>1. PICK name \in Name, compare \in BOOLEAN :
          Update(p, [Idle EXCEPT !.pc = IF compare THEN "baseline" ELSE "create",
                                 !.name = name, !.compare = compare])
    BY <1>3 DEF Request
  <2> DEFINE w == [Idle EXCEPT !.pc = IF compare THEN "baseline" ELSE "create",
                               !.name = name, !.compare = compare]
  <2>2. w.results = <<>>
    BY DEF Idle
  <2> HIDE DEF w
  <2> QED
    BY <1>2, <1>3, <2>1, <2>2 DEF Request, w
<1>4. CASE LoadBaseline(p)
  <2> DEFINE w == [work[p] EXCEPT
                     !.pc = IF HasBaseline(work[p].name) THEN "raising" ELSE "create",
                     !.compared = HasBaseline(work[p].name)]
  <2>1. w.pc \notin Running
    BY <1>1 DEF Work, Running
  <2>2. Update(p, w) /\ db' = db
    BY <1>4 DEF LoadBaseline
  <2> QED
    BY <1>2, <2>1, <2>2
<1>5. CASE CreateRun(p)
  <2> DEFINE run == [name |-> work[p].name, status |-> "IN_PROGRESS", results |-> <<>>]
             w == [work[p] EXCEPT !.pc = "case", !.run = run]
  <2>1. w.results = <<>>
    BY <1>1, <1>5 DEF CreateRun, WorkOK, Work
  <2>2. Update(p, w) /\ db' = db
    BY <1>5 DEF CreateRun
  <2> QED
    BY <1>2, <2>1, <2>2
<1>6. CASE FindCase(p)
  <2>0. PICK next : Update(p, [work[p] EXCEPT !.pc = next])
    BY <1>6 DEF FindCase
  <2> DEFINE w == [work[p] EXCEPT !.pc = next]
  <2>1. w.results = work[p].results /\ work[p].pc \in Running
    BY <1>1, <1>6 DEF FindCase, Work, Running
  <2>2. Update(p, w) /\ db' = db
    BY <1>6, <2>0 DEF FindCase
  <2> QED
    BY <1>2, <2>1, <2>2
<1>7. CASE InsertCase(p) \/ UpdateCase(p)
  <2> DEFINE w == [work[p] EXCEPT !.pc = "execute", !.cases = @ \cup {Current(p).key}]
  <2>1. w.results = work[p].results /\ work[p].pc \in Running
    BY <1>1, <1>7 DEF InsertCase, UpdateCase, Work, Running
  <2>2. Update(p, w) /\ db' = db
    BY <1>7 DEF InsertCase, UpdateCase
  <2> QED
    BY <1>2, <2>1, <2>2
<1>8. CASE InsertConflict(p)
  <2> DEFINE w == [work[p] EXCEPT !.pc = "raising", !.cases = {}]
  <2>1. w.pc \notin Running
    BY <1>1 DEF Work, Running
  <2>2. Update(p, w) /\ db' = db
    BY <1>8 DEF InsertConflict
  <2> QED
    BY <1>2, <2>1, <2>2
<1>9. CASE CaseRaises(p)
  <2> DEFINE w == [work[p] EXCEPT !.pc = "raising", !.run.status = "FAILED"]
  <2>1. w.pc \notin Running
    BY <1>1 DEF Work, Running
  <2>2. Update(p, w) /\ db' = db
    BY <1>9 DEF CaseRaises
  <2> QED
    BY <1>2, <2>1, <2>2
<1>10. CASE FinishRun(p)
  <2> DEFINE w == [work[p] EXCEPT !.pc = "commit", !.run.status = "COMPLETED"]
  <2>1. w.results = work[p].results /\ work[p].pc \in Running
    BY <1>1, <1>10 DEF FinishRun, Work, Running
  <2>2. Update(p, w) /\ db' = db
    BY <1>10 DEF FinishRun
  <2> QED
    BY <1>2, <2>1, <2>2
<1>11. CASE Rollback(p)
  <2>1. Idle.pc \notin Running
    BY DEF Idle, Running
  <2>2. Update(p, Idle) /\ db' = db
    BY <1>11 DEF Rollback
  <2> QED
    BY <1>2, <2>1, <2>2
<1> QED
  BY <1>3, <1>4, <1>5, <1>6, <1>7, <1>8, <1>9, <1>10, <1>11

\* For any catalogue, processes and faults: a case that expects a citation and words that only
\* a text with a citation has is not stored as passed without one.
THEOREM PassedAreGrounded == Spec => []PassedCasesAreGrounded
<1>1. Init => GroundedInv
  <2> SUFFICES ASSUME Init
               PROVE  GroundedInv
    OBVIOUS
  <2>1. PassedCasesAreGrounded
    BY DEF Init, PassedCasesAreGrounded
  <2>2. \A p \in Process : work[p].pc \notin Running
    BY DEF Init, Idle, Running
  <2> QED
    BY <2>1, <2>2 DEF GroundedInv, GroundedWork
<1>2. ASSUME EvalsInv, GroundedInv, [Next]_vars
      PROVE  GroundedInv'
  <2>1. CASE UNCHANGED vars
    BY <1>2, <2>1 DEF vars, GroundedInv, GroundedWork, PassedCasesAreGrounded
  <2>2. ASSUME NEW p \in Process, Crash(p)
        PROVE  GroundedInv'
    <3>1. \A q \in Process : GroundedWork(work'[q])
      BY <1>2, <2>2 DEF Crash, GroundedInv, GroundedWork, Idle, Running
    <3>2. (\A q \in Process : GroundedWork(work[q]))'
      BY <3>1 DEF GroundedWork
    <3>3. PassedCasesAreGrounded'
      BY <1>2, <2>2 DEF Crash, GroundedInv, PassedCasesAreGrounded
    <3> QED
      BY <3>2, <3>3 DEF GroundedInv
  <2>3. ASSUME NEW p \in Process, Request(p) \/ Step(p)
        PROVE  GroundedInv'
    <3>1. CASE RunCase(p)
      BY <1>2, <3>1, RunCaseIsGrounded
    <3>2. CASE Commit(p)
      BY <1>2, <3>2, CommitIsGrounded
    <3>3. CASE \/ Request(p) \/ LoadBaseline(p) \/ CreateRun(p) \/ FindCase(p) \/ InsertCase(p)
               \/ InsertConflict(p) \/ UpdateCase(p) \/ CaseRaises(p) \/ FinishRun(p) \/ Rollback(p)
      BY <1>2, <3>3, OtherStepsAreGrounded
    <3> QED
      BY <2>3, <3>1, <3>2, <3>3 DEF Step
  <2> QED
    BY <1>2, <2>1, <2>2, <2>3 DEF Next
<1>3. GroundedInv => PassedCasesAreGrounded
  BY DEF GroundedInv
<1> QED
  BY <1>1, <1>2, <1>3, EvalsInvariant, PTL DEF Spec
=============================================================================
