--------------------------- MODULE ExecutionStats ---------------------------
(***************************************************************************)
(* The statistics of src/src/db.rs: get_stats asks the executions table    *)
(* five questions one after the other, each in a transaction of its own,   *)
(* while other connections of the pool keep recording executions.          *)
(*                                                                         *)
(* created_at is stored and ordered as text.  A timestamp is scaled down   *)
(* to one digit of seconds and one bit for each of the three groups of     *)
(* three decimals that DateTime<Utc>::to_rfc3339 writes as needed.         *)
(* Average times are left out.                                             *)
(***************************************************************************)
EXTENDS Naturals, FiniteSets, Sequences

Sets == INSTANCE FiniteSetsExt

CONSTANTS
  Languages,
  Times,    \* what Utc::now() may read, in eighths of a second
  Limit,    \* of get_recent_executions
  MaxRows   \* bounds the table

ASSUME TimesAssumption == Times \subseteq Nat
ASSUME LimitAssumption == Limit \in Nat \ {0}
ASSUME MaxRowsAssumption == MaxRows \in Nat

VARIABLES
  rows,    \* the executions table, in the order of insertion
  pending, \* the questions that get_stats has yet to ask
  report   \* the answers it has so far

statsVars == <<rows, pending, report>>

Row == [language : Languages, success : BOOLEAN, created_at : Times]

\* Mutant of Questions: the successes are counted before the total.
QuestionsSwapped == <<"successful", "total", "by_language", "recent">>

\* The order in which get_stats awaits its queries.
Questions == <<"total", "successful", "by_language", "recent">>

NoReport ==
  [total |-> 0, successful |-> 0, by_language |-> [l \in {} |-> 0],
   recent |-> << >>]

-----------------------------------------------------------------------------
(* Timestamps as text, each character as its code.                         *)

Plus == 43
Dot == 46
Digit(d) == 48 + d
Zulu == 90

\* As many groups of decimals as it takes to leave none out but zeros.
Decimals(t) ==
  LET half == Digit((t \div 4) % 2)
      quarter == Digit((t \div 2) % 2)
      eighth == Digit(t % 2)
  IN  CASE t % 8 = 0 -> << >>
        [] t % 8 = 4 -> <<Dot, half>>
        [] t % 4 = 2 -> <<Dot, half, quarter>>
        [] OTHER -> <<Dot, half, quarter, eighth>>

\* Mutant of Rfc3339: the offset is written as Z.
Rfc3339Zulu(t) == <<Digit(t \div 8)>> \o Decimals(t) \o <<Zulu>>

\* Seconds, decimals and the offset "+00:00" of UTC.
Rfc3339(t) == <<Digit(t \div 8)>> \o Decimals(t) \o <<Plus>>

\* The order of TEXT columns; no timestamp is a prefix of another.
TextBefore(s, t) ==
  \E i \in DOMAIN s \cap DOMAIN t :
    s[i] < t[i] /\ \A j \in 1 .. i - 1 : s[j] = t[j]

Older(row1, row2) ==
  TextBefore(Rfc3339(row1.created_at), Rfc3339(row2.created_at))

-----------------------------------------------------------------------------
(* The questions, as functions of the table.                               *)

Of(language) == {i \in DOMAIN rows : rows[i].language = language}
Succeeded == {i \in DOMAIN rows : rows[i].success}
Known == {rows[i].language : i \in DOMAIN rows}

\* Mutant of LanguageStats: languages without a success are left out.
SuccessfulLanguages ==
  [l \in {rows[i].language : i \in Succeeded} |->
     [count |-> Cardinality(Of(l)),
      success_count |-> Cardinality(Of(l) \cap Succeeded)]]

\* get_language_stats, one group for each language in the table.
LanguageStats ==
  [l \in Known |-> [count |-> Cardinality(Of(l)),
                    success_count |-> Cardinality(Of(l) \cap Succeeded)]]

\* The lists ORDER BY created_at DESC may return the first n of.
NewestFirst(n) ==
  LET length == IF Len(rows) < n THEN Len(rows) ELSE n
      Listed(s) == {s[i] : i \in DOMAIN s}
  IN  {s \in [1 .. length -> DOMAIN rows] :
         /\ \A i, j \in 1 .. length :
              i < j => s[i] # s[j] /\ ~Older(rows[s[i]], rows[s[j]])
         /\ \A k \in DOMAIN rows \ Listed(s) :
              \A i \in 1 .. length : ~Older(rows[s[i]], rows[k])}

\* Mutant of Recent: one row too many.
RecentAndOne(limit) == NewestFirst(limit + 1)

\* get_recent_executions(limit), as lists of row numbers.
Recent(limit) == NewestFirst(limit)

-----------------------------------------------------------------------------

Init ==
  /\ rows = << >>
  /\ pending = Questions
  /\ report = NoReport

\* record_execution on another connection.
RecordExecution ==
  /\ Len(rows) < MaxRows
  /\ \E row \in Row : rows' = Append(rows, row)
  /\ UNCHANGED <<pending, report>>

\* A query of get_stats whose answer goes into the report.
Ask(question, newReport) ==
  /\ pending # << >>
  /\ Head(pending) = question
  /\ pending' = Tail(pending)
  /\ report' = newReport
  /\ UNCHANGED rows

AskTotal == Ask("total", [report EXCEPT !.total = Len(rows)])

AskSuccessful ==
  Ask("successful", [report EXCEPT !.successful = Cardinality(Succeeded)])

AskByLanguage ==
  Ask("by_language", [report EXCEPT !.by_language = LanguageStats])

AskRecent ==
  \E list \in Recent(Limit) :
    Ask("recent", [report EXCEPT !.recent = list])

\* A request to /stats ends, with the report or, when a query fails, with
\* status 500 and no report; the next request starts anew.
EndRequest ==
  /\ pending' = Questions
  /\ report' = NoReport
  /\ UNCHANGED rows

Next ==
  \/ RecordExecution
  \/ AskTotal
  \/ AskSuccessful
  \/ AskByLanguage
  \/ AskRecent
  \/ EndRequest

Spec == Init /\ [][Next]_statsVars

Answered(question) == \A i \in DOMAIN pending : pending[i] # question

\* total_executions.saturating_sub(successful_executions).
FailedExecutions ==
  IF report.total < report.successful THEN 0
  ELSE report.total - report.successful

-----------------------------------------------------------------------------

TypeOK ==
  /\ rows \in Seq(Row)
  /\ Len(rows) <= MaxRows
  /\ \E n \in 1 .. 5 : pending = SubSeq(Questions, n, 4)
  /\ report.total \in 0 .. MaxRows
  /\ report.successful \in 0 .. MaxRows
  /\ DOMAIN report.by_language \subseteq Languages
  /\ Len(report.recent) <= Limit

(***************************************************************************)
(* However many executions are recorded between the questions, /stats      *)
(* never reports more failures than there are: the total is read first, so *)
(* a success recorded later can only hide a failure.                       *)
(***************************************************************************)
FailuresNotInvented ==
  Answered("total") /\ Answered("successful") =>
    FailedExecutions <= Len(rows) - Cardinality(Succeeded)

(***************************************************************************)
(* The breakdown by language is at least as recent as the totals: together *)
(* the languages account for every execution and every success counted.    *)
(***************************************************************************)
LanguagesCoverTotals ==
  Answered("by_language") =>
    LET counted == report.by_language
        Count(l) == counted[l].count
        SuccessCount(l) == counted[l].success_count
    IN  /\ report.total <= Sets!MapThenSumSet(Count, DOMAIN counted)
        /\ report.successful <= Sets!MapThenSumSet(SuccessCount, DOMAIN counted)

(***************************************************************************)
(* The recent executions come newest first by the clock, although they are *)
(* ordered as text, and of the executions counted in the total none is     *)
(* left out for an older one.                                              *)
(***************************************************************************)
RecentAreNewest ==
  Answered("recent") =>
    LET time(i) == rows[i].created_at
        listed == {report.recent[i] : i \in DOMAIN report.recent}
    IN  /\ \A i, j \in DOMAIN report.recent :
             i < j => time(report.recent[j]) <= time(report.recent[i])
        /\ \A k \in (1 .. report.total) \ listed :
             /\ Len(report.recent) = Limit
             /\ \A i \in listed : time(k) <= time(i)

=============================================================================
