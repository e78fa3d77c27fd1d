------------------------ MODULE ExecutionStatsProofs ------------------------
(***************************************************************************)
(* The statistics, for any number of languages, times and executions that  *)
(* are recorded between the queries of one report.                         *)
(***************************************************************************)
EXTENDS ExecutionStats, FiniteSetTheorems, SequenceTheorems,
        WellFoundedInduction, TLAPS

-----------------------------------------------------------------------------
(* The inductive invariant.                                                *)

\* The answers to the questions, as they are now.
Successes == Cardinality(Succeeded)
Failed == Len(rows) - Successes

\* The executions table.
TableType == rows \in Seq(Row) /\ Len(rows) <= MaxRows

(***************************************************************************)
(* The report after n - 1 questions.  The total that was read is not above *)
(* the present one, and the failures that follow from the report are not   *)
(* above the present ones: rows are only added.                            *)
(***************************************************************************)
ReportAfter(n) ==
  /\ pending = SubSeq(Questions, n, 4)
  /\ report = [total |-> report.total, successful |-> report.successful,
               by_language |-> report.by_language, recent |-> report.recent]
  /\ report.total \in Nat /\ report.total <= Len(rows)
  /\ report.successful \in Nat /\ report.successful <= Successes
  /\ n > 2 => report.total - report.successful <= Failed
  /\ DOMAIN report.by_language \subseteq Languages
  /\ Len(report.recent) <= Limit

\* The table and the report of the request.
StatsInv == TableType /\ \E n \in 1 .. 5 : ReportAfter(n)

-----------------------------------------------------------------------------

(***************************************************************************)
(* The first n numbers are n.                                              *)
(***************************************************************************)
LEMMA IntervalCounted ==
  ASSUME NEW n \in Nat
  PROVE  IsFiniteSet(1 .. n) /\ Cardinality(1 .. n) = n
BY FS_Interval

(***************************************************************************)
(* A part of the first n numbers is at most n.                             *)
(***************************************************************************)
LEMMA PartOfInterval ==
  ASSUME NEW n \in Nat, NEW S \in SUBSET (1 .. n)
  PROVE  IsFiniteSet(S) /\ Cardinality(S) \in Nat /\ Cardinality(S) <= n
<1>1. IsFiniteSet(1 .. n) /\ Cardinality(1 .. n) = n
  BY IntervalCounted
<1>2. IsFiniteSet(S) /\ Cardinality(S) <= Cardinality(1 .. n)
  BY <1>1, FS_Subset
<1>3. QED
  BY <1>1, <1>2, FS_CardinalityType

(***************************************************************************)
(* The successes are some of the rows.                                     *)
(***************************************************************************)
LEMMA SucceededCounted ==
  ASSUME TableType
  PROVE  /\ Len(rows) \in Nat /\ DOMAIN rows = 1 .. Len(rows)
         /\ Succeeded \subseteq 1 .. Len(rows)
         /\ IsFiniteSet(Succeeded) /\ Cardinality(Succeeded) \in Nat
         /\ Cardinality(Succeeded) <= Len(rows)
         /\ Successes = Cardinality(Succeeded)
<1>1. Len(rows) \in Nat /\ DOMAIN rows = 1 .. Len(rows)
  BY DEF TableType
<1>2. Succeeded \in SUBSET (1 .. Len(rows))
  BY <1>1 DEF Succeeded
<1>3. QED
  BY <1>1, <1>2, PartOfInterval DEF Successes

(***************************************************************************)
(* A recorded execution adds to the failures or to the successes.          *)
(***************************************************************************)
LEMMA RecordingCounted ==
  ASSUME TableType, RecordExecution
  PROVE  /\ TableType' /\ Len(rows') = Len(rows) + 1
         /\ Failed \in Int /\ Failed' \in Int /\ Failed <= Failed'
         /\ Successes \in Nat /\ Successes' \in Nat /\ Successes <= Successes'
<1>1. PICK row \in Row : rows' = Append(rows, row)
  BY DEF RecordExecution
<1>2. /\ rows' \in Seq(Row) /\ Len(rows') = Len(rows) + 1
      /\ \A i \in 1 .. Len(rows) : rows'[i] = rows[i]
      /\ DOMAIN rows' = 1 .. Len(rows) + 1
  BY <1>1 DEF TableType
<1>3. TableType'
  BY <1>2, MaxRowsAssumption DEF TableType, RecordExecution
<1>4. Succeeded' \subseteq Succeeded \cup {Len(rows) + 1}
  BY <1>2, SucceededCounted DEF Succeeded
<1>5. Cardinality(Succeeded') <= Cardinality(Succeeded) + 1
  <2>1. /\ IsFiniteSet(Succeeded \cup {Len(rows) + 1})
        /\ Cardinality(Succeeded \cup {Len(rows) + 1}) \in
             {Cardinality(Succeeded), Cardinality(Succeeded) + 1}
    BY SucceededCounted, FS_AddElement
  <2>2. Cardinality(Succeeded') <= Cardinality(Succeeded \cup {Len(rows) + 1})
    BY <1>4, <2>1, FS_Subset
  <2>3. Cardinality(Succeeded) \in Nat /\ Cardinality(Succeeded') \in Nat
    <3>1. IsFiniteSet(Succeeded')
      BY <1>4, <2>1, FS_Subset
    <3>2. QED
      BY <3>1, SucceededCounted, FS_CardinalityType
  <2>4. QED
    BY <2>1, <2>2, <2>3
<1>6. Cardinality(Succeeded') \in Nat
  <2>1. Succeeded' \in SUBSET (1 .. Len(rows) + 1)
    BY <1>4, SucceededCounted
  <2>2. QED
    BY <1>2, <2>1, PartOfInterval
<1>7. Cardinality(Succeeded) <= Cardinality(Succeeded')
  <2>1. Succeeded \subseteq Succeeded'
    BY <1>2, SucceededCounted DEF Succeeded
  <2>2. IsFiniteSet(Succeeded')
    BY <1>4, SucceededCounted, FS_AddElement, FS_Subset
  <2>3. QED
    BY <2>1, <2>2, FS_Subset
<1>8. QED
  BY <1>2, <1>3, <1>5, <1>6, <1>7, SucceededCounted DEF Failed, Successes

\* The questions.
Query == {"total", "successful", "by_language", "recent"}

(***************************************************************************)
(* The questions, one by one.                                              *)
(***************************************************************************)
LEMMA QuestionsInOrder ==
  /\ Questions \in Seq(Query) /\ Len(Questions) = 4
  /\ Questions[1] = "total" /\ Questions[2] = "successful"
  /\ Questions[3] = "by_language" /\ Questions[4] = "recent"
<1>1. Questions \in Seq(Query)
  BY DEF Questions, Query
<1>2. Len(Questions) = 4
  BY DEF Questions
<1>3. QED
  BY <1>1, <1>2 DEF Questions

(***************************************************************************)
(* The question that is asked is the first that is left, and the others    *)
(* are left afterwards.                                                    *)
(***************************************************************************)
LEMMA AskedInOrder ==
  ASSUME NEW n \in 1 .. 5, pending = SubSeq(Questions, n, 4),
         NEW question, NEW newReport, Ask(question, newReport)
  PROVE  /\ n \in 1 .. 4 /\ question = Questions[n]
         /\ pending' = SubSeq(Questions, n + 1, 4)
         /\ report' = newReport /\ rows' = rows
<1>1. n # 5
  <2>1. SubSeq(Questions, 5, 4) = << >>
    BY SubSeqEmpty
  <2>2. QED
    BY <2>1 DEF Ask
<1>2. /\ Head(SubSeq(Questions, n, 4)) = Questions[n]
      /\ Tail(SubSeq(Questions, n, 4)) = SubSeq(Questions, n + 1, 4)
  BY <1>1, QuestionsInOrder, HeadTailOfSubSeq
<1>3. QED
  BY <1>1, <1>2 DEF Ask

(***************************************************************************)
(* After n - 1 questions the last 5 - n are left.                          *)
(***************************************************************************)
LEMMA QuestionsLeft ==
  ASSUME NEW n \in 1 .. 5
  PROVE  /\ Len(SubSeq(Questions, n, 4)) = 5 - n
         /\ SubSeq(Questions, n, 4) \in Seq(Query)
         /\ \A i \in 1 .. 5 - n : SubSeq(Questions, n, 4)[i] = Questions[n + i - 1]
<1>1. \A i \in n .. 4 : Questions[i] \in Query
  BY QuestionsInOrder DEF Query
<1>2. n \in Int /\ 4 \in Int /\ n <= 5
  OBVIOUS
<1>3. /\ SubSeq(Questions, n, 4) \in Seq(Query)
      /\ Len(SubSeq(Questions, n, 4)) = IF n <= 4 THEN 4 - n + 1 ELSE 0
      /\ \A i \in 1 .. 4 - n + 1 : SubSeq(Questions, n, 4)[i] = Questions[n + i - 1]
  BY <1>1, <1>2, SubSeqProperties
<1>4. QED
  BY <1>3

(***************************************************************************)
(* What is answered after n - 1 questions.                                 *)
(***************************************************************************)
LEMMA AnsweredAfter ==
  ASSUME NEW n \in 1 .. 5, NEW left, left = SubSeq(Questions, n, 4),
         NEW m \in 1 .. 4
  PROVE  (\A i \in DOMAIN left : left[i] # Questions[m]) <=> m < n
<1>1. /\ Len(left) = 5 - n /\ left \in Seq(Query)
      /\ \A i \in 1 .. 5 - n : left[i] = Questions[n + i - 1]
  BY QuestionsLeft
<1>2. \A i, j \in 1 .. 4 : Questions[i] = Questions[j] => i = j
  BY QuestionsInOrder
<1>3. DOMAIN left = 1 .. 5 - n
  BY <1>1
<1>4. CASE m < n
  <2>1. ASSUME NEW i \in DOMAIN left PROVE left[i] # Questions[m]
    <3>1. n + i - 1 \in 1 .. 4 /\ n + i - 1 # m /\ i \in 1 .. 5 - n
      BY <1>3, <1>4
    <3>2. left[i] = Questions[n + i - 1]
      BY <1>1, <3>1
    <3>3. QED
      BY <1>2, <3>1, <3>2
  <2>2. QED
    BY <1>4, <2>1
<1>5. CASE m >= n
  <2>1. m - n + 1 \in 1 .. 5 - n /\ n + (m - n + 1) - 1 = m
    BY <1>5
  <2>2. left[m - n + 1] = Questions[m]
    BY <1>1, <2>1
  <2>3. m - n + 1 \in DOMAIN left /\ ~(m < n)
    BY <1>3, <1>5, <2>1
  <2>4. QED
    BY <2>2, <2>3
<1>6. QED
  BY <1>4, <1>5

(***************************************************************************)
(* The same of the report as it is.                                        *)
(***************************************************************************)
LEMMA AnsweredQuestions ==
  ASSUME NEW n \in 1 .. 5, NEW left, left = SubSeq(Questions, n, 4)
  PROVE  /\ (\A i \in DOMAIN left : left[i] # "successful") <=> 2 < n
         /\ (\A i \in DOMAIN left : left[i] # "by_language") <=> 3 < n
         /\ (\A i \in DOMAIN left : left[i] # "recent") <=> 4 < n
<1>1. \A m \in 1 .. 4 : (\A i \in DOMAIN left : left[i] # Questions[m]) <=> m < n
  BY AnsweredAfter
<1>2. QED
  BY <1>1, QuestionsInOrder

(***************************************************************************)
(* No question is answered at first.                                       *)
(***************************************************************************)
LEMMA InitStatsInv == Init => StatsInv
<1> SUFFICES ASSUME Init PROVE StatsInv
  OBVIOUS
<1>1. TableType
  BY MaxRowsAssumption DEF Init, TableType
<1>2. Questions = SubSeq(Questions, 1, 4)
  BY QuestionsInOrder, SubSeqFull
<1>3. Successes \in Nat /\ Len(rows) \in Nat
  BY <1>1, SucceededCounted
<1>4. ReportAfter(1)
  BY <1>2, <1>3, LimitAssumption DEF Init, ReportAfter, NoReport
<1>5. QED
  BY <1>1, <1>4 DEF StatsInv

(***************************************************************************)
(* An execution recorded between two questions.                            *)
(***************************************************************************)
LEMMA RecordingKeepsInv ==
  ASSUME StatsInv, RecordExecution
  PROVE  StatsInv'
<1>1. PICK n \in 1 .. 5 : ReportAfter(n)
  BY DEF StatsInv
<1>2. /\ TableType' /\ Len(rows') = Len(rows) + 1
      /\ Failed \in Int /\ Failed' \in Int /\ Failed <= Failed'
      /\ Successes \in Nat /\ Successes' \in Nat /\ Successes <= Successes'
      /\ Len(rows) \in Nat
  BY RecordingCounted, SucceededCounted DEF StatsInv
<1>3. pending' = pending /\ report' = report
  BY DEF RecordExecution
<1>4. ReportAfter(n)'
  BY <1>1, <1>2, <1>3 DEF ReportAfter
<1>5. QED
  BY <1>2, <1>4 DEF StatsInv

(***************************************************************************)
(* The total is asked first: whatever the successes are read later, what   *)
(* is left of the total is not above the failures of that moment.          *)
(***************************************************************************)
LEMMA AskingKeepsInv ==
  ASSUME StatsInv, AskTotal \/ AskSuccessful \/ AskByLanguage \/ AskRecent
  PROVE  StatsInv'
<1>1. PICK n \in 1 .. 5 : ReportAfter(n)
  BY DEF StatsInv
<1>2. TableType
  BY DEF StatsInv
<1>3. /\ Len(rows) \in Nat /\ DOMAIN rows = 1 .. Len(rows)
      /\ Successes \in Nat /\ Successes <= Len(rows)
      /\ Successes = Cardinality(Succeeded)
  BY <1>2, SucceededCounted
<1>4. pending = SubSeq(Questions, n, 4)
  BY <1>1 DEF ReportAfter
<1>5. ASSUME rows' = rows
      PROVE  TableType' /\ Failed' = Failed /\ Successes' = Successes
  BY <1>2, <1>5 DEF TableType, Failed, Successes, Succeeded
<1> USE QuestionsInOrder
<1>6. CASE AskTotal
  <2>1. /\ n = 1 /\ pending' = SubSeq(Questions, 2, 4) /\ rows' = rows
        /\ report' = [report EXCEPT !.total = Len(rows)]
    <3>1. /\ n \in 1 .. 4 /\ "total" = Questions[n]
          /\ pending' = SubSeq(Questions, n + 1, 4) /\ rows' = rows
          /\ report' = [report EXCEPT !.total = Len(rows)]
      BY <1>4, <1>6, AskedInOrder DEF AskTotal
    <3>2. n = 1
      BY <3>1
    <3>3. QED
      BY <3>1, <3>2
  <2>2. ReportAfter(2)'
    BY <1>1, <1>3, <1>5, <2>1 DEF ReportAfter
  <2>3. QED
    BY <1>5, <2>1, <2>2 DEF StatsInv
<1>7. CASE AskSuccessful
  <2>1. /\ n = 2 /\ pending' = SubSeq(Questions, 3, 4) /\ rows' = rows
        /\ report' = [report EXCEPT !.successful = Cardinality(Succeeded)]
    <3>1. /\ n \in 1 .. 4 /\ "successful" = Questions[n]
          /\ pending' = SubSeq(Questions, n + 1, 4) /\ rows' = rows
          /\ report' = [report EXCEPT !.successful = Cardinality(Succeeded)]
      BY <1>4, <1>7, AskedInOrder DEF AskSuccessful
    <3>2. n = 2
      BY <3>1
    <3>3. QED
      BY <3>1, <3>2
  <2>2. report.total - Successes <= Failed
    BY <1>1, <1>3 DEF ReportAfter, Failed
  <2>3. Failed' = Failed /\ Successes' = Successes
    BY <1>5, <2>1
  <2>4. ReportAfter(3)'
    BY <1>1, <1>3, <2>1, <2>2, <2>3 DEF ReportAfter
  <2>5. QED
    BY <1>5, <2>1, <2>4 DEF StatsInv
<1>8. CASE AskByLanguage
  <2>1. /\ n = 3 /\ pending' = SubSeq(Questions, 4, 4) /\ rows' = rows
        /\ report' = [report EXCEPT !.by_language = LanguageStats]
    <3>1. /\ n \in 1 .. 4 /\ "by_language" = Questions[n]
          /\ pending' = SubSeq(Questions, n + 1, 4) /\ rows' = rows
          /\ report' = [report EXCEPT !.by_language = LanguageStats]
      BY <1>4, <1>8, AskedInOrder DEF AskByLanguage
    <3>2. n = 3
      BY <3>1
    <3>3. QED
      BY <3>1, <3>2
  <2>2. DOMAIN LanguageStats \subseteq Languages
    <3>1. \A row \in Row : row.language \in Languages
      BY DEF Row
    <3>2. \A i \in 1 .. Len(rows) : rows[i] \in Row
      BY <1>2, <1>3 DEF TableType
    <3>3. \A i \in DOMAIN rows : rows[i].language \in Languages
      BY <1>3, <3>1, <3>2
    <3>4. QED
      BY <3>3 DEF LanguageStats, Known
  <2>3. Failed' = Failed /\ Successes' = Successes
    BY <1>5, <2>1
  <2>4. ReportAfter(4)'
    BY <1>1, <1>3, <2>1, <2>2, <2>3, SMTT(30) DEF ReportAfter
  <2>5. QED
    BY <1>5, <2>1, <2>4 DEF StatsInv
<1>9. CASE AskRecent
  <2>1. PICK list \in Recent(Limit) : Ask("recent", [report EXCEPT !.recent = list])
    BY <1>9 DEF AskRecent
  <2>2. /\ n = 4 /\ pending' = SubSeq(Questions, 5, 4) /\ rows' = rows
        /\ report' = [report EXCEPT !.recent = list]
    <3>1. /\ n \in 1 .. 4 /\ "recent" = Questions[n]
          /\ pending' = SubSeq(Questions, n + 1, 4) /\ rows' = rows
          /\ report' = [report EXCEPT !.recent = list]
      BY <1>4, <2>1, AskedInOrder
    <3>2. n = 4
      BY <3>1
    <3>3. QED
      BY <3>1, <3>2
  <2>3. Len(list) <= Limit
    <3> DEFINE length == IF Len(rows) < Limit THEN Len(rows) ELSE Limit
    <3>1. list \in [1 .. length -> DOMAIN rows]
      BY <2>1 DEF Recent, NewestFirst
    <3>2. length \in Nat /\ length <= Limit
      BY <1>3, LimitAssumption
    <3>3. list \in Seq(DOMAIN rows) /\ Len(list) = length
      BY <3>1, <3>2
    <3>4. QED
      BY <3>2, <3>3
  <2>4. Failed' = Failed /\ Successes' = Successes
    BY <1>5, <2>2
  <2>5. ReportAfter(5)'
    <3>1. /\ report' = [total |-> report.total,
                        successful |-> report.successful,
                        by_language |-> report.by_language, recent |-> list]
          /\ report.total - report.successful <= Failed
      BY <1>1, <2>2 DEF ReportAfter
    <3>2. /\ report'.total = report.total /\ report'.recent = list
          /\ report'.successful = report.successful
          /\ report'.by_language = report.by_language
      BY <3>1
    <3>3. report.total - report.successful <= Failed' /\ Successes' = Successes
      BY <2>4, <3>1
    <3> HIDE DEF Failed
    <3>4. QED
      BY <1>1, <2>2, <2>3, <3>1, <3>2, <3>3 DEF ReportAfter
  <2>6. QED
    BY <1>5, <2>2, <2>5 DEF StatsInv
<1>10. QED
  BY <1>6, <1>7, <1>8, <1>9

(***************************************************************************)
(* Every step keeps the invariant.                                         *)
(***************************************************************************)
LEMMA StatsInvStep ==
  ASSUME StatsInv, [Next]_statsVars
  PROVE  StatsInv'
<1>1. CASE RecordExecution
  BY <1>1, RecordingKeepsInv
<1>2. CASE AskTotal \/ AskSuccessful \/ AskByLanguage \/ AskRecent
  BY <1>2, AskingKeepsInv
<1>3. CASE EndRequest
  <2>1. pending' = SubSeq(Questions, 1, 4) /\ report' = NoReport /\ rows' = rows
    BY <1>3, QuestionsInOrder, SubSeqFull DEF EndRequest
  <2>2. TableType' /\ Len(rows) \in Nat /\ Successes \in Nat
    BY <2>1, SucceededCounted DEF StatsInv, TableType
  <2>3. Successes' = Successes
    BY <2>1 DEF Successes, Succeeded
  <2>4. ReportAfter(1)'
    BY <2>1, <2>2, <2>3, LimitAssumption DEF ReportAfter, NoReport
  <2>5. QED
    BY <2>2, <2>4 DEF StatsInv
<1>4. CASE UNCHANGED statsVars
  <2>1. rows' = rows /\ pending' = pending /\ report' = report
    BY <1>4 DEF statsVars
  <2>2. QED
    BY <2>1
    DEF StatsInv, TableType, ReportAfter, Failed, Successes, Succeeded
<1>5. QED
  BY <1>1, <1>2, <1>3, <1>4 DEF Next

(***************************************************************************)
(* The invariant of the statistics.                                        *)
(***************************************************************************)
LEMMA StatsInvariant == Spec => []StatsInv
BY InitStatsInv, StatsInvStep, PTL DEF Spec

(***************************************************************************)
(* However recordings and the queries of a report interleave, the report   *)
(* is well formed: its numbers are within the table, its languages known   *)
(* and its list no longer than the limit.                                  *)
(***************************************************************************)
THEOREM StatsTypeCorrect == Spec => []TypeOK
<1>1. StatsInv => TypeOK
  <2> SUFFICES ASSUME StatsInv PROVE TypeOK
    OBVIOUS
  <2>1. PICK n \in 1 .. 5 : ReportAfter(n)
    BY DEF StatsInv
  <2>2. TableType /\ Len(rows) \in Nat /\ Successes \in Nat /\ Successes <= Len(rows)
    BY SucceededCounted DEF StatsInv
  <2>3. report.total \in 0 .. MaxRows /\ report.successful \in 0 .. MaxRows
    BY <2>1, <2>2, MaxRowsAssumption DEF ReportAfter, TableType
  <2>4. \E m \in 1 .. 5 : pending = SubSeq(Questions, m, 4)
    BY <2>1 DEF ReportAfter
  <2>5. DOMAIN report.by_language \subseteq Languages /\ Len(report.recent) <= Limit
    BY <2>1 DEF ReportAfter
  <2>6. QED
    BY <2>2, <2>3, <2>4, <2>5 DEF TypeOK, TableType
<1>2. QED
  BY <1>1, StatsInvariant, PTL

(***************************************************************************)
(* The failures that get_stats reports are failures: an execution recorded *)
(* after the total was read can hide one, and never make one up.           *)
(***************************************************************************)
THEOREM FailuresAreReal == Spec => []FailuresNotInvented
<1>1. StatsInv => FailuresNotInvented
  <2> SUFFICES ASSUME StatsInv, Answered("total"), Answered("successful")
               PROVE  FailedExecutions <= Failed
    BY DEF FailuresNotInvented, Failed, Successes
  <2>1. PICK n \in 1 .. 5 : ReportAfter(n)
    BY DEF StatsInv
  <2>2. n > 2
    <3>1. pending = SubSeq(Questions, n, 4)
      BY <2>1 DEF ReportAfter
    <3>2. QED
      BY <3>1, AnsweredQuestions DEF Answered
  <2>3. Len(rows) \in Nat /\ Successes \in Nat /\ Successes <= Len(rows)
    BY SucceededCounted DEF StatsInv
  <2>4. QED
    BY <2>1, <2>2, <2>3 DEF ReportAfter, FailedExecutions, Failed
<1>2. QED
  BY <1>1, StatsInvariant, PTL

-----------------------------------------------------------------------------
(* The breakdown by language.                                              *)

(***************************************************************************)
(* Every set of numbers has a least one: what stands for induction below.  *)
(***************************************************************************)
LEMMA LeastNumber ==
  ASSUME NEW T \in SUBSET Nat, T # {}
  PROVE  \E m \in T : \A n \in T : m <= n
<1> DEFINE Below == {ss \in Nat \X Nat : ss[1] < ss[2]}
<1>1. IsWellFoundedOn(Below, Nat)
  BY NatLessThanWellFounded, Zenon DEF OpToRel
<1>2. PICK m \in T : \A n \in T : ~(<<n, m>> \in Below)
  <2>1. T \subseteq Nat
    OBVIOUS
  <2> HIDE DEF Below
  <2>2. QED
  BY <1>1, <2>1, WFMin
<1>3. \A n \in T : <<n, m>> \in Below <=> n < m
  OBVIOUS
<1> HIDE DEF Below
<1>4. \A n \in T : ~(n < m)
  BY <1>2, <1>3
<1>5. QED
  BY <1>4

\* The element that a sum takes first.
First(s) == CHOOSE x \in s : TRUE

\* Sums of c over sets of at most n elements of D
Sums(g, c, D, n) ==
  g = [s \in {t \in SUBSET D : Cardinality(t) <= n} |->
         IF s = {} THEN 0 ELSE c[First(s)] + g[s \ {First(s)}]]

(***************************************************************************)
(* Taking an element away makes a finite set smaller.                      *)
(***************************************************************************)
LEMMA FirstTaken ==
  ASSUME NEW D, IsFiniteSet(D), NEW s \in SUBSET D, s # {}
  PROVE  /\ First(s) \in s /\ s \ {First(s)} \in SUBSET D
         /\ Cardinality(s) \in Nat /\ Cardinality(s) <= Cardinality(D)
         /\ Cardinality(s \ {First(s)}) = Cardinality(s) - 1
<1>1. First(s) \in s
  BY DEF First
<1>2. IsFiniteSet(s) /\ Cardinality(s) <= Cardinality(D)
  BY FS_Subset
<1>3. Cardinality(s) \in Nat /\ Cardinality(s \ {First(s)}) = Cardinality(s) - 1
  BY <1>1, <1>2, FS_CardinalityType, FS_RemoveElement
<1>4. QED
  BY <1>1, <1>2, <1>3

(***************************************************************************)
(* There are sums over sets of any size.                                   *)
(***************************************************************************)
LEMMA SumsExist ==
  ASSUME NEW D, IsFiniteSet(D), NEW c
  PROVE  \A n \in Nat : \E g : Sums(g, c, D, n)
<1> DEFINE T == {n \in Nat : ~\E g : Sums(g, c, D, n)}
<1> SUFFICES ASSUME T # {} PROVE FALSE
  OBVIOUS
<1>1. PICK n \in T : \A m \in T : n <= m
  BY LeastNumber
<1>2. n # 0
  <2> SUFFICES ASSUME n = 0 PROVE FALSE
    OBVIOUS
  <2> DEFINE g == [s \in {t \in SUBSET D : Cardinality(t) <= 0} |-> 0]
  <2>1. \A s \in SUBSET D : Cardinality(s) <= 0 => s = {}
    <3> SUFFICES ASSUME NEW s \in SUBSET D, Cardinality(s) <= 0 PROVE s = {}
      OBVIOUS
    <3>1. IsFiniteSet(s) /\ Cardinality(s) \in Nat
      BY FS_Subset, FS_CardinalityType
    <3>2. Cardinality(s) = 0
      BY <3>1
    <3>3. QED
      BY <3>1, <3>2, FS_EmptySet
  <2>2. g = [s \in {t \in SUBSET D : Cardinality(t) <= 0} |->
               IF s = {} THEN 0 ELSE c[First(s)] + g[s \ {First(s)}]]
    BY <2>1
  <2>3. Sums(g, c, D, 0)
    BY <2>2 DEF Sums
  <2>4. QED
    BY <2>3
<1>3. PICK g : Sums(g, c, D, n - 1)
  <2>1. n - 1 \in Nat /\ ~(n <= n - 1)
    BY <1>2
  <2>2. n - 1 \notin T
    BY <1>1, <2>1
  <2>3. QED
    BY <2>1, <2>2
<1> DEFINE Small(k) == {t \in SUBSET D : Cardinality(t) <= k}
           h == [s \in Small(n) |-> IF s = {} THEN 0 ELSE c[First(s)] + g[s \ {First(s)}]]
<1>4. ASSUME NEW s \in Small(n), s # {}
      PROVE  h[s \ {First(s)}] = g[s \ {First(s)}]
  <2> DEFINE r == s \ {First(s)}
  <2>1. r \in Small(n - 1) /\ r \in Small(n)
    BY <1>4, FirstTaken
  <2>2. g[r] = IF r = {} THEN 0 ELSE c[First(r)] + g[r \ {First(r)}]
    BY <1>3, <2>1 DEF Sums
  <2>3. h[r] = IF r = {} THEN 0 ELSE c[First(r)] + g[r \ {First(r)}]
    BY <2>1
  <2>4. QED
    BY <2>2, <2>3
<1>5. h = [s \in Small(n) |-> IF s = {} THEN 0 ELSE c[First(s)] + h[s \ {First(s)}]]
  <2> HIDE DEF Small
  <2>1. \A s \in Small(n) : h[s] = IF s = {} THEN 0 ELSE c[First(s)] + g[s \ {First(s)}]
    OBVIOUS
  <2>2. \A s \in Small(n) : h[s] = IF s = {} THEN 0 ELSE c[First(s)] + h[s \ {First(s)}]
    BY <1>4, <2>1
  <2>3. h = [s \in Small(n) |-> h[s]]
    OBVIOUS
  <2> HIDE DEF h
  <2>4. QED
    BY <2>2, <2>3
<1>6. Sums(h, c, D, n)
  BY <1>5 DEF Sums
<1>7. QED
  BY <1>6

\* c holds the sizes of the classes of R.
Counts(c, class, R, D) ==
  \A l \in D : c[l] = Cardinality({i \in R : class[i] = l})

(***************************************************************************)
(* The sizes of the classes of a set add up to its size, in whatever order *)
(* the classes are taken.                                                  *)
(***************************************************************************)
LEMMA SumOfClasses ==
  ASSUME NEW D, IsFiniteSet(D), NEW R, IsFiniteSet(R), NEW class \in [R -> D],
         NEW c, Counts(c, class, R, D),
         NEW g, Sums(g, c, D, Cardinality(D))
  PROVE  g[D] = Cardinality(R)
<1> DEFINE In(s) == {i \in R : class[i] \in s}
           Wrong == {s \in SUBSET D : g[s] # Cardinality(In(s))}
           T == {Cardinality(s) : s \in Wrong}
<1>1. \A s \in SUBSET D : IsFiniteSet(s) /\ Cardinality(s) \in Nat /\ Cardinality(s) <= Cardinality(D)
  BY FS_Subset, FS_CardinalityType
<1>2. T \in SUBSET Nat
  BY <1>1
<1>3. \A s \in SUBSET D : g[s] = IF s = {} THEN 0 ELSE c[First(s)] + g[s \ {First(s)}]
  BY <1>1 DEF Sums
<1>4. ASSUME NEW s \in Wrong, \A r \in Wrong : Cardinality(s) <= Cardinality(r)
      PROVE  FALSE
  <2>1. CASE s = {}
    <3>1. In(s) = {}
      BY <2>1
    <3>2. Cardinality(In(s)) = 0
      BY <3>1, FS_EmptySet
    <3>3. g[s] = 0
      BY <1>3, <2>1
    <3>4. QED
      BY <3>2, <3>3
  <2>2. CASE s # {}
    <3> DEFINE x == First(s)
               r == s \ {x}
    <3>1. /\ x \in s /\ r \in SUBSET D /\ Cardinality(r) = Cardinality(s) - 1
          /\ Cardinality(s) \in Nat
      BY <2>2, FirstTaken
    <3>2. r \notin Wrong
      BY <1>4, <3>1
    <3>3. g[r] = Cardinality(In(r))
      BY <3>1, <3>2
    <3>4. g[s] = Cardinality(In({x})) + Cardinality(In(r))
      <4>1. g[s] = c[x] + g[r]
        BY <1>3, <2>2
      <4>2. c[x] = Cardinality({i \in R : class[i] = x})
        BY <3>1 DEF Counts
      <4>3. {i \in R : class[i] = x} = In({x})
        OBVIOUS
      <4>4. QED
        BY <3>3, <4>1, <4>2, <4>3
    <3>5. In(s) = In({x}) \cup In(r) /\ In({x}) \cap In(r) = {}
      BY <3>1
    <3>6. IsFiniteSet(In({x})) /\ IsFiniteSet(In(r))
      BY FS_Subset
    <3> HIDE DEF In, r, x
    <3>7. Cardinality(In(s)) = Cardinality(In({x})) + Cardinality(In(r))
      <4>1. Cardinality(In({x}) \cup In(r)) = Cardinality(In({x})) + Cardinality(In(r)) - Cardinality(In({x}) \cap In(r))
        BY <3>6, FS_Union
      <4>2. Cardinality(In({x}) \cap In(r)) = 0
        BY <3>5, FS_EmptySet
      <4>3. Cardinality(In({x})) \in Nat /\ Cardinality(In(r)) \in Nat
        BY <3>6, FS_CardinalityType
      <4>4. QED
        BY <3>5, <4>1, <4>2, <4>3
    <3>8. QED
      BY <3>4, <3>7
  <2>3. QED
    BY <2>1, <2>2
<1>5. Wrong = {}
  <2> SUFFICES ASSUME Wrong # {} PROVE FALSE
    OBVIOUS
  <2>1. PICK m \in T : \A n \in T : m <= n
    <3> HIDE DEF Wrong
    <3>1. T # {}
      OBVIOUS
    <3> HIDE DEF T
    <3>2. QED
      BY <1>2, <3>1, LeastNumber
  <2>2. PICK s \in Wrong : Cardinality(s) = m
    OBVIOUS
  <2>3. \A r \in Wrong : Cardinality(s) <= Cardinality(r)
    BY <2>1, <2>2
  <2>4. QED
    BY <1>4, <2>3
<1>6. In(D) = R
  OBVIOUS
<1>7. QED
  BY <1>5, <1>6

(***************************************************************************)
(* No subset is larger than the whole.                                     *)
(***************************************************************************)
LEMMA AllSubsets ==
  ASSUME NEW D, IsFiniteSet(D)
  PROVE  {t \in SUBSET D : Cardinality(t) <= Cardinality(D)} = SUBSET D
BY FS_Subset

(***************************************************************************)
(* MapThenSumSet of the counts is such a sum.                              *)
(***************************************************************************)
LEMMA CountsSummed ==
  ASSUME NEW counted, IsFiniteSet(DOMAIN counted),
         NEW c, \A l \in DOMAIN counted : c[l] = counted[l].count
  PROVE  \E g : /\ Sums(g, c, DOMAIN counted, Cardinality(DOMAIN counted))
                /\ Sets!MapThenSumSet(LAMBDA l : counted[l].count, DOMAIN counted)
                     = g[DOMAIN counted]
<1> DEFINE D == DOMAIN counted
           F(g) == [s \in SUBSET D |->
                      IF s = {} THEN 0
                      ELSE counted[CHOOSE x \in s : TRUE].count
                             + g[s \ {CHOOSE x \in s : TRUE}]]
           f == CHOOSE g : g = F(g)
<1>1. Sets!MapThenSumSet(LAMBDA l : counted[l].count, D) = f[D]
  BY DEF Sets!MapThenSumSet, Sets!MapThenFoldSet
<1>2. ASSUME NEW g PROVE g = F(g) <=> Sums(g, c, D, Cardinality(D))
  <2>1. \A s \in SUBSET D : s # {} => c[First(s)] = counted[First(s)].count
    BY DEF First
  <2>2. [s \in SUBSET D |-> IF s = {} THEN 0 ELSE c[First(s)] + g[s \ {First(s)}]]
          = [s \in SUBSET D |-> IF s = {} THEN 0
                               ELSE counted[First(s)].count + g[s \ {First(s)}]]
    BY <2>1
  <2>3. QED
    BY <2>2, AllSubsets DEF Sums, First
<1>3. \E g : g = F(g)
  <2>1. PICK g : Sums(g, c, D, Cardinality(D))
    BY SumsExist, FS_CardinalityType
  <2> HIDE DEF F
  <2>2. QED
    BY <1>2, <2>1
<1> HIDE DEF F
<1>4. f = F(f)
  BY <1>3
<1> HIDE DEF f
<1>5. Sums(f, c, D, Cardinality(D))
  BY <1>2, <1>4
<1>6. QED
  BY <1>1, <1>5

(***************************************************************************)
(* MapThenSumSet of the successes is such a sum.                           *)
(***************************************************************************)
LEMMA SuccessesSummed ==
  ASSUME NEW counted, IsFiniteSet(DOMAIN counted),
         NEW c, \A l \in DOMAIN counted : c[l] = counted[l].success_count
  PROVE  \E g : /\ Sums(g, c, DOMAIN counted, Cardinality(DOMAIN counted))
                /\ Sets!MapThenSumSet(LAMBDA l : counted[l].success_count, DOMAIN counted)
                     = g[DOMAIN counted]
<1> DEFINE D == DOMAIN counted
           F(g) == [s \in SUBSET D |->
                      IF s = {} THEN 0
                      ELSE counted[CHOOSE x \in s : TRUE].success_count
                             + g[s \ {CHOOSE x \in s : TRUE}]]
           f == CHOOSE g : g = F(g)
<1>1. Sets!MapThenSumSet(LAMBDA l : counted[l].success_count, D) = f[D]
  BY DEF Sets!MapThenSumSet, Sets!MapThenFoldSet
<1>2. ASSUME NEW g PROVE g = F(g) <=> Sums(g, c, D, Cardinality(D))
  <2>1. \A s \in SUBSET D : s # {} => c[First(s)] = counted[First(s)].success_count
    BY DEF First
  <2>2. [s \in SUBSET D |-> IF s = {} THEN 0 ELSE c[First(s)] + g[s \ {First(s)}]]
          = [s \in SUBSET D |-> IF s = {} THEN 0
                               ELSE counted[First(s)].success_count + g[s \ {First(s)}]]
    BY <2>1
  <2>3. QED
    BY <2>2, AllSubsets DEF Sums, First
<1>3. \E g : g = F(g)
  <2>1. PICK g : Sums(g, c, D, Cardinality(D))
    BY SumsExist, FS_CardinalityType
  <2> HIDE DEF F
  <2>2. QED
    BY <1>2, <2>1
<1> HIDE DEF F
<1>4. f = F(f)
  BY <1>3
<1> HIDE DEF f
<1>5. Sums(f, c, D, Cardinality(D))
  BY <1>2, <1>4
<1>6. QED
  BY <1>1, <1>5

\* All executions and all successes of a breakdown by language.
CountSum(counted) ==
  Sets!MapThenSumSet(LAMBDA l : counted[l].count, DOMAIN counted)
SuccessSum(counted) ==
  Sets!MapThenSumSet(LAMBDA l : counted[l].success_count, DOMAIN counted)

(***************************************************************************)
(* get_language_stats loses no row: its groups together are the table, and *)
(* their successes all the successes.                                      *)
(***************************************************************************)
LEMMA LanguageStatsCover ==
  ASSUME TableType
  PROVE  CountSum(LanguageStats) = Len(rows) /\ SuccessSum(LanguageStats) = Successes
<1>1. /\ IsFiniteSet(DOMAIN rows) /\ Cardinality(DOMAIN rows) = Len(rows)
      /\ IsFiniteSet(Succeeded) /\ Cardinality(Succeeded) = Successes
  <2>1. Len(rows) \in Nat /\ DOMAIN rows = 1 .. Len(rows)
    BY SucceededCounted
  <2>2. IsFiniteSet(1 .. Len(rows)) /\ Cardinality(1 .. Len(rows)) = Len(rows)
    BY <2>1, IntervalCounted
  <2>3. QED
    BY <2>1, <2>2, SucceededCounted
<1> DEFINE language == [i \in DOMAIN rows |-> rows[i].language]
           languageOfSuccess == [i \in Succeeded |-> rows[i].language]
           count == [l \in Known |-> Cardinality(Of(l))]
           success_count == [l \in Known |-> Cardinality(Of(l) \cap Succeeded)]
<1>2. language \in [DOMAIN rows -> Known] /\ languageOfSuccess \in [Succeeded -> Known]
  BY DEF Known, Succeeded
<1>3. IsFiniteSet(Known)
  <2>1. language \in Surjection(DOMAIN rows, Known)
    BY <1>2 DEF Known, Surjection
  <2> HIDE DEF language
  <2>2. QED
    BY <1>1, <2>1, FS_Surjection
<1>4. PICK counted : counted = LanguageStats
  OBVIOUS
<1>5. /\ DOMAIN counted = Known
      /\ \A l \in Known : /\ count[l] = counted[l].count
                          /\ success_count[l] = counted[l].success_count
  BY <1>4 DEF LanguageStats
<1>6. Counts(count, language, DOMAIN rows, Known)
  BY DEF Of, Counts
<1>7. Counts(success_count, languageOfSuccess, Succeeded, Known)
  <2>1. \A l \in Known :
          Of(l) \cap Succeeded = {i \in Succeeded : languageOfSuccess[i] = l}
    BY DEF Of, Succeeded
  <2>2. QED
    BY <2>1 DEF Counts
<1> HIDE DEF language, languageOfSuccess, count, success_count
<1>8. CountSum(counted) = Len(rows)
  <2>1. PICK g : /\ Sums(g, count, Known, Cardinality(Known))
                 /\ CountSum(counted) = g[Known]
    BY <1>3, <1>5, CountsSummed DEF CountSum
  <2>2. g[Known] = Cardinality(DOMAIN rows)
    BY <1>1, <1>2, <1>3, <1>6, <2>1, SumOfClasses
  <2>3. QED
    BY <1>1, <2>1, <2>2
<1>9. SuccessSum(counted) = Successes
  <2>1. PICK g : /\ Sums(g, success_count, Known, Cardinality(Known))
                 /\ SuccessSum(counted) = g[Known]
    BY <1>3, <1>5, SuccessesSummed DEF SuccessSum
  <2>2. g[Known] = Cardinality(Succeeded)
    BY <1>1, <1>2, <1>3, <1>7, <2>1, SumOfClasses
  <2>3. QED
    BY <1>1, <2>1, <2>2
<1>10. QED
  BY <1>4, <1>8, <1>9

\* What LanguagesCoverTotals asks of a breakdown.
TotalsCovered ==
  /\ report.total <= CountSum(report.by_language)
  /\ report.successful <= SuccessSum(report.by_language)

\* The inductive invariant of LanguagesCoverTotals.
CoverInv == StatsInv /\ (Answered("by_language") => TotalsCovered)

(***************************************************************************)
(* Answers cover the totals when they are given, and rows that come later  *)
(* change no answer.                                                       *)
(***************************************************************************)
LEMMA CoverInvStep ==
  ASSUME CoverInv, [Next]_statsVars
  PROVE  CoverInv'
<1>1. StatsInv /\ StatsInv'
  BY StatsInvStep DEF CoverInv
<1> SUFFICES ASSUME Answered("by_language")' PROVE TotalsCovered'
  BY <1>1 DEF CoverInv
<1>2. PICK n \in 1 .. 5 : ReportAfter(n)
  BY <1>1 DEF StatsInv
<1>3. pending = SubSeq(Questions, n, 4)
  BY <1>2 DEF ReportAfter
<1>4. ASSUME UNCHANGED <<pending, report>>
      PROVE  TotalsCovered'
  BY <1>4 DEF CoverInv, Answered, TotalsCovered
<1>5. ASSUME NEW m \in 1 .. 5, pending' = SubSeq(Questions, m, 4)
      PROVE  m > 3
  <2>1. Answered("by_language")' <=> 3 < m
    BY <1>5, AnsweredQuestions DEF Answered
  <2>2. QED
    BY <2>1
<1>6. CASE RecordExecution
  BY <1>4, <1>6 DEF RecordExecution
<1>7. ASSUME NEW question, NEW newReport, Ask(question, newReport)
      PROVE  n \in 3 .. 4 /\ question = Questions[n] /\ report' = newReport
  <2>1. /\ n \in 1 .. 4 /\ question = Questions[n] /\ report' = newReport
        /\ pending' = SubSeq(Questions, n + 1, 4)
    BY <1>3, <1>7, AskedInOrder
  <2>2. n + 1 > 3
    BY <1>5, <2>1
  <2>3. QED
    BY <2>1, <2>2
<1>8. CASE AskTotal
  BY <1>7, <1>8, QuestionsInOrder DEF AskTotal
<1>9. CASE AskSuccessful
  BY <1>7, <1>9, QuestionsInOrder DEF AskSuccessful
<1>10. CASE AskByLanguage
  <2>1. report' = [report EXCEPT !.by_language = LanguageStats]
    BY <1>7, <1>10 DEF AskByLanguage
  <2>2. /\ report'.total = report.total /\ report'.successful = report.successful
        /\ report'.by_language = LanguageStats
    BY <1>2, <2>1 DEF ReportAfter
  <2>3. /\ CountSum(LanguageStats) = Len(rows)
        /\ SuccessSum(LanguageStats) = Successes
    BY <1>1, LanguageStatsCover DEF StatsInv
  <2>4. report.total <= Len(rows) /\ report.successful <= Successes
    BY <1>2 DEF ReportAfter
  <2>5. QED
    BY <2>2, <2>3, <2>4 DEF TotalsCovered
<1>11. CASE AskRecent
  <2>1. PICK list : Ask("recent", [report EXCEPT !.recent = list])
    BY <1>11 DEF AskRecent
  <2>2. n = 4 /\ report' = [report EXCEPT !.recent = list]
    <3>1. /\ n \in 3 .. 4 /\ "recent" = Questions[n]
          /\ report' = [report EXCEPT !.recent = list]
      BY <1>7, <2>1
    <3>2. QED
      BY <3>1, QuestionsInOrder
  <2>3. /\ report'.total = report.total /\ report'.successful = report.successful
        /\ report'.by_language = report.by_language
    BY <1>2, <2>2 DEF ReportAfter
  <2>4. Answered("by_language")
    <3>1. Answered("by_language") <=> 3 < n
      BY <1>3, AnsweredQuestions DEF Answered
    <3>2. QED
      BY <2>2, <3>1
  <2>5. QED
    BY <2>3, <2>4 DEF CoverInv, TotalsCovered
<1>12. CASE EndRequest
  <2>1. pending' = SubSeq(Questions, 1, 4)
    BY <1>12, QuestionsInOrder, SubSeqFull DEF EndRequest
  <2>2. QED
    BY <1>5, <2>1
<1>13. CASE UNCHANGED statsVars
  BY <1>4, <1>13 DEF statsVars
<1>14. QED
  BY <1>6, <1>8, <1>9, <1>10, <1>11, <1>12, <1>13 DEF Next

(***************************************************************************)
(* The languages of a report account for all it has counted before, since  *)
(* get_language_stats counts every row of a later table.                   *)
(***************************************************************************)
THEOREM LanguagesAccountForAll == Spec => []LanguagesCoverTotals
<1>1. Init => CoverInv
  <2> SUFFICES ASSUME Init PROVE CoverInv
    OBVIOUS
  <2>1. pending = SubSeq(Questions, 1, 4)
    BY QuestionsInOrder, SubSeqFull DEF Init
  <2>2. ~Answered("by_language")
    <3>1. PICK n \in 1 .. 5 : n = 1 /\ pending = SubSeq(Questions, n, 4)
      BY <2>1
    <3>2. Answered("by_language") <=> 3 < n
      BY <3>1, AnsweredQuestions DEF Answered
    <3>3. QED
      BY <3>1, <3>2
  <2>3. QED
    BY <2>2, InitStatsInv DEF CoverInv
<1>2. CoverInv => LanguagesCoverTotals
  BY DEF CoverInv, TotalsCovered, LanguagesCoverTotals, CountSum, SuccessSum
<1>3. QED
  BY <1>1, <1>2, CoverInvStep, PTL DEF Spec
-----------------------------------------------------------------------------
(* The recent executions.                                                  *)

(***************************************************************************)
(* A time is made of its seconds and three bits.                           *)
(***************************************************************************)
LEMMA OctalDigits ==
  ASSUME NEW t \in Nat
  PROVE  /\ t \div 8 \in Nat
         /\ (t \div 4) % 2 \in 0 .. 1 /\ (t \div 2) % 2 \in 0 .. 1 /\ t % 2 \in 0 .. 1
         /\ t = 8 * (t \div 8) + 4 * ((t \div 4) % 2) + 2 * ((t \div 2) % 2) + (t % 2)
         /\ t % 8 = 4 * ((t \div 4) % 2) + 2 * ((t \div 2) % 2) + (t % 2)
         /\ t % 4 = 2 * ((t \div 2) % 2) + (t % 2)
<1>1. t \div 8 \in Nat /\ t \div 4 \in Nat /\ t \div 2 \in Nat
  OBVIOUS
<1>2. t = 2 * (t \div 2) + (t % 2) /\ t % 2 \in 0 .. 1
  OBVIOUS
<1>3. t = 4 * (t \div 4) + (t % 4) /\ t % 4 \in 0 .. 3
  OBVIOUS
<1>4. t = 8 * (t \div 8) + (t % 8) /\ t % 8 \in 0 .. 7
  OBVIOUS
<1>5. \A n \in Nat : n = 2 * (n \div 2) + (n % 2) /\ n % 2 \in 0 .. 1 /\ n \div 2 \in Nat
  OBVIOUS
<1>6. \A n, m \in Nat : n = 2 * m \/ n = 2 * m + 1 => n \div 2 = m
  OBVIOUS
<1>7. (t \div 2) \div 2 = t \div 4
  <2>1. t \div 2 = 2 * (t \div 4) \/ t \div 2 = 2 * (t \div 4) + 1
    BY <1>1, <1>2, <1>3
  <2>2. QED
    BY <2>1, <1>1, <1>6
<1>8. (t \div 4) \div 2 = t \div 8
  <2>1. t \div 4 = 2 * (t \div 8) \/ t \div 4 = 2 * (t \div 8) + 1
    BY <1>1, <1>3, <1>4
  <2>2. QED
    BY <2>1, <1>1, <1>6
<1>9. /\ t \div 4 = 2 * (t \div 8) + ((t \div 4) % 2) /\ (t \div 4) % 2 \in 0 .. 1
      /\ t \div 2 = 2 * (t \div 4) + ((t \div 2) % 2) /\ (t \div 2) % 2 \in 0 .. 1
  BY <1>1, <1>5, <1>7, <1>8
<1> DEFINE s == t \div 8
          a == t \div 4
          b == t \div 2
          h == a % 2
          m == b % 2
          l == t % 2
          r8 == t % 8
          r4 == t % 4
<1>10. /\ t = 2 * b + l /\ t = 4 * a + r4 /\ t = 8 * s + r8 /\ a = 2 * s + h /\ b = 2 * a + m
      /\ s \in Nat /\ a \in Nat /\ b \in Nat /\ r8 \in Nat /\ r4 \in Nat
      /\ h \in Nat /\ m \in Nat /\ l \in Nat
  <2>1. s \in Nat /\ a \in Nat /\ b \in Nat
    BY <1>1
  <2>2. t = 2 * b + l /\ l \in Nat
    BY <1>2
  <2>3. t = 4 * a + r4 /\ r4 \in Nat
    BY <1>3
  <2>4. t = 8 * s + r8 /\ r8 \in Nat
    BY <1>4
  <2>5. a = 2 * s + h /\ b = 2 * a + m /\ h \in Nat /\ m \in Nat
    BY <1>9
  <2> HIDE DEF s, a, b, h, m, l, r8, r4
  <2>6. QED
    BY <2>1, <2>2, <2>3, <2>4, <2>5
<1> HIDE DEF s, a, b, h, m, l, r8, r4
<1>11. t = 8 * s + 4 * h + 2 * m + l /\ r8 = 4 * h + 2 * m + l /\ r4 = 2 * m + l
  BY <1>10
<1>12. QED
  BY <1>1, <1>2, <1>9, <1>11 DEF s, a, b, h, m, l, r8, r4

(***************************************************************************)
(* A character, some characters and a character, position by position.     *)
(***************************************************************************)
LEMMA ThreeParts ==
  ASSUME NEW x \in Nat, NEW d \in Seq(Nat), NEW z \in Nat
  PROVE  LET text == <<x>> \o d \o <<z>>
         IN  /\ DOMAIN text = 1 .. Len(d) + 2
             /\ text[1] = x /\ text[Len(d) + 2] = z
             /\ \A i \in 1 .. Len(d) : text[i + 1] = d[i]
<1> DEFINE front == <<x>> \o d
<1>1. /\ <<x>> \in Seq(Nat) /\ Len(<<x>>) = 1 /\ <<x>>[1] = x
      /\ <<z>> \in Seq(Nat) /\ Len(<<z>>) = 1 /\ <<z>>[1] = z
      /\ Len(d) \in Nat
  OBVIOUS
<1>2. /\ front \in Seq(Nat) /\ Len(front) = 1 + Len(d)
      /\ \A i \in 1 .. 1 + Len(d) : front[i] = IF i <= 1 THEN <<x>>[i] ELSE d[i - 1]
  BY <1>1, ConcatProperties
<1> DEFINE text == front \o <<z>>
<1> HIDE DEF front
<1>3. /\ text \in Seq(Nat) /\ Len(text) = 1 + Len(d) + 1
      /\ \A i \in 1 .. 1 + Len(d) + 1 :
           text[i] = IF i <= 1 + Len(d) THEN front[i] ELSE <<z>>[i - (1 + Len(d))]
  BY <1>1, <1>2, ConcatProperties
<1> HIDE DEF text
<1>4. DOMAIN text = 1 .. Len(d) + 2
  BY <1>1, <1>3
<1>5. text[1] = x
  BY <1>1, <1>2, <1>3
<1>6. text[Len(d) + 2] = z
  BY <1>1, <1>3
<1>7. ASSUME NEW i \in 1 .. Len(d) PROVE text[i + 1] = d[i]
  <2>1. text[i + 1] = front[i + 1]
    <3> DEFINE j == i + 1
    <3>1. j \in 1 .. 1 + Len(d) + 1 /\ j <= 1 + Len(d)
      BY <1>1
    <3> HIDE DEF j
    <3>2. text[j] = front[j]
      BY <1>3, <3>1
    <3>3. QED
      BY <3>2 DEF j
  <2>2. front[i + 1] = d[i + 1 - 1]
    BY <1>1, <1>2
  <2>3. QED
    BY <1>1, <2>1, <2>2
<1>8. QED
  BY <1>4, <1>5, <1>6, <1>7 DEF text, front

\* The parts of a time.
Seconds(t) == t \div 8
Half(t) == (t \div 4) % 2
Quarter(t) == (t \div 2) % 2
Eighth(t) == t % 2
Rest(t) == t % 8

(***************************************************************************)
(* A time and its parts.                                                   *)
(***************************************************************************)
LEMMA Digits ==
  ASSUME NEW t \in Nat
  PROVE  /\ Seconds(t) \in Nat
         /\ Half(t) \in 0 .. 1 /\ Quarter(t) \in 0 .. 1 /\ Eighth(t) \in 0 .. 1
         /\ t = 8 * Seconds(t) + 4 * Half(t) + 2 * Quarter(t) + Eighth(t)
         /\ Rest(t) = 4 * Half(t) + 2 * Quarter(t) + Eighth(t)
BY OctalDigits DEF Seconds, Half, Quarter, Eighth, Rest

(***************************************************************************)
(* The decimals, by which of the parts are zero.                           *)
(***************************************************************************)
LEMMA DecimalsWritten ==
  ASSUME NEW t \in Nat
  PROVE  Decimals(t) = CASE Rest(t) = 0 -> << >>
                         [] Rest(t) = 4 -> <<Dot, Digit(Half(t))>>
                         [] Eighth(t) = 0 /\ Quarter(t) = 1 ->
                              <<Dot, Digit(Half(t)), Digit(Quarter(t))>>
                         [] OTHER -> <<Dot, Digit(Half(t)), Digit(Quarter(t)),
                                       Digit(Eighth(t))>>
<1>1. /\ Seconds(t) \in Nat
      /\ Half(t) \in 0 .. 1 /\ Quarter(t) \in 0 .. 1 /\ Eighth(t) \in 0 .. 1
      /\ t = 8 * Seconds(t) + 4 * Half(t) + 2 * Quarter(t) + Eighth(t)
      /\ Rest(t) = 4 * Half(t) + 2 * Quarter(t) + Eighth(t)
  BY Digits
<1>2. t % 4 = 2 <=> Eighth(t) = 0 /\ Quarter(t) = 1
  <2>1. t % 4 = 2 * Quarter(t) + Eighth(t)
    BY OctalDigits DEF Quarter, Eighth
  <2>2. QED
    BY <2>1, <1>1
<1>3. QED
  BY <1>2 DEF Decimals, Half, Quarter, Eighth, Rest

(***************************************************************************)
(* The characters of a timestamp, one by one: after the seconds comes the  *)
(* offset or a dot, and after each group of decimals the offset or the     *)
(* next one.                                                               *)
(***************************************************************************)
LEMMA CharactersWritten ==
  ASSUME NEW t \in Nat
  PROVE  LET text == Rfc3339(t)
         IN  /\ 1 \in DOMAIN text /\ text[1] = 48 + Seconds(t)
             /\ 2 \in DOMAIN text /\ text[2] = IF Rest(t) = 0 THEN 43 ELSE 46
             /\ Rest(t) # 0 =>
                  /\ 3 \in DOMAIN text /\ text[3] = 48 + Half(t)
                  /\ 4 \in DOMAIN text
                  /\ text[4] = IF Rest(t) = 4 THEN 43 ELSE 48 + Quarter(t)
             /\ Rest(t) # 0 /\ Rest(t) # 4 =>
                  /\ 5 \in DOMAIN text
                  /\ text[5] = IF Eighth(t) = 0 THEN 43 ELSE 48 + Eighth(t)
<1> DEFINE x == 48 + Seconds(t)
           half == 48 + Half(t)
           quarter == 48 + Quarter(t)
           eighth == 48 + Eighth(t)
           rest == Rest(t)
           d == Decimals(t)
           text == <<x>> \o d \o <<43>>
<1>1. /\ Seconds(t) \in Nat
      /\ Half(t) \in 0 .. 1 /\ Quarter(t) \in 0 .. 1 /\ Eighth(t) \in 0 .. 1
      /\ t = 8 * Seconds(t) + 4 * Half(t) + 2 * Quarter(t) + Eighth(t)
      /\ Rest(t) = 4 * Half(t) + 2 * Quarter(t) + Eighth(t)
  BY Digits
<1>2. /\ x \in Nat /\ half \in Nat /\ quarter \in Nat /\ eighth \in Nat
  BY <1>1
<1>3. Rfc3339(t) = text
  BY DEF Rfc3339, Digit, Plus, Seconds
<1>4. \/ rest = 0 /\ d = << >>
      \/ rest = 4 /\ d = <<46, half>>
      \/ rest # 0 /\ rest # 4 /\ eighth = 48 /\ d = <<46, half, quarter>>
      \/ rest # 0 /\ rest # 4 /\ eighth # 48 /\ d = <<46, half, quarter, eighth>>
  <2>1. Digit(Half(t)) = half /\ Digit(Quarter(t)) = quarter /\ Digit(Eighth(t)) = eighth
    BY DEF Digit
  <2>2. /\ Eighth(t) = 0 <=> eighth = 48
        /\ Eighth(t) = 1 => rest # 0 /\ rest # 4
        /\ Eighth(t) = 0 /\ Quarter(t) = 1 => rest # 0 /\ rest # 4
        /\ Eighth(t) = 0 /\ Quarter(t) = 0 => rest = 0 \/ rest = 4
        /\ Eighth(t) \in {0, 1} /\ Quarter(t) \in {0, 1}
    BY <1>1
  <2> HIDE DEF half, quarter, eighth, d
  <2>3. d = CASE rest = 0 -> << >>
                         [] rest = 4 -> <<46, half>>
                         [] Eighth(t) = 0 /\ Quarter(t) = 1 -> <<46, half, quarter>>
                         [] OTHER -> <<46, half, quarter, eighth>>
    BY <2>1, DecimalsWritten DEF Dot, d
  <2> HIDE DEF rest
  <2>4. QED
    BY <2>2, <2>3
<1> HIDE DEF half, quarter, eighth, rest, d, x, text
<1>5. d \in Seq(Nat)
  <2>1. << >> \in Seq(Nat) /\ <<46, half>> \in Seq(Nat)
    BY <1>2
  <2>2. <<46, half, quarter>> \in Seq(Nat) /\ <<46, half, quarter, eighth>> \in Seq(Nat)
    BY <1>2
  <2>3. QED
    BY <1>4, <2>1, <2>2
<1>6. /\ DOMAIN text = 1 .. Len(d) + 2
      /\ text[1] = x /\ text[Len(d) + 2] = 43
      /\ \A i \in 1 .. Len(d) : text[i + 1] = d[i]
  BY <1>2, <1>5, ThreeParts DEF text
<1>7. /\ 1 \in DOMAIN text /\ text[1] = x
      /\ 2 \in DOMAIN text /\ text[2] = IF rest = 0 THEN 43 ELSE 46
      /\ rest # 0 => /\ 3 \in DOMAIN text /\ text[3] = half
                     /\ 4 \in DOMAIN text
                     /\ text[4] = IF rest = 4 THEN 43 ELSE quarter
      /\ rest # 0 /\ rest # 4 =>
           /\ 5 \in DOMAIN text
           /\ text[5] = IF eighth = 48 THEN 43 ELSE eighth
  <2>1. CASE rest = 0 /\ d = << >>
    <3>1. Len(d) = 0
      BY <2>1
    <3>2. QED
      BY <1>6, <2>1, <3>1
  <2>2. CASE rest = 4 /\ d = <<46, half>>
    <3>1. Len(d) = 2 /\ d[1] = 46 /\ d[2] = half
      BY <2>2
    <3>2. DOMAIN text = 1 .. 4 /\ text[2] = 46 /\ text[3] = half /\ text[4] = 43
      BY <1>6, <3>1
    <3>3. QED
      BY <1>6, <2>2, <3>2
  <2>3. CASE rest # 0 /\ rest # 4 /\ eighth = 48 /\ d = <<46, half, quarter>>
    <3>1. Len(d) = 3 /\ d[1] = 46 /\ d[2] = half /\ d[3] = quarter
      BY <2>3
    <3>2. /\ DOMAIN text = 1 .. 5 /\ text[2] = 46 /\ text[3] = half
          /\ text[4] = quarter /\ text[5] = 43
      BY <1>6, <3>1
    <3>3. QED
      BY <1>6, <2>3, <3>2
  <2>4. CASE /\ rest # 0 /\ rest # 4 /\ eighth # 48
             /\ d = <<46, half, quarter, eighth>>
    <3>1. /\ Len(d) = 4 /\ d[1] = 46 /\ d[2] = half /\ d[3] = quarter
          /\ d[4] = eighth
      BY <2>4
    <3>2. /\ DOMAIN text = 1 .. 6 /\ text[2] = 46 /\ text[3] = half
          /\ text[4] = quarter /\ text[5] = eighth
      BY <1>6, <3>1
    <3>3. QED
      BY <1>6, <2>4, <3>2
  <2>5. QED
    BY <1>4, <2>1, <2>2, <2>3, <2>4
<1>8. eighth = 48 <=> Eighth(t) = 0
  BY <1>1 DEF eighth
<1>9. QED
  BY <1>3, <1>7, <1>8 DEF half, quarter, eighth, rest, x

(***************************************************************************)
(* An earlier time is the smaller text: of two timestamps that differ in   *)
(* length, the one that ends first has its offset, a plus, where the other *)
(* has a dot or a decimal, which are larger.                               *)
(***************************************************************************)
LEMMA TextOrder ==
  ASSUME NEW a \in Nat, NEW b \in Nat, a < b
  PROVE  TextBefore(Rfc3339(a), Rfc3339(b))
<1> DEFINE ta == Rfc3339(a)
           tb == Rfc3339(b)
<1> SUFFICES TextBefore(ta, tb)
  OBVIOUS
<1>1. /\ Seconds(a) \in Nat
      /\ Half(a) \in 0 .. 1 /\ Quarter(a) \in 0 .. 1 /\ Eighth(a) \in 0 .. 1
      /\ a = 8 * Seconds(a) + 4 * Half(a) + 2 * Quarter(a) + Eighth(a)
      /\ Rest(a) = 4 * Half(a) + 2 * Quarter(a) + Eighth(a)
  BY Digits
<1>2. /\ Seconds(b) \in Nat
      /\ Half(b) \in 0 .. 1 /\ Quarter(b) \in 0 .. 1 /\ Eighth(b) \in 0 .. 1
      /\ b = 8 * Seconds(b) + 4 * Half(b) + 2 * Quarter(b) + Eighth(b)
      /\ Rest(b) = 4 * Half(b) + 2 * Quarter(b) + Eighth(b)
  BY Digits
<1>3. ASSUME NEW i \in 1 .. 5, i \in DOMAIN ta, i \in DOMAIN tb, ta[i] < tb[i],
             \A j \in 1 .. 4 : j < i => ta[j] = tb[j]
      PROVE  TextBefore(ta, tb)
  BY <1>3 DEF TextBefore
<1>4. \/ Seconds(a) < Seconds(b)
      \/ Seconds(a) = Seconds(b) /\ Rest(a) < Rest(b)
  BY <1>1, <1>2
<1>5. CASE Seconds(a) < Seconds(b)
  <2>1. 1 \in DOMAIN ta /\ 1 \in DOMAIN tb /\ ta[1] < tb[1]
    BY <1>5, CharactersWritten, <1>1, <1>2
  <2> HIDE DEF ta, tb
  <2>2. QED
    BY <1>3, <2>1
<1>6. CASE Seconds(a) = Seconds(b) /\ Rest(a) < Rest(b)
  <2>1. Rest(b) # 0 /\ Rest(a) \in Nat /\ Rest(b) \in Nat
    BY <1>6, <1>1, <1>2
  <2>2. 1 \in DOMAIN ta /\ 1 \in DOMAIN tb /\ ta[1] = tb[1]
    BY <1>6, CharactersWritten
  <2>3. /\ 2 \in DOMAIN ta /\ 2 \in DOMAIN tb /\ tb[2] = 46
        /\ ta[2] = IF Rest(a) = 0 THEN 43 ELSE 46
    BY <2>1, CharactersWritten
  <2>4. /\ 3 \in DOMAIN tb /\ tb[3] = 48 + Half(b)
        /\ 4 \in DOMAIN tb /\ tb[4] = IF Rest(b) = 4 THEN 43 ELSE 48 + Quarter(b)
        /\ Rest(b) # 4 => 5 \in DOMAIN tb /\ tb[5] = IF Eighth(b) = 0 THEN 43 ELSE 48 + Eighth(b)
    BY <2>1, CharactersWritten
  <2>5. Rest(a) # 0 =>
        /\ 3 \in DOMAIN ta /\ ta[3] = 48 + Half(a)
        /\ 4 \in DOMAIN ta /\ ta[4] = IF Rest(a) = 4 THEN 43 ELSE 48 + Quarter(a)
        /\ Rest(a) # 4 => 5 \in DOMAIN ta /\ ta[5] = IF Eighth(a) = 0 THEN 43 ELSE 48 + Eighth(a)
    BY CharactersWritten
  <2> HIDE DEF ta, tb
  <2>6. CASE Rest(a) = 0
    BY <1>3, <2>2, <2>3, <2>6
  <2>7. CASE Rest(a) # 0 /\ Half(a) < Half(b)
    <3>1. 3 \in DOMAIN ta /\ 3 \in DOMAIN tb /\ ta[3] < tb[3] /\ ta[2] = tb[2]
      BY <2>3, <2>4, <2>5, <1>1, <1>2, <2>7
    <3>2. \A j \in 1 .. 4 : j < 3 => ta[j] = tb[j]
      BY <2>2, <3>1
    <3>3. QED
      BY <1>3, <3>1, <3>2
  <2>8. CASE Rest(a) # 0 /\ Half(a) = Half(b)
    <3>1. 3 \in DOMAIN ta /\ 3 \in DOMAIN tb /\ ta[3] = tb[3] /\ ta[2] = tb[2]
      BY <2>3, <2>4, <2>5, <1>1, <1>2, <2>8
    <3>2. 4 \in DOMAIN ta /\ 4 \in DOMAIN tb
      BY <2>4, <2>5, <2>8
    <3>3. CASE Rest(a) = 4 \/ Quarter(a) < Quarter(b)
      <4>1. Rest(b) # 4
        BY <1>6, <1>1, <1>2, <2>8, <3>3
      <4>2. ta[4] < tb[4]
        BY <2>4, <2>5, <1>1, <1>2, <2>8, <3>3, <4>1
      <4>3. \A j \in 1 .. 4 : j < 4 => ta[j] = tb[j]
        BY <2>2, <3>1
      <4>4. QED
        BY <1>3, <3>2, <4>2, <4>3
    <3>4. CASE Rest(a) # 4 /\ Quarter(a) = Quarter(b)
      <4>1. Rest(b) # 4 /\ Eighth(a) = 0 /\ Eighth(b) = 1
        BY <1>6, <1>1, <1>2, <2>8, <3>4
      <4>2. 5 \in DOMAIN ta /\ 5 \in DOMAIN tb /\ ta[5] < tb[5] /\ ta[4] = tb[4]
        BY <2>4, <2>5, <2>8, <3>4, <4>1
      <4>3. \A j \in 1 .. 4 : j < 5 => ta[j] = tb[j]
        BY <2>2, <3>1, <4>2
      <4>4. QED
        BY <1>3, <4>2, <4>3
    <3>5. QED
      BY <1>6, <1>1, <1>2, <2>8, <3>3, <3>4
  <2>9. QED
    BY <1>6, <1>1, <1>2, <2>6, <2>7, <2>8
<1>7. QED
  BY <1>4, <1>5, <1>6

\* The rows of a list.
Listed(list) == {list[i] : i \in DOMAIN list}

\* What RecentAreNewest asks of a list.
NewestListed ==
  /\ report.recent \in Seq(1 .. Len(rows))
  /\ \A i, j \in DOMAIN report.recent :
       i < j => rows[report.recent[j]].created_at <= rows[report.recent[i]].created_at
  /\ \A k \in (1 .. report.total) \ Listed(report.recent) :
       /\ Len(report.recent) = Limit
       /\ \A i \in Listed(report.recent) : rows[k].created_at <= rows[i].created_at

\* The inductive invariant of RecentAreNewest: the list is the last answer.
NewestInv == StatsInv /\ (pending = << >> => NewestListed)

(***************************************************************************)
(* Rows that are in order as text are in order by the clock.               *)
(***************************************************************************)
LEMMA TimesOrdered ==
  ASSUME TableType, NEW i \in DOMAIN rows, NEW j \in DOMAIN rows,
         ~Older(rows[i], rows[j])
  PROVE  rows[j].created_at <= rows[i].created_at
<1>1. \A row \in Row : row.created_at \in Times
  BY DEF Row
<1>2. rows[i] \in Row /\ rows[j] \in Row
  BY DEF TableType
<1>3. rows[i].created_at \in Nat /\ rows[j].created_at \in Nat
  BY <1>1, <1>2, TimesAssumption
<1>4. QED
  BY <1>3, TextOrder DEF Older

(***************************************************************************)
(* A list of different rows that is as long as the table has all of them.  *)
(***************************************************************************)
LEMMA ShortListComplete ==
  ASSUME NEW l \in Nat, NEW list \in [1 .. l -> 1 .. l],
         \A i, j \in 1 .. l : i < j => list[i] # list[j],
         NEW k \in 1 .. l
  PROVE  k \in Listed(list)
<1> SUFFICES ASSUME k \notin Listed(list) PROVE FALSE
  OBVIOUS
<1>1. list \in [1 .. l -> (1 .. l) \ {k}]
  BY DEF Listed
<1>2. IsFiniteSet(1 .. l) /\ Cardinality(1 .. l) = l
  BY FS_Interval
<1>3. IsFiniteSet((1 .. l) \ {k}) /\ Cardinality((1 .. l) \ {k}) = l - 1
  BY <1>2, FS_RemoveElement
<1>4. \E i, j \in 1 .. l : i # j /\ list[i] = list[j]
  <2>1. Cardinality((1 .. l) \ {k}) < Cardinality(1 .. l)
    BY <1>2, <1>3
  <2>2. QED
    BY <1>1, <1>2, <1>3, <2>1, FS_PigeonHole, ZenonT(30)
<1>5. QED
  BY <1>4

(***************************************************************************)
(* A function on the first n numbers is a sequence of length n.            *)
(***************************************************************************)
LEMMA FunctionIsSeq ==
  ASSUME NEW n \in Nat, NEW S, NEW f \in [1 .. n -> S]
  PROVE  f \in Seq(S) /\ Len(f) = n /\ DOMAIN f = 1 .. n
OBVIOUS

(***************************************************************************)
(* What get_recent_executions returns, by the clock.                       *)
(***************************************************************************)
LEMMA NewestFirstListed ==
  ASSUME TableType, NEW list \in NewestFirst(Limit), NEW total \in Nat, total <= Len(rows)
  PROVE  /\ list \in Seq(1 .. Len(rows))
         /\ \A i, j \in DOMAIN list :
              i < j => rows[list[j]].created_at <= rows[list[i]].created_at
         /\ \A k \in (1 .. total) \ Listed(list) :
              /\ Len(list) = Limit
              /\ \A i \in Listed(list) : rows[k].created_at <= rows[i].created_at
<1> DEFINE length == IF Len(rows) < Limit THEN Len(rows) ELSE Limit
<1>1. Len(rows) \in Nat /\ DOMAIN rows = 1 .. Len(rows)
  BY DEF TableType
<1>2. /\ Len(rows) \in Nat /\ DOMAIN rows = 1 .. Len(rows)
      /\ length \in Nat /\ (length = Limit \/ length = Len(rows))
  BY LimitAssumption DEF TableType
<1>3. /\ list \in [1 .. length -> 1 .. Len(rows)]
      /\ \A i, j \in 1 .. length :
           i < j => list[i] # list[j] /\ ~Older(rows[list[i]], rows[list[j]])
      /\ \A k \in DOMAIN rows \ Listed(list) :
           \A i \in 1 .. length : ~Older(rows[list[i]], rows[k])
  BY <1>2 DEF NewestFirst, Listed
<1> HIDE DEF length
<1>4. list \in Seq(1 .. Len(rows)) /\ Len(list) = length /\ DOMAIN list = 1 .. length
  BY <1>2, <1>3, FunctionIsSeq
<1>5. \A i, j \in DOMAIN list :
        i < j => rows[list[j]].created_at <= rows[list[i]].created_at
  <2>1. SUFFICES ASSUME NEW i \in DOMAIN list, NEW j \in DOMAIN list, i < j
                 PROVE  rows[list[j]].created_at <= rows[list[i]].created_at
    OBVIOUS
  <2>2. list[i] \in DOMAIN rows /\ list[j] \in DOMAIN rows
    BY <1>2, <1>3, <1>4
  <2>3. QED
    BY <1>3, <1>4, <2>1, <2>2, TimesOrdered
<1>6. ASSUME NEW k \in (1 .. total) \ Listed(list)
      PROVE  /\ Len(list) = Limit
             /\ \A i \in Listed(list) : rows[k].created_at <= rows[i].created_at
  <2>1. k \in DOMAIN rows /\ k \in 1 .. Len(rows)
    <3>1. k \in Nat /\ 1 <= k /\ k <= total
      OBVIOUS
    <3>2. k \in 1 .. Len(rows)
      BY <1>1, <3>1
    <3>3. QED
      BY <1>1, <3>2
  <2>2. length # Len(rows)
    BY <1>2, <1>3, <2>1, ShortListComplete
  <2>3. ASSUME NEW i \in Listed(list) PROVE rows[k].created_at <= rows[i].created_at
    <3>1. PICK n \in 1 .. length : list[n] = i
      BY <1>4 DEF Listed
    <3>2. i \in DOMAIN rows /\ ~Older(rows[i], rows[k])
      BY <1>2, <1>3, <2>1, <3>1
    <3>3. QED
      BY <2>1, <3>2, TimesOrdered
  <2>4. QED
    BY <1>2, <1>4, <2>2, <2>3
<1>7. QED
  BY <1>4, <1>5, <1>6

(***************************************************************************)
(* Rows that come later change nothing about the list.                     *)
(***************************************************************************)
LEMMA RecordingKeepsList ==
  ASSUME StatsInv, NewestListed, RecordExecution
  PROVE  NewestListed'
<1>1. PICK row \in Row : rows' = Append(rows, row)
  BY DEF RecordExecution
<1>2. rows \in Seq(Row) /\ Len(rows) \in Nat
  BY DEF StatsInv, TableType
<1>3. Len(rows') = Len(rows) + 1 /\ \A i \in 1 .. Len(rows) : rows'[i] = rows[i]
  BY <1>1, <1>2
<1>4. report' = report
  BY DEF RecordExecution
<1>5. report.total \in Nat /\ report.total <= Len(rows)
  BY DEF StatsInv, ReportAfter
<1>6. PICK list : list = report.recent
  OBVIOUS
<1>7. /\ list \in Seq(1 .. Len(rows))
      /\ \A i, j \in DOMAIN list :
           i < j => rows[list[j]].created_at <= rows[list[i]].created_at
      /\ \A k \in (1 .. report.total) \ Listed(list) :
           /\ Len(list) = Limit
           /\ \A i \in Listed(list) : rows[k].created_at <= rows[i].created_at
  BY <1>6 DEF NewestListed
<1>8. \A i \in DOMAIN list : list[i] \in 1 .. Len(rows)
  BY <1>7
<1>9. Listed(list) \subseteq 1 .. Len(rows)
  BY <1>8 DEF Listed
<1>10. list \in Seq(1 .. Len(rows'))
  <2>1. 1 .. Len(rows) \subseteq 1 .. Len(rows')
    BY <1>2, <1>3
  <2>2. QED
    BY <1>7, <2>1, SeqMonotonic
<1>11. \A i, j \in DOMAIN list :
         i < j => rows'[list[j]].created_at <= rows'[list[i]].created_at
  BY <1>3, <1>7, <1>8
<1>12. \A k \in (1 .. report.total) \ Listed(list) :
         /\ Len(list) = Limit
         /\ \A i \in Listed(list) : rows'[k].created_at <= rows'[i].created_at
  <2> SUFFICES ASSUME NEW k \in (1 .. report.total) \ Listed(list),
                      NEW i \in Listed(list)
               PROVE  rows'[k].created_at <= rows'[i].created_at
    BY <1>7
  <2>1. rows[k].created_at <= rows[i].created_at
    BY <1>7
  <2>2. i \in 1 .. Len(rows) /\ k \in 1 .. Len(rows)
    BY <1>2, <1>5, <1>9
  <2>3. QED
    BY <1>3, <2>1, <2>2
<1>13. report'.recent = list /\ report'.total = report.total
  BY <1>4, <1>6
<1>14. QED
  BY <1>10, <1>11, <1>12, <1>13 DEF NewestListed

(***************************************************************************)
(* The recent executions are asked for last.                               *)
(***************************************************************************)
LEMMA LastAsked ==
  ASSUME StatsInv, NEW question, NEW newReport, Ask(question, newReport), pending' = << >>
  PROVE  question = "recent"
<1>1. PICK n \in 1 .. 5 : pending = SubSeq(Questions, n, 4)
  BY DEF StatsInv, ReportAfter
<1>2. n \in 1 .. 4 /\ question = Questions[n] /\ pending' = SubSeq(Questions, n + 1, 4)
  BY <1>1, AskedInOrder
<1>3. Len(SubSeq(Questions, n + 1, 4)) = 5 - (n + 1)
  BY <1>2, QuestionsLeft
<1>4. n = 4
  BY <1>2, <1>3
<1>5. QED
  BY <1>2, <1>4, QuestionsInOrder

(***************************************************************************)
(* The recent executions of /stats are the newest of those it has counted, *)
(* in the order of the clock, whatever is recorded meanwhile.              *)
(***************************************************************************)
THEOREM RecentIsRight == Spec => []RecentAreNewest
<1>1. Init => NewestInv
  <2> SUFFICES ASSUME Init PROVE NewestInv
    OBVIOUS
  <2>1. pending # << >>
    BY DEF Init, Questions
  <2>2. QED
    BY <2>1, InitStatsInv DEF NewestInv
<1>2. ASSUME NewestInv, [Next]_statsVars
      PROVE  NewestInv'
  <2>1. StatsInv'
    BY <1>2, StatsInvStep DEF NewestInv
  <2> SUFFICES ASSUME pending' = << >> PROVE NewestListed'
    BY <2>1 DEF NewestInv
  <2>2. StatsInv
    BY <1>2 DEF NewestInv
  <2>3. CASE RecordExecution
    <3>1. pending' = pending
      BY <2>3 DEF RecordExecution
    <3>2. QED
      BY <1>2, <2>3, <3>1, RecordingKeepsList DEF NewestInv
  <2>4. CASE AskTotal
    BY <2>2, <2>4, LastAsked DEF AskTotal
  <2>5. CASE AskSuccessful
    BY <2>2, <2>5, LastAsked DEF AskSuccessful
  <2>6. CASE AskByLanguage
    BY <2>2, <2>6, LastAsked DEF AskByLanguage
  <2>7. CASE AskRecent
    <3>1. PICK list \in NewestFirst(Limit) :
            Ask("recent", [report EXCEPT !.recent = list])
      BY <2>7 DEF AskRecent, Recent
    <3>2. rows' = rows /\ report' = [report EXCEPT !.recent = list]
      BY <3>1 DEF Ask
    <3>3. /\ report = [total |-> report.total, successful |-> report.successful,
                       by_language |-> report.by_language, recent |-> report.recent]
          /\ report.total \in Nat /\ report.total <= Len(rows)
      BY <2>2 DEF StatsInv, ReportAfter
    <3>4. report'.recent = list /\ report'.total = report.total
      BY <3>2, <3>3
    <3>5. TableType
      BY <2>2 DEF StatsInv
    <3>6. PICK total : total = report.total
      OBVIOUS
    <3>7. total \in Nat /\ total <= Len(rows)
      BY <3>3, <3>6
    <3>8. /\ list \in Seq(1 .. Len(rows))
          /\ \A i, j \in DOMAIN list :
              i < j => rows[list[j]].created_at <= rows[list[i]].created_at
          /\ \A k \in (1 .. total) \ Listed(list) :
              /\ Len(list) = Limit
              /\ \A i \in Listed(list) : rows[k].created_at <= rows[i].created_at
      BY <3>5, <3>7, NewestFirstListed
    <3>9. QED
      BY <3>2, <3>4, <3>6, <3>8 DEF NewestListed
  <2>8. CASE EndRequest
    BY <2>8, QuestionsInOrder DEF EndRequest
  <2>9. CASE UNCHANGED statsVars
    BY <1>2, <2>9 DEF statsVars, NewestInv, NewestListed
  <2>10. QED
    BY <1>2, <2>3, <2>4, <2>5, <2>6, <2>7, <2>8, <2>9 DEF Next
<1>3. NewestInv => RecentAreNewest
  <2> SUFFICES ASSUME NewestInv, Answered("recent") PROVE RecentAreNewest
    BY DEF RecentAreNewest
  <2>1. PICK n \in 1 .. 5 : pending = SubSeq(Questions, n, 4)
    BY DEF NewestInv, StatsInv, ReportAfter
  <2>2. 4 < n
    BY <2>1, AnsweredQuestions DEF Answered
  <2>3. Len(pending) = 0 /\ pending \in Seq(Query)
    BY <2>1, <2>2, QuestionsLeft
  <2>4. pending = << >>
    BY <2>3
  <2>5. NewestListed
    BY <2>4 DEF NewestInv
  <2>6. QED
    BY <2>5 DEF NewestListed, RecentAreNewest, Listed
<1>4. QED
  BY <1>1, <1>2, <1>3, PTL DEF Spec

=============================================================================
