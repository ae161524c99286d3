---------------------------- MODULE VlmCallProofs ----------------------------
(***************************************************************************)
(* VlmCall for every answer of the service, every set of texts and every   *)
(* cap: the bounds of the retry ladder, what it retries, and that no       *)
(* defect a judge found is lost or invented.                               *)
(***************************************************************************)
EXTENDS VlmCall, SeqFiltersProofs, FiniteSetTheorems

\* What the service can answer to an attempt.
ServiceAnswers ==
  [is : {"body"}, text : Descriptions \cup Verdicts]
    \cup [is : {"network", "other"}]
    \cup [is : {"http", "inband"}, code : Codes \cup {NotInt}]

-----------------------------------------------------------------------------
(* The ladder *)

\* The state of a call by its program counter: how many attempts were made and
\* what they were answered.
LadderInv ==
  /\ client \in {"openrouter", "sdk"} /\ judges \in 0..2
  /\ pc \in {"send", "asleep", "returned", "done"}
  /\ log \in Seq(ServiceAnswers)
  /\ client = "sdk" => pc # "asleep" /\ (pc = "send" => Len(log) = 0)
  /\ pc = "send" => Len(log) < TotalAttempts
  /\ pc = "asleep" => Len(log) \in 1..(TotalAttempts - 1)
  /\ pc = "returned" => Len(log) \in 1..TotalAttempts
  /\ pc = "done" => Len(log) = 0
  /\ slept = Running(RetrySchedule)[IF pc \in {"asleep", "returned"} THEN Len(log) - 1 ELSE Len(log)]
  /\ \A k \in 1..Len(log) : pc \in {"send", "asleep"} \/ k < Len(log) => Transient(log[k])
  /\ pc = "returned" => (Transient(log[Len(log)]) => Len(log) = TotalAttempts)

\* The ladder tries again after exactly the answers that are transient.
LEMMA RetryableIsTransient ==
  ASSUME NEW answer \in ServiceAnswers
  PROVE  Retryable(answer) <=> Transient(answer)
<1>1. CASE answer \in [is : {"body"}, text : Descriptions \cup Verdicts] \cup [is : {"network", "other"}]
  BY <1>1 DEF Retryable, Transient
<1>2. CASE answer \in [is : {"http", "inband"}, code : Codes \cup {NotInt}]
  <2>1. answer.code = NotInt \/ answer.code \in 100..599
    BY <1>2, VlmCallAssumption
  <2>2. NotInt \notin {429} \cup 500..599
    BY VlmCallAssumption
  <2> QED BY <1>2, <2>1, <2>2 DEF Retryable, Transient
<1> QED BY <1>1, <1>2 DEF ServiceAnswers

\* The sums of the schedule: what k sleeps take.
LEMMA Sleeps ==
  /\ Len(RetrySchedule) = 4 /\ TotalAttempts = 5
  /\ Running(RetrySchedule)[0] = 0
  /\ \A k \in 1..4 : Running(RetrySchedule)[k] = Running(RetrySchedule)[k-1] + RetrySchedule[k]
<1>1. Len(RetrySchedule) = 4
  BY DEF RetrySchedule
<1>2. /\ Running(RetrySchedule)[0] = 0
      /\ \A n \in 0..3 : Running(RetrySchedule)[n+1] = Running(RetrySchedule)[n] + RetrySchedule[n+1]
  <2>1. Len(RetrySchedule) \in Nat
    BY <1>1
  <2> HIDE DEF RetrySchedule
  <2> QED BY <1>1, <2>1, RunningRecursion
<1>3. ASSUME NEW k \in 1..4
      PROVE  Running(RetrySchedule)[k] = Running(RetrySchedule)[k-1] + RetrySchedule[k]
  <2>1. k - 1 \in 0..3 /\ (k - 1) + 1 = k
    OBVIOUS
  <2> QED BY <1>2, <2>1
<1> QED BY <1>1, <1>2, <1>3 DEF TotalAttempts

\* An attempt of the OpenRouter client.
LEMMA AttemptLadder ==
  ASSUME LadderInv, pc = "send", client = "openrouter", NEW answer \in ServiceAnswers, Attempt(answer)
  PROVE  LadderInv'
<1> DEFINE n == Len(log)
<1>1. /\ log' \in Seq(ServiceAnswers) /\ Len(log') = n + 1 /\ log'[n + 1] = answer
      /\ \A k \in 1..n : log'[k] = log[k]
      /\ n \in Nat
  BY DEF LadderInv, Attempt
<1>2. n < 5 /\ TotalAttempts = 5
  BY Sleeps DEF LadderInv
<1>3. Retryable(answer) <=> Transient(answer)
  BY RetryableIsTransient
<1>4. \A k \in 1..n : Transient(log[k])
  BY DEF LadderInv
<1>5. /\ pc' = IF Retryable(answer) /\ n + 1 < TotalAttempts THEN "asleep" ELSE "returned"
      /\ UNCHANGED <<client, judges, slept>>
  BY DEF Attempt
<1>6. slept' = Running(RetrySchedule)[n]
  BY <1>5 DEF LadderInv
<1> HIDE DEF n
<1>7. \A k \in 1..Len(log') : pc' \in {"send", "asleep"} \/ k < Len(log') => Transient(log'[k])
  <2> SUFFICES ASSUME NEW k \in 1..Len(log'), pc' \in {"send", "asleep"} \/ k < Len(log')
               PROVE  Transient(log'[k])
    OBVIOUS
  <2>1. CASE k \in 1..n
    BY <1>1, <1>4, <2>1
  <2>2. CASE k = n + 1
    BY <1>1, <1>3, <1>5, <2>2
  <2> QED BY <1>1, <2>1, <2>2
<1>8. pc' \in {"asleep", "returned"} /\ Len(log') - 1 = n
  BY <1>1, <1>5
<1>9. pc' = "returned" => (Transient(log'[Len(log')]) => Len(log') = TotalAttempts)
  BY <1>1, <1>2, <1>3, <1>5
<1>10. /\ pc' = "asleep" => Len(log') \in 1..(TotalAttempts - 1)
       /\ pc' = "returned" => Len(log') \in 1..TotalAttempts
  BY <1>1, <1>2, <1>5
<1>11. client' = "openrouter" /\ judges' \in 0..2
  BY <1>5 DEF LadderInv
<1>12. slept' = Running(RetrySchedule)[IF pc' \in {"asleep", "returned"} THEN Len(log') - 1 ELSE Len(log')]
  BY <1>6, <1>8
<1> QED BY <1>1, <1>7, <1>8, <1>9, <1>10, <1>11, <1>12 DEF LadderInv, Running, RetrySchedule, TotalAttempts

\* The ladder's invariant holds of every reachable state.
LEMMA Laddering == Spec => []LadderInv
<1>1. Init => LadderInv
  <2> SUFFICES ASSUME Init PROVE LadderInv
    OBVIOUS
  <2>1. Running(RetrySchedule)[0] = 0 /\ TotalAttempts = 5
    BY Sleeps
  <2>2. log \in Seq(ServiceAnswers) /\ Len(log) = 0
    BY DEF Init
  <2> QED BY <2>1, <2>2 DEF Init, LadderInv
<1>2. LadderInv /\ [Next]_vars => LadderInv'
  <2> SUFFICES ASSUME LadderInv, [Next]_vars PROVE LadderInv'
    OBVIOUS
  <2>1. CASE Send
    <3>1. PICK answer \in ServiceAnswers : Attempt(answer)
      BY <2>1 DEF Send, Completions, ServiceAnswers
    <3> QED BY <2>1, <3>1, AttemptLadder DEF Send
  <2>2. CASE Wake
    <3>1. Len(log) \in 1..4 /\ slept = Running(RetrySchedule)[Len(log) - 1]
      BY <2>2, Sleeps DEF Wake, LadderInv
    <3>2. slept' = Running(RetrySchedule)[Len(log)]
      BY <2>2, <3>1, Sleeps DEF Wake
    <3>3. pc' = "send" /\ UNCHANGED <<client, judges, log>> /\ client # "sdk"
      BY <2>2 DEF Wake, LadderInv
    <3>4. \A k \in 1..Len(log) : Transient(log[k])
      BY <2>2 DEF Wake, LadderInv
    <3>5. Len(log) < TotalAttempts
      <4>1. Len(log) \in 1..4
        BY <3>1
      <4>2. TotalAttempts = 5
        BY Sleeps
      <4> QED BY <4>1, <4>2
    <3> QED BY <3>2, <3>3, <3>4, <3>5 DEF LadderInv, Running, RetrySchedule, TotalAttempts
  <2>3. CASE SdkSend
    <3>1. PICK answer \in Completions \cup {[is |-> "other"]} : log' = <<answer>>
      BY <2>3 DEF SdkSend
    <3>2. answer \in ServiceAnswers /\ ~Transient(answer)
      BY <3>1 DEF Completions, ServiceAnswers, Transient
    <3>3. pc' = "returned" /\ pc = "send" /\ UNCHANGED <<client, judges, slept>>
      BY <2>3 DEF SdkSend
    <3>4. Len(log) = 0 /\ slept' = Running(RetrySchedule)[0]
      BY <2>3, <3>3 DEF SdkSend, LadderInv
    <3>5. log' \in Seq(ServiceAnswers) /\ Len(log') = 1 /\ log'[1] = answer
      BY <3>1, <3>2
    <3>6. TotalAttempts = 5
      BY Sleeps
    <3> QED BY <3>2, <3>3, <3>4, <3>5, <3>6 DEF LadderInv, Running, RetrySchedule, TotalAttempts
  <2>4. CASE Return
    <3>1. log' = <<>> /\ slept' = 0 /\ pc' \in {"send", "done"} /\ UNCHANGED <<client, judges>>
      BY <2>4 DEF Return
    <3>2. log' \in Seq(ServiceAnswers) /\ Len(log') = 0
      BY <3>1
    <3> QED BY <3>1, <3>2, Sleeps DEF LadderInv, Running, RetrySchedule
  <2>5. CASE UNCHANGED vars
    BY <2>5 DEF vars, LadderInv, Running, RetrySchedule, TotalAttempts
  <2> QED BY <2>1, <2>2, <2>3, <2>4, <2>5 DEF Next
<1> QED BY <1>1, <1>2, PTL DEF Spec

\* chat_request() tries again after what a retry may cure and after nothing
\* else, and gives up on it only after its five attempts.
THEOREM LadderCorrect == Spec => []LadderOutcome
<1>1. LadderInv => LadderOutcome
  BY DEF LadderInv, LadderOutcome, Last
<1> QED BY <1>1, Laddering, PTL

-----------------------------------------------------------------------------
(* The verdict *)

\* The three questions.
LEMMA TheQuestions ==
  /\ Questions = {"hallucination", "mermaid_fit", "language"}
  /\ QuestionList \in Seq(Questions) /\ NoRepeats(QuestionList)
  /\ Elements(QuestionList) = Questions
<1>1. Len(QuestionList) = 3 /\ DOMAIN QuestionList = 1..3
  BY DEF QuestionList
<1>2. QuestionList[1] = "hallucination" /\ QuestionList[2] = "mermaid_fit" /\ QuestionList[3] = "language"
  BY DEF QuestionList
<1>3. 1..3 = {1, 2, 3}
  OBVIOUS
<1>4. Questions = {"hallucination", "mermaid_fit", "language"}
  BY <1>1, <1>2, <1>3 DEF Questions, Range
<1>5. QuestionList \in Seq({"hallucination", "mermaid_fit", "language"})
  BY DEF QuestionList
<1>6. NoRepeats(QuestionList)
  BY <1>1, <1>2, <1>3 DEF NoRepeats
<1>7. Elements(QuestionList) = {"hallucination", "mermaid_fit", "language"}
  BY <1>1, <1>2, <1>3 DEF Elements
<1> QED BY <1>4, <1>5, <1>6, <1>7

\* The two ways of saying what is in a sequence, and that nothing is twice.
LEMMA AsSequences ==
  ASSUME NEW S, NEW s \in Seq(S)
  PROVE  /\ Range(s) = Elements(s) /\ Range(s) \subseteq S
         /\ IsInjective(s) <=> NoRepeats(s)
<1>1. DOMAIN s = 1..Len(s)
  OBVIOUS
<1>2. Elements(s) \subseteq S
  BY ElementsType
<1> QED BY <1>1, <1>2 DEF Range, Elements, IsInjective, NoRepeats

\* _send_safely() hands on a text or None.
LEMMA SafeText ==
  ASSUME LadderInv, pc = "returned"
  PROVE  SentSafely \in Text \cup {NoText}
<1> DEFINE answer == log[Len(log)]
<1>1. answer \in ServiceAnswers
  <2>1. log \in Seq(ServiceAnswers)
    BY DEF LadderInv
  <2>2. Len(log) \in 1..Len(log)
    <3>1. Len(log) \in 1..TotalAttempts
      BY DEF LadderInv
    <3>2. TotalAttempts = 5
      BY Sleeps
    <3> QED BY <3>1, <3>2
  <2> QED BY <2>1, <2>2
<1>2. SentSafely = IF answer.is = "body" /\ answer.text \notin {NoText, <<>>}
                   THEN Cut(answer.text) ELSE NoText
  BY DEF SentSafely, Last
<1> HIDE DEF answer
<1>3. CASE answer.is = "body" /\ answer.text \notin {NoText, <<>>}
  <2>1. answer.text \in Text
    <3>1. answer.text \in Descriptions \cup Verdicts
      BY <1>1, <1>3 DEF ServiceAnswers
    <3> QED BY <1>3, <3>1, VlmCallAssumption
  <2> DEFINE t == answer.text
             T == {Len(t), MaxLines}
  <2>2. Len(t) \in Nat /\ MaxLines \in Nat
    BY <2>1, VlmCallAssumption DEF Text
  <2>3. Min(T) \in 0..Len(t)
    <3>1. \E x \in T : \A y \in T : x <= y
      BY <2>2
    <3>2. Min(T) \in T /\ \A y \in T : Min(T) <= y
      BY <3>1 DEF Min
    <3> QED BY <2>2, <3>2
  <2> HIDE DEF t, T
  <2>4. t \in Text
    BY <2>1 DEF t
  <2>5. SubSeq(t, 1, Min(T)) \in Text
    BY <2>3, <2>4 DEF Text
  <2> QED BY <1>2, <1>3, <2>5 DEF Cut, t, T
<1> QED BY <1>2, <1>3

\* The last of the lines that answer a question.
LEMMA LastLine ==
  ASSUME NEW n \in Nat, NEW L \in SUBSET (1..n), L # {}
  PROVE  Max(L) \in L
<1> DEFINE T == {n - k : k \in L}
<1>1. T \in SUBSET Nat /\ T # {}
  OBVIOUS
<1>2. PICK x \in T : \A y \in T : x <= y
  BY <1>1, LeastNat
<1>3. PICK k \in L : x = n - k
  OBVIOUS
<1>4. \A m \in L : k >= m
  <2> SUFFICES ASSUME NEW m \in L PROVE k >= m
    OBVIOUS
  <2>1. n - m \in T
    OBVIOUS
  <2>2. n - k <= n - m
    BY <1>2, <1>3, <2>1
  <2>3. k \in Int /\ m \in Int
    OBVIOUS
  <2> QED BY <2>2, <2>3
<1> QED BY <1>4 DEF Max

\* The line that makes a question a defect.
BadLine(q) == [on |-> q, says |-> Bad(q)]

\* What judge_defects() makes of a verdict: nothing that was not said, and all
\* that was said if the verdict is clear.
LEMMA DefectsSaid ==
  ASSUME NEW text \in Text \cup {NoText}
  PROVE  /\ Defects(text) \in Seq(Questions) /\ NoRepeats(Defects(text))
         /\ \A q \in Questions :
              /\ q \in Elements(Defects(text)) => text # NoText /\ BadLine(q) \in Range(text)
              /\ Clear(text) /\ BadLine(q) \in Range(text) => q \in Elements(Defects(text))
<1> DEFINE Lines(q) == {k \in DOMAIN text : text[k] # Noise /\ text[k].on = q}
           D == {q \in Questions : AnswerTo(text, q) = Bad(q)}
<1>1. Kept(QuestionList, D) \in Seq(Questions) /\ NoRepeats(Kept(QuestionList, D))
      /\ Elements(Kept(QuestionList, D)) = D
  <2>1. D \subseteq Questions
    OBVIOUS
  <2>2. QuestionList \in Seq(Questions) /\ NoRepeats(QuestionList) /\ Elements(QuestionList) = Questions
    BY TheQuestions
  <2> HIDE DEF D
  <2>3. Kept(QuestionList, D) \in Seq(Questions) /\ Elements(Kept(QuestionList, D)) = Elements(QuestionList) \cap D
    BY <2>2, KeptElements
  <2>4. NoRepeats(Kept(QuestionList, D))
    BY <2>2, KeptNoRepeats
  <2> QED BY <2>1, <2>2, <2>3, <2>4
<1>2. /\ ~WellFormed(text) => Defects(text) = <<>>
      /\ WellFormed(text) => Defects(text) = Kept(QuestionList, D)
  BY DEF Defects
<1>3. <<>> \in Seq(Questions) /\ NoRepeats(<<>>) /\ Elements(<<>>) = {}
  BY DEF NoRepeats, Elements
<1>4. \A q : q \in Elements(Defects(text)) <=> WellFormed(text) /\ q \in D
  BY <1>1, <1>2, <1>3
<1>5. ASSUME text # NoText, NEW q \in Questions
      PROVE  /\ text \in Text /\ Len(text) \in Nat /\ Lines(q) \in SUBSET (1..Len(text))
             /\ Lines(q) # {} => /\ Max(Lines(q)) \in Lines(q)
                                 /\ AnswerTo(text, q) = text[Max(Lines(q))].says
             /\ Lines(q) = {} => AnswerTo(text, q) = "nothing"
             /\ \A k \in Lines(q) : text[k] \in Answers
  <2>1. text \in Text /\ text \in Seq({Noise} \cup Answers)
    BY <1>5 DEF Text
  <2>2. Len(text) \in Nat /\ DOMAIN text = 1..Len(text) /\ \A k \in 1..Len(text) : text[k] \in {Noise} \cup Answers
    BY <2>1
  <2>3. Lines(q) \in SUBSET (1..Len(text)) /\ \A k \in Lines(q) : text[k] \in Answers
    BY <2>2
  <2>4. AnswerTo(text, q) = IF Lines(q) = {} THEN "nothing" ELSE text[Max(Lines(q))].says
    BY DEF AnswerTo
  <2> HIDE DEF Lines
  <2> QED BY <2>1, <2>2, <2>3, <2>4, LastLine
<1>6. \A q : Bad(q) \in {"yes", "no"} /\ Bad(q) # "nothing"
  BY DEF Bad
<1>7. ASSUME NEW q \in Questions, q \in Elements(Defects(text))
      PROVE  text # NoText /\ BadLine(q) \in Range(text)
  <2>1. text # NoText /\ AnswerTo(text, q) = Bad(q)
    BY <1>4, <1>7 DEF WellFormed
  <2> DEFINE k == Max(Lines(q))
  <2>2. k \in Lines(q) /\ text[k].says = Bad(q) /\ text[k] \in Answers
    BY <1>5, <1>6, <2>1
  <2>3. text[k].on = q /\ k \in DOMAIN text
    BY <2>2
  <2> HIDE DEF k
  <2>4. text[k] = BadLine(q)
    BY <2>2, <2>3 DEF Answers, BadLine
  <2> QED BY <2>1, <2>3, <2>4 DEF Range
<1>8. ASSUME NEW q \in Questions, Clear(text), BadLine(q) \in Range(text)
      PROVE  q \in Elements(Defects(text))
  <2>1. text # NoText /\ \A r \in Questions : Cardinality(Lines(r)) = 1
    BY <1>8 DEF Clear
  <2>2. ASSUME NEW r \in Questions PROVE \E x : Lines(r) = {x}
    <3>1. Lines(r) \in SUBSET (1..Len(text)) /\ Len(text) \in Nat
      BY <1>5, <2>1
    <3>2. IsFiniteSet(1..Len(text))
      BY <3>1, FS_Interval
    <3> HIDE DEF Lines
    <3>3. IsFiniteSet(Lines(r))
      BY <3>1, <3>2, FS_Subset
    <3> QED BY <2>1, <3>3, FS_Singleton
  <2>3. ASSUME NEW r \in Questions PROVE AnswerTo(text, r) # "nothing"
    <3>1. /\ Lines(r) # {} => /\ Max(Lines(r)) \in Lines(r)
                              /\ AnswerTo(text, r) = text[Max(Lines(r))].says
          /\ \A k \in Lines(r) : text[k] \in Answers
      BY <1>5, <2>1
    <3>2. Lines(r) # {}
      BY <2>2
    <3> HIDE DEF Lines
    <3>3. text[Max(Lines(r))] \in Answers
      BY <3>1, <3>2
    <3>4. text[Max(Lines(r))].says \in {"yes", "no", "n/a"}
      BY <3>3 DEF Answers
    <3> QED BY <3>1, <3>2, <3>4
  <2>4. PICK k \in DOMAIN text : text[k] = BadLine(q)
    BY <1>8 DEF Range
  <2>5. k \in Lines(q)
    <3>1. BadLine(q) \in Answers
      BY <1>6, <1>8 DEF BadLine, Answers
    <3>2. BadLine(q) # Noise /\ BadLine(q).on = q
      BY <3>1, VlmCallAssumption DEF BadLine
    <3> QED BY <2>4, <3>2
  <2>6. PICK x : Lines(q) = {x}
    BY <2>2
  <2>7. AnswerTo(text, q) = text[Max(Lines(q))].says /\ Max(Lines(q)) \in Lines(q)
    BY <1>5, <2>1, <2>6
  <2> HIDE DEF Lines
  <2>8. Max(Lines(q)) = k
    BY <2>5, <2>6, <2>7
  <2>9. AnswerTo(text, q) = Bad(q)
    BY <2>4, <2>7, <2>8 DEF BadLine
  <2> QED BY <1>4, <2>1, <2>3, <2>9 DEF WellFormed
<1>9. Defects(text) \in Seq(Questions) /\ NoRepeats(Defects(text))
  BY <1>1, <1>2, <1>3
<1> QED BY <1>7, <1>8, <1>9

\* A judge adds to the verdict what is new, and only that.
LEMMA UnionAdds ==
  ASSUME verdict \in Seq(Questions), NoRepeats(verdict),
         NEW found \in Seq(Questions), NoRepeats(found)
  PROVE  /\ Union(found) \in Seq(Questions) /\ NoRepeats(Union(found))
         /\ Elements(Union(found)) = Elements(verdict) \cup Elements(found)
<1> DEFINE new == Kept(found, Questions \ Range(verdict))
<1>1. Range(verdict) = Elements(verdict) /\ Elements(found) \subseteq Questions
  BY AsSequences, ElementsType
<1>2. new \in Seq(Questions) /\ Elements(new) = Elements(found) \ Elements(verdict)
  <2>1. new \in Seq(Questions) /\ Elements(new) = Elements(found) \cap (Questions \ Range(verdict))
    BY KeptElements
  <2> QED BY <1>1, <2>1
<1>3. NoRepeats(new)
  BY KeptNoRepeats
<1>4. Union(found) = verdict \o new
  BY DEF Union
<1> HIDE DEF new
<1> DEFINE u == verdict \o new
           m == Len(verdict)
<1>5. /\ u \in Seq(Questions) /\ m \in Nat /\ Len(new) \in Nat /\ Len(u) = m + Len(new)
      /\ \A i \in 1..m : u[i] = verdict[i]
      /\ \A i \in 1..Len(new) : u[m + i] = new[i]
      /\ \A i \in (m+1)..Len(u) : i - m \in 1..Len(new) /\ u[i] = new[i - m]
  BY <1>2
<1> HIDE DEF u, m
<1>6. /\ \A i \in 1..Len(u) : i \in 1..m \/ i \in (m+1)..Len(u)
      /\ \A i \in 1..m : i \in 1..Len(u)
      /\ \A i \in 1..Len(new) : m + i \in 1..Len(u)
  BY <1>5
<1>7. Elements(u) = Elements(verdict) \cup Elements(new)
  <2>1. ASSUME NEW x \in Elements(u) PROVE x \in Elements(verdict) \cup Elements(new)
    <3>1. PICK i \in 1..Len(u) : x = u[i]
      BY <2>1 DEF Elements
    <3>2. CASE i \in 1..m
      BY <1>5, <3>1, <3>2 DEF Elements, m
    <3>3. CASE i \in (m+1)..Len(u)
      BY <1>5, <3>1, <3>3 DEF Elements
    <3> QED BY <1>6, <3>1, <3>2, <3>3
  <2>2. ASSUME NEW x \in Elements(verdict) PROVE x \in Elements(u)
    BY <1>5, <1>6 DEF Elements, m
  <2>3. ASSUME NEW x \in Elements(new) PROVE x \in Elements(u)
    <3>1. PICK i \in 1..Len(new) : new[i] = x
      BY DEF Elements
    <3>2. m + i \in 1..Len(u) /\ u[m + i] = x
      BY <1>5, <1>6, <3>1
    <3> QED BY <3>2 DEF Elements
  <2> QED BY <2>1, <2>2, <2>3
<1>8. NoRepeats(u)
  <2> SUFFICES ASSUME NEW i \in 1..Len(u), NEW j \in 1..Len(u), u[i] = u[j] PROVE i = j
    BY DEF NoRepeats
  <2>1. /\ \A k \in 1..m : u[k] \in Elements(verdict)
        /\ \A k \in (m+1)..Len(u) : u[k] \in Elements(new)
    BY <1>5 DEF Elements, m
  <2>2. CASE i \in 1..m /\ j \in 1..m
    BY <1>5, <2>2 DEF NoRepeats, m
  <2>3. CASE i \in (m+1)..Len(u) /\ j \in (m+1)..Len(u)
    <3>1. new[i - m] = new[j - m] /\ i - m \in 1..Len(new) /\ j - m \in 1..Len(new)
      BY <1>5, <2>3
    <3>2. i - m = j - m
      BY <1>3, <3>1 DEF NoRepeats
    <3> QED BY <1>5, <2>3, <3>2
  <2>4. CASE i \in 1..m /\ j \in (m+1)..Len(u)
    BY <1>2, <2>1, <2>4
  <2>5. CASE i \in (m+1)..Len(u) /\ j \in 1..m
    BY <1>2, <2>1, <2>5
  <2> QED BY <1>6, <2>2, <2>3, <2>4, <2>5
<1> QED BY <1>2, <1>4, <1>5, <1>7, <1>8 DEF u

\* What the judges said of a question so far, and what the verdict says of it.
HeardOf(q) ==
  /\ \A j \in 2..Len(said) : Clear(said[j]) /\ BadLine(q) \in Range(said[j]) => q \in Elements(verdict)
  /\ q \in Elements(verdict) => \E j \in 2..Len(said) : said[j] # NoText /\ BadLine(q) \in Range(said[j])

\* The calls so far and the verdict they make up.
VerdictInv ==
  /\ said \in Seq(Text \cup {NoText})
  /\ verdict \in Seq(Questions) /\ NoRepeats(verdict)
  /\ pc # "done" => Len(said) = 0 \/ (said[1] # NoText /\ Len(said) <= judges)
  /\ pc = "done" => Len(said) = IF said[1] = NoText THEN 1 ELSE 1 + judges
  /\ \A q \in Questions : HeardOf(q)

\* The end of a call preserves it.
LEMMA ReturnVerdict ==
  ASSUME LadderInv, VerdictInv, Return
  PROVE  VerdictInv'
<1> DEFINE text == SentSafely
           n == Len(said)
<1>1. text \in Text \cup {NoText}
  BY SafeText DEF Return
<1>2. /\ said' = Append(said, text)
      /\ verdict' = IF said = <<>> THEN verdict ELSE Union(Defects(text))
      /\ pc' = IF said'[1] = NoText \/ Len(said') > judges THEN "done" ELSE "send"
      /\ pc # "done" /\ judges' = judges
  BY DEF Return
<1>3. /\ said \in Seq(Text \cup {NoText}) /\ n \in Nat /\ judges \in 0..2
      /\ verdict \in Seq(Questions) /\ NoRepeats(verdict)
      /\ n = 0 \/ (said[1] # NoText /\ n <= judges)
      /\ \A q \in Questions : HeardOf(q)
  BY <1>2 DEF VerdictInv, LadderInv
<1>4. /\ Defects(text) \in Seq(Questions) /\ NoRepeats(Defects(text))
      /\ \A q \in Questions :
           /\ q \in Elements(Defects(text)) => text # NoText /\ BadLine(q) \in Range(text)
           /\ Clear(text) /\ BadLine(q) \in Range(text) => q \in Elements(Defects(text))
  BY <1>1, DefectsSaid
<1> HIDE DEF text
<1>5. /\ said' \in Seq(Text \cup {NoText}) /\ Len(said') = n + 1
      /\ said'[n + 1] = text /\ \A j \in 1..n : said'[j] = said[j]
  BY <1>1, <1>2, <1>3
<1>6. said = <<>> <=> n = 0
  BY <1>3
<1>7. /\ verdict' \in Seq(Questions) /\ NoRepeats(verdict')
      /\ n = 0 => verdict' = verdict
      /\ n # 0 => Elements(verdict') = Elements(verdict) \cup Elements(Defects(text))
  BY <1>2, <1>3, <1>4, <1>6, UnionAdds
<1> HIDE DEF n
<1>8. pc' # "done" => said'[1] # NoText /\ Len(said') <= judges'
  BY <1>2, <1>3, <1>5
<1>9. pc' = "done" => Len(said') = IF said'[1] = NoText THEN 1 ELSE 1 + judges'
  <2>1. CASE n = 0
    BY <1>2, <1>3, <1>5, <2>1
  <2>2. CASE n # 0
    <3>1. 1 \in 1..n
      BY <1>3, <2>2
    <3>2. said'[1] = said[1] /\ said[1] # NoText
      BY <1>3, <1>5, <2>2, <3>1
    <3> QED BY <1>2, <1>3, <1>5, <3>2
  <2> QED BY <2>1, <2>2
<1>10. ASSUME NEW q \in Questions PROVE HeardOf(q)'
  <2>1. /\ \A j \in 2..n : Clear(said[j]) /\ BadLine(q) \in Range(said[j]) => q \in Elements(verdict)
        /\ q \in Elements(verdict) => \E j \in 2..n : said[j] # NoText /\ BadLine(q) \in Range(said[j])
    BY <1>3 DEF HeardOf, n
  <2>2. /\ Elements(verdict) \subseteq Elements(verdict')
        /\ \A j \in 2..(n+1) : j \in 2..n \/ (j = n + 1 /\ n # 0)
        /\ \A j \in 2..n : j \in 2..(n+1) /\ said'[j] = said[j]
    BY <1>3, <1>5, <1>7
  <2>3. ASSUME NEW j \in 2..(n+1), Clear(said'[j]), BadLine(q) \in Range(said'[j])
        PROVE  q \in Elements(verdict')
    <3>1. CASE j \in 2..n
      BY <2>1, <2>2, <2>3, <3>1
    <3>2. CASE j = n + 1 /\ n # 0
      BY <1>4, <1>5, <1>7, <2>3, <3>2
    <3> QED BY <2>2, <3>1, <3>2
  <2>4. ASSUME q \in Elements(verdict')
        PROVE  \E j \in 2..(n+1) : said'[j] # NoText /\ BadLine(q) \in Range(said'[j])
    <3>1. CASE q \in Elements(verdict)
      BY <2>1, <2>2, <3>1
    <3>2. CASE n # 0 /\ q \in Elements(Defects(text))
      <4>1. n + 1 \in 2..(n+1)
        BY <1>3, <3>2
      <4> QED BY <1>4, <1>5, <3>2, <4>1
    <3> QED BY <1>7, <2>4, <3>1, <3>2
  <2>5. BadLine(q)' = BadLine(q) /\ Elements(verdict)' = Elements(verdict')
        /\ \A j : Clear(said[j])' = Clear(said'[j])
    BY DEF BadLine, Bad, Elements, Clear
  <2> QED BY <1>5, <2>3, <2>4, <2>5 DEF HeardOf
<1> QED BY <1>5, <1>7, <1>8, <1>9, <1>10 DEF VerdictInv

\* The invariant holds of every reachable state.
LEMMA Judging == Spec => []VerdictInv
<1>1. Init => VerdictInv
  <2> SUFFICES ASSUME Init PROVE VerdictInv
    OBVIOUS
  <2>1. said = <<>> /\ verdict = <<>> /\ pc = "send"
    BY DEF Init
  <2>2. Elements(verdict) = {} /\ NoRepeats(verdict) /\ Len(said) = 0
    BY <2>1 DEF Elements, NoRepeats
  <2>3. \A j \in 2..Len(said) : FALSE
    BY <2>2
  <2>4. said \in Seq(Text \cup {NoText}) /\ verdict \in Seq(Questions)
    BY <2>1
  <2> QED BY <2>1, <2>2, <2>3, <2>4 DEF VerdictInv, HeardOf
<1>2. LadderInv /\ VerdictInv /\ [Next]_vars => VerdictInv'
  <2> SUFFICES ASSUME LadderInv, VerdictInv, [Next]_vars PROVE VerdictInv'
    OBVIOUS
  <2>1. CASE Return
    BY <2>1, ReturnVerdict
  <2>2. CASE ~Return
    <3>1. UNCHANGED <<said, verdict, judges>> /\ (pc' = "done" <=> pc = "done")
      <4>1. CASE Send
        BY <4>1 DEF Send, Attempt
      <4>2. CASE Wake \/ SdkSend \/ UNCHANGED vars
        BY <4>2 DEF Wake, SdkSend, vars
      <4> QED BY <2>2, <4>1, <4>2 DEF Next
    <3> QED BY <3>1 DEF VerdictInv, HeardOf, Clear, BadLine, Bad, Elements, NoRepeats
  <2> QED BY <2>1, <2>2
<1> QED BY <1>1, <1>2, Laddering, PTL DEF Spec

\* The ladder makes five attempts at most and sleeps by the schedule, each of
\* its sleeps once and in order, and the verdict lists each defect once.
THEOREM TypesCorrect == Spec => []TypeOK
<1>1. LadderInv /\ VerdictInv => TypeOK
  <2> SUFFICES ASSUME LadderInv, VerdictInv PROVE TypeOK
    OBVIOUS
  <2>1. Len(log) <= TotalAttempts
    <3>1. TotalAttempts = 5
      BY Sleeps
    <3>2. Len(log) \in Nat /\ pc \in {"send", "asleep", "returned", "done"}
      BY DEF LadderInv
    <3>3. CASE pc = "send"
      BY <3>1, <3>2, <3>3 DEF LadderInv
    <3>4. CASE pc = "asleep"
      BY <3>1, <3>2, <3>4 DEF LadderInv
    <3>5. CASE pc = "returned"
      BY <3>1, <3>2, <3>5 DEF LadderInv
    <3>6. CASE pc = "done"
      BY <3>1, <3>2, <3>6 DEF LadderInv
    <3> QED BY <3>2, <3>3, <3>4, <3>5, <3>6
  <2>2. Len(said) <= 1 + judges
    <3>1. Len(said) \in Nat /\ judges \in 0..2
      BY DEF LadderInv, VerdictInv
    <3>2. pc # "done" => Len(said) = 0 \/ Len(said) <= judges
      BY DEF VerdictInv
    <3>3. pc = "done" => Len(said) = 1 \/ Len(said) = 1 + judges
      BY DEF VerdictInv
    <3>4. ASSUME NEW n \in Nat, NEW k \in 0..2, n = 0 \/ n = 1 \/ n <= k \/ n = 1 + k
          PROVE  n <= 1 + k
      BY <3>4
    <3>5. Len(said) = 0 \/ Len(said) = 1 \/ Len(said) <= judges \/ Len(said) = 1 + judges
      BY <3>2, <3>3, Zenon
    <3> QED BY <3>1, <3>4, <3>5
  <2>3. IsInjective(verdict) /\ Range(verdict) \subseteq Questions
    <3>1. verdict \in Seq(Questions) /\ NoRepeats(verdict)
      BY DEF VerdictInv
    <3> QED BY <3>1, AsSequences
  <2> QED BY <2>1, <2>2, <2>3 DEF LadderInv, TypeOK
<1> QED BY <1>1, Laddering, Judging, PTL

\* _judge_with_config() loses no defect that a clear judge named and invents
\* none, whatever becomes of the other judge's call.
THEOREM DefectsCorrect == Spec => []DefectsKept
<1>1. LadderInv /\ VerdictInv => DefectsKept
  <2> SUFFICES ASSUME LadderInv, VerdictInv, pc = "done" PROVE DefectsKept
    BY DEF DefectsKept
  <2>1. Range(verdict) = Elements(verdict)
    BY AsSequences DEF VerdictInv
  <2>2. Len(said) = IF said[1] = NoText THEN 1 ELSE 1 + judges
    BY DEF VerdictInv
  <2>3. \A q \in Questions : HeardOf(q)
    BY DEF VerdictInv
  <2> QED BY <2>1, <2>2, <2>3 DEF DefectsKept, HeardOf, BadLine
<1> QED BY <1>1, Laddering, Judging, PTL
=============================================================================
