------------------------------- MODULE VlmCall -------------------------------
(***************************************************************************)
(* What VlmEnhance takes as one step: the calls by which one figure is     *)
(* described and judged.  chat_request() of vlm/client.py with its retry   *)
(* ladder, the SDK clients without one, and _send_safely(),                *)
(* judge_defects() and _judge_with_config() of vlm/__init__.py.            *)
(*                                                                         *)
(* The service is external.  It answers an attempt with                    *)
(*   http    an HTTP error of a code                                       *)
(*   inband  a 200 whose body is an error of a code                        *)
(*   network URLError or TimeoutError                                      *)
(*   other   what the ladder has no clause for: a body that is not JSON, a *)
(*           connection lost in the middle of a body                       *)
(*   body    a completion; its content is a text or, as NoText, no str.    *)
(* A text is a sequence of lines; those of a judge answer its questions.   *)
(***************************************************************************)
EXTENDS SeqFilters, SequencesExt

CONSTANTS
  Codes,         \* the codes of errors, as HTTP numbers them
  NotInt,        \* a code that is not an int
  Descriptions,  \* what may come as a description
  Verdicts,      \* what may come as a verdict
  Noise,         \* a line that is no answer
  NoText,        \* no str; as a result, None
  MaxLines       \* _MAX_VLM_RESPONSE_CHARS

\* What a judge is asked, in the order in which defects are listed, and what
\* _JUDGE_LINE_RE takes for an answer.
QuestionList == <<"hallucination", "mermaid_fit", "language">>
Questions == Range(QuestionList)
Answers == [on : Questions, says : {"yes", "no", "n/a"}]
Text == Seq({Noise} \cup Answers)

ASSUME VlmCallAssumption ==
  /\ Codes \subseteq 100..599 /\ NotInt \notin Nat
  /\ Noise \notin Answers /\ NoText \notin Text
  /\ Descriptions \subseteq Text \cup {NoText} /\ Verdicts \subseteq Text \cup {NoText}
  /\ MaxLines \in Nat \ {0}

RetrySchedule == <<1, 4, 15, 60>>
TotalAttempts == Len(RetrySchedule) + 1

VARIABLES
  client,   \* "openrouter" or "sdk"
  judges,   \* how many judges there are: vlm_verify and vlm_judge_mode
  pc,       \* "send", "asleep", "returned" or "done"
  log,      \* what the attempts of this call were answered, in order
  slept,    \* the seconds this call has slept
  said,     \* the texts that _send_safely() let through, or NoText, call by call
  verdict   \* the defects found, in order

vars == <<client, judges, pc, log, slept, said, verdict>>

Init ==
  /\ client \in {"openrouter", "sdk"}
  /\ judges \in 0..2
  /\ pc = "send"
  /\ log = <<>> /\ slept = 0
  /\ said = <<>> /\ verdict = <<>>

-----------------------------------------------------------------------------
(* An attempt *)

Completions ==
  [is : {"body"}, text : IF said = <<>> THEN Descriptions ELSE Verdicts]

\* Mutant: an error of the request itself is tried again too.
RetryableAlways(answer) ==
  \/ answer.is = "network"
  \/ answer.is \in {"http", "inband"} /\ answer.code # NotInt /\ answer.code >= 429

Retryable(answer) ==
  \/ answer.is = "network"
  \/ /\ answer.is \in {"http", "inband"} /\ answer.code # NotInt
     /\ answer.code = 429 \/ answer.code >= 500

\* One turn of the ladder: chat_request() returns, raises, or goes to sleep.
Attempt(answer) ==
  /\ log' = Append(log, answer)
  /\ pc' = IF Retryable(answer) /\ Len(log) + 1 < TotalAttempts THEN "asleep" ELSE "returned"
  /\ UNCHANGED <<client, judges, slept, said, verdict>>

Send ==
  /\ pc = "send" /\ client = "openrouter"
  /\ \/ \E answer \in Completions : Attempt(answer)
     \/ \E why \in {"network", "other"} : Attempt([is |-> why])
     \/ \E code \in Codes : Attempt([is |-> "http", code |-> code])
     \/ \E code \in Codes \cup {NotInt} : Attempt([is |-> "inband", code |-> code])

\* Mutant: every sleep is as long as the first.
WakeSame ==
  /\ pc = "asleep"
  /\ pc' = "send"
  /\ slept' = slept + RetrySchedule[1]
  /\ UNCHANGED <<client, judges, log, said, verdict>>

Wake ==
  /\ pc = "asleep"
  /\ pc' = "send"
  /\ slept' = slept + RetrySchedule[Len(log)]
  /\ UNCHANGED <<client, judges, log, said, verdict>>

\* OpenAIClient and AnthropicClient: a text, or whatever the SDK raises.
SdkSend ==
  /\ pc = "send" /\ client = "sdk"
  /\ \E answer \in Completions \cup {[is |-> "other"]} : log' = <<answer>>
  /\ pc' = "returned"
  /\ UNCHANGED <<client, judges, slept, said, verdict>>

-----------------------------------------------------------------------------
(* What becomes of an answer *)

Cut(text) == SubSeq(text, 1, Min({Len(text), MaxLines}))

\* _send_safely(): the text, cut to the cap; None for what was raised, for
\* what is no str and for what is empty.
SentSafely ==
  LET answer == Last(log)
  IN  IF answer.is = "body" /\ answer.text \notin {NoText, <<>>}
      THEN Cut(answer.text) ELSE NoText

\* What a question is answered by: the last of the lines that answer it.
AnswerTo(text, question) ==
  LET lines == {k \in DOMAIN text : text[k] # Noise /\ text[k].on = question}
  IN  IF lines = {} THEN "nothing" ELSE text[Max(lines)].says

WellFormed(text) ==
  text # NoText /\ \A q \in Questions : AnswerTo(text, q) # "nothing"

\* The answer that makes a question a defect.
Bad(question) == IF question = "hallucination" THEN "yes" ELSE "no"

\* judge_defects(): the defects a verdict names, none if it is not in order.
Defects(text) ==
  IF ~WellFormed(text) THEN <<>>
  ELSE Kept(QuestionList, {q \in Questions : AnswerTo(text, q) = Bad(q)})

\* Mutant: the last judge's word is the verdict.
UnionLast(found) == found

\* _judge_with_config(): what is new is added, in order.
Union(found) == verdict \o Kept(found, Questions \ Range(verdict))

\* A call has ended; the judges come after the description if there is one.
Return ==
  /\ pc = "returned"
  /\ said' = Append(said, SentSafely)
  /\ verdict' = IF said = <<>> THEN verdict ELSE Union(Defects(SentSafely))
  /\ log' = <<>> /\ slept' = 0
  /\ pc' = IF said'[1] = NoText \/ Len(said') > judges THEN "done" ELSE "send"
  /\ UNCHANGED <<client, judges>>

Next == Send \/ Wake \/ SdkSend \/ Return

Spec == Init /\ [][Next]_vars

-----------------------------------------------------------------------------
(* Properties *)

\* The types of the state, and the docstring's bound: five attempts at most,
\* and no sleep but those of the schedule, each once and in order.
TypeOK ==
  /\ pc \in {"send", "asleep", "returned", "done"}
  /\ Len(log) <= TotalAttempts
  /\ slept = Running(RetrySchedule)[IF pc \in {"asleep", "returned"} THEN Len(log) - 1 ELSE Len(log)]
  /\ Len(said) <= 1 + judges
  /\ IsInjective(verdict) /\ Range(verdict) \subseteq Questions

\* The answers that chat_request()'s docstring calls transient.
Transient(answer) ==
  \/ answer.is = "network"
  \/ answer.is \in {"http", "inband"} /\ answer.code \in {429} \cup 500..599

\* What a retry may cure is tried again and nothing else is: every attempt but
\* the last had a transient answer, and a call ends with a transient answer
\* only after all of its attempts.  A call that was answered is not paid twice.
LadderOutcome ==
  /\ \A k \in 1..(Len(log) - 1) : Transient(log[k])
  /\ pc = "asleep" => Transient(Last(log))
  /\ pc = "returned" => (Transient(Last(log)) => Len(log) = TotalAttempts)

\* The verdict of a judge who answers all questions, and no question twice, as
\* the prompt demands.
Clear(text) ==
  /\ text # NoText
  /\ \A q \in Questions : Cardinality({k \in DOMAIN text : text[k] # Noise /\ text[k].on = q}) = 1

\* Nothing a judge found is lost, whatever becomes of the other: the defects in
\* the verdict are at least those of every clear judge, and each of them was
\* named by some judge; a judge who failed adds and removes nothing, and
\* nothing is judged that was not described.
DefectsKept ==
  pc = "done" =>
    /\ Len(said) = IF said[1] = NoText THEN 1 ELSE 1 + judges
    /\ \A q \in Questions :
         LET bad == [on |-> q, says |-> Bad(q)]
         IN  /\ \A j \in 2..Len(said) :
                  Clear(said[j]) => (bad \in Range(said[j]) => q \in Range(verdict))
             /\ q \in Range(verdict) =>
                  \E j \in 2..Len(said) : said[j] # NoText /\ bad \in Range(said[j])
=============================================================================
