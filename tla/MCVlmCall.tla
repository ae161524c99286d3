------------------------------ MODULE MCVlmCall ------------------------------
(* Verdicts: clean, with one defect or with all, in another order, without   *)
(* an answer, answering a question twice, too long, and no verdict at all.   *)
EXTENDS VlmCall

Says(h, m, l) ==
  <<[on |-> "hallucination", says |-> h], [on |-> "mermaid_fit", says |-> m],
    [on |-> "language", says |-> l]>>

Clean == Says("no", "n/a", "yes")
Invented == Says("yes", "yes", "yes")

MCVerdicts ==
  {NoText, <<>>, <<Noise>>, Clean, Invented, Says("yes", "no", "no"),
   Reverse(Says("no", "no", "yes")),
   SubSeq(Invented, 1, 2),
   <<[on |-> "hallucination", says |-> "yes"]>> \o Clean,
   <<Noise>> \o Says("no", "yes", "no"),
   <<Noise, Noise>> \o Invented}

MCDescriptions == {NoText, <<>>, <<Noise>>}
=============================================================================
