------------------------------ MODULE CliBatch ------------------------------
(***************************************************************************)
(* refigure/cli.py: one run of the refigure command, from its arguments to *)
(* its exit code: conversion of stdin, of one file, or of a batch of files *)
(* and directories into an output tree.                                    *)
(*                                                                         *)
(* A source is what an argument names: a directory with the files under it *)
(* in the order of the walk, a file, or nothing.  A file is what it        *)
(* resolves to, its output path without the suffix that tells the output   *)
(* format, its input format and whether it is a symbolic link.             *)
(***************************************************************************)
EXTENDS SeqFilters, SequencesExt

CONSTANTS
  Sources,   \* what the arguments may name
  MaxArgs    \* the most arguments

ASSUME CliAssumption ==
  /\ MaxArgs \in Nat
  /\ \A s \in Sources : /\ s.kind \in {"dir", "file", "missing"}
                         /\ s.kind = "dir" => s.files \in Seq(ToSet(s.files))

Formats == {"docx", "xlsx"}
\* The outcomes of _convert_one() other than a result, and their exit codes.
ExitCode == [unsupported |-> 3, corrupt |-> 4, missing |-> 5, internal |-> 6, limit |-> 7]
Failures == DOMAIN ExitCode
Raised == 1   \* the interpreter's own status for an exception nobody catches

VARIABLES
  args,      \* the sources named
  failFast,  \* --fail-fast
  toDir,     \* -o
  pc,        \* start, batch, done; raised: an exception left main()
  plan,      \* _plan_batch(): [real, out], in order
  at,        \* the entry of plan that is next
  written,   \* what was written: <<out, real>>, in order
  failed,    \* the entries of plan that failed, in order
  summary,   \* the summary line [converted, total, failed], or None
  code       \* the exit code

options == <<args, failFast, toDir>>
vars == <<options, pc, plan, at, written, failed, summary, code>>

None == <<>>

Init ==
  /\ args \in UNION {[1..n -> Sources] : n \in 0..MaxArgs}
  /\ failFast \in BOOLEAN /\ toDir \in BOOLEAN
  /\ pc = "start"
  /\ plan = <<>> /\ at = 1
  /\ written = <<>> /\ failed = <<>>
  /\ summary = None
  /\ code = 0

Exit(status) ==
  /\ pc' = "done" /\ code' = status
  /\ UNCHANGED <<options, plan, at, written, failed, summary>>

-----------------------------------------------------------------------------
(* main() *)

IsBatch == Len(args) > 1 \/ (Len(args) = 1 /\ args[1].kind = "dir")

\* _run_single() and _resolve_batch_sources(): a name must be there, and a
\* file of a known format.
WellFormed(s) == s.kind = "dir" \/ (s.kind = "file" /\ s.file.format \in Formats)

\* The configuration cannot be built, or the format of stdin is not given.
BadConfig ==
  /\ pc = "start"
  /\ \E status \in {2, 5, 6} : Exit(status)

BadSource ==
  /\ pc = "start"
  /\ \E i \in DOMAIN args : ~WellFormed(args[i])
  /\ Exit(2)

\* stdin or a single file: one conversion, one output.
ConvertOne ==
  /\ pc = "start" /\ ~IsBatch
  /\ \A i \in DOMAIN args : WellFormed(args[i])
  /\ \/ Exit(0)
     \/ \E f \in Failures : Exit(ExitCode[f])
     \/ pc' = "raised" /\ code' = Raised   \* the output cannot be written
        /\ UNCHANGED <<options, plan, at, written, failed, summary>>

-----------------------------------------------------------------------------
(* The plan *)

\* Mutant: the walk follows symbolic links.
EntriesWithLinks(s) ==
  IF s.kind = "dir" THEN Kept(s.files, {f \in ToSet(s.files) : f.format \in Formats})
                    ELSE <<s.file>>

\* The files that a source contributes.
Entries(s) ==
  IF s.kind = "dir"
  THEN Kept(s.files, {f \in ToSet(s.files) : f.format \in Formats /\ ~f.link})
  ELSE <<s.file>>

\* What the sources contribute, in order and with repetitions.
Walk(sources) == FlattenSeq([i \in DOMAIN sources |-> Entries(sources[i])])

\* The positions of a walk whose input was not seen before.
Unseen(walk) == {i \in DOMAIN walk : \A j \in 1..(i - 1) : walk[j].real # walk[i].real}

\* _plan_batch(): every input once, at its first occurrence.
Plan(sources) ==
  LET walk == Walk(sources)
      firsts == Kept([i \in DOMAIN walk |-> i], Unseen(walk))
  IN  [k \in DOMAIN firsts |-> walk[firsts[k]]]

\* Mutant: the formats of the inputs are still part of the paths compared.
CollideAsInputs(inputs) ==
  \E i, j \in DOMAIN inputs : i # j /\ inputs[i].out = inputs[j].out
                                     /\ inputs[i].format = inputs[j].format

\* _detect_collisions(): two inputs have the same output.
Collide(inputs) == \E i, j \in DOMAIN inputs : i # j /\ inputs[i].out = inputs[j].out

\* Nothing is written before the whole batch is known to be sound.
StartBatch ==
  LET inputs == Plan(args)
  IN  /\ pc = "start" /\ IsBatch
      /\ \A i \in DOMAIN args : WellFormed(args[i])
      /\ IF ~toDir \/ inputs = <<>> \/ Collide(inputs)
         THEN Exit(2)
         ELSE /\ pc' = "batch" /\ plan' = inputs
              /\ UNCHANGED <<options, at, written, failed, summary, code>>

-----------------------------------------------------------------------------
(* The loop of _run_batch() *)

InLoop == pc = "batch" /\ at <= Len(plan)

Convert ==
  /\ InLoop
  /\ written' = Append(written, <<plan[at].out, plan[at].real>>)
  /\ at' = at + 1
  /\ UNCHANGED <<options, pc, plan, failed, summary, code>>

\* Mutant: the failure is reported and forgotten.
FailForgotten ==
  /\ InLoop /\ at' = at + 1
  /\ UNCHANGED <<options, pc, plan, written, failed, summary, code>>

\* The conversion fails: --fail-fast exits with its code and no summary.
Fail ==
  /\ InLoop
  /\ IF failFast
     THEN \E f \in Failures : Exit(ExitCode[f])
     ELSE /\ failed' = Append(failed, plan[at]) /\ at' = at + 1
          /\ UNCHANGED <<options, pc, plan, written, summary, code>>

\* The output cannot be written: the exception is not caught, and ends the run.
WriteFails ==
  /\ InLoop
  /\ pc' = "raised" /\ code' = Raised
  /\ UNCHANGED <<options, plan, at, written, failed, summary>>

Summarise ==
  /\ pc = "batch" /\ at > Len(plan)
  /\ summary' = [converted |-> Len(written), total |-> Len(plan), failed |-> Len(failed)]
  /\ pc' = "done" /\ code' = IF failed = <<>> THEN 0 ELSE 1
  /\ UNCHANGED <<options, plan, at, written, failed>>

Next ==
  \/ BadConfig \/ BadSource \/ ConvertOne \/ StartBatch
  \/ Convert \/ Fail \/ WriteFails \/ Summarise

Spec == Init /\ [][Next]_vars

-----------------------------------------------------------------------------
(* Properties *)

\* No output overwrites another: each path of the output tree is written at
\* most once in a run, whichever sources, formats and links were given.
NoOverwrite ==
  \A i, j \in DOMAIN written : written[i][1] = written[j][1] => i = j

\* The inputs of a batch are the files its sources reach, each of them once,
\* however many sources reach it.  No link is followed, unless it is itself one
\* of the sources.
InputsOnce ==
  pc = "batch" =>
    /\ \A i, j \in DOMAIN plan : plan[i].real = plan[j].real => i = j
    /\ {plan[i].real : i \in DOMAIN plan} =
         UNION {IF s.kind = "file" THEN {s.file.real}
                ELSE {f.real : f \in {g \in ToSet(s.files) : g.format \in Formats /\ ~g.link}}
                : s \in ToSet(args)}

\* The types of the state; each turn of the loop is accounted for.
TypeOK ==
  /\ pc \in {"start", "batch", "done", "raised"}
  /\ at \in 1..(Len(plan) + 1)
  /\ Len(written) + Len(failed) = at - 1
  /\ code \in 0..7
  /\ summary = None \/ summary \in [converted : Nat, total : Nat, failed : Nat]

\* The exit code of a batch tells the truth: 0, every input was converted and
\* is where it belongs; 1 after a summary, every input was tried and some
\* failed; a conversion's own code, the run stopped at the first failure.
ExitTellsTruth ==
  /\ TypeOK
  /\ (IsBatch /\ plan # <<>> /\ pc = "done") =>
       /\ code = 0 =>
            ToSet(written) = {<<plan[i].out, plan[i].real>> : i \in DOMAIN plan}
       /\ code = 1 => /\ Len(written) < Len(plan)
                      /\ summary.converted + summary.failed = summary.total
       /\ code >= 2 => failFast /\ failed = <<>> /\ Len(written) < Len(plan)
=============================================================================
