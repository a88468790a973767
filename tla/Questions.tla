------------------------------ MODULE Questions ------------------------------
(***************************************************************************)
(* The decisions the coordinator takes on data alone: no file is written   *)
(* and no process is started while they are taken.  A question is put,     *)
(* one operation of the code answers it, and the properties of the modules *)
(* that extend this one compare the answer with what it should be.         *)
(***************************************************************************)
EXTENDS Integers, Sequences, FiniteSets, SequencesExt

CONSTANTS Asked,  \* the questions
          Words,  \* the bare words of the query language
          Stdlib  \* the names of the standard library

VARIABLES question, answered, answer

vars == <<question, answered, answer>>

Answered(about) == answered /\ question.about = about

Init == question \in Asked /\ answered = FALSE /\ answer = <<>>

\* One operation answers the question, and the question stays.
Answering ==
  /\ ~answered /\ answered' = TRUE
  /\ UNCHANGED question
==============================================================================
