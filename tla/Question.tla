------------------------------ MODULE Question ------------------------------
(***************************************************************************)
(* The parts of the engine that keep no state of their own are functions   *)
(* of what they are asked.  Their modules share one variable: a question,  *)
(* put once and never changed, so that every question of a finite set is a *)
(* state and a property of all answers is an invariant.                    *)
(***************************************************************************)
VARIABLE question

Asked(topic) == question.about = topic
=============================================================================
