---------------------------- MODULE Evaluations ----------------------------
(***************************************************************************)
(* What the pulse counter of a board promises to its holder: requests may  *)
(* come at any time, and each results event answers all that are open, in  *)
(* whole, once.                                                            *)
(***************************************************************************)
EXTENDS Sequences

CONSTANT Requests

VARIABLES
    asked,          \* requests received
    answers         \* of each results event, the requests it answers

EvalInit == asked = {} /\ answers = <<>>

Open == {R \in asked : \A i \in DOMAIN answers : R \notin answers[i]}

Ask ==
    /\ \E R \in Requests \ asked : asked' = asked \union {R}
    /\ UNCHANGED answers

Answer ==
    /\ Open # {}
    /\ answers' = Append(answers, Open)
    /\ UNCHANGED asked

EvalSpec == EvalInit /\ [][Ask \/ Answer]_<<asked, answers>>
=============================================================================
