------------------------------- MODULE DataSet -------------------------------
(***************************************************************************)
(* What a data set promises its caller: once it is there, its data do not  *)
(* change, and every answer is determined by the data and the question.    *)
(* No call shows which calls came before it.  It may be lost at any time,  *)
(* and never answers after that.                                           *)
(***************************************************************************)
CONSTANTS
  NoAnswer,
  Determined(_, _)   \* Determined(d, a): a is what the data d determine

VARIABLES
  state,   \* "none", "there", "lost"
  data,    \* what the data set was made of
  answer   \* the latest answer; it names its question

Init == state = "none" /\ answer = NoAnswer

Make ==
  /\ state = "none" /\ state' = "there"
  /\ UNCHANGED answer

Ask ==
  /\ state = "there"
  /\ Determined(data, answer')
  /\ UNCHANGED <<state, data>>

Lose ==
  /\ state # "lost" /\ state' = "lost"
  /\ UNCHANGED answer

Next == Make \/ Ask \/ Lose

Spec == Init /\ [][Next]_<<state, data, answer>>
=============================================================================
