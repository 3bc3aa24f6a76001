---------------------------- MODULE MCDecisions ----------------------------
(***************************************************************************)
(* The values of a locked variable: every short text over the characters   *)
(* the formats treat specially, and the texts that look like lines of the  *)
(* file.                                                                   *)
(***************************************************************************)
EXTENDS Decisions

Special == {"x", "nl", "dq", "sq", "bs", "$", "B=", "{", "}"}
Spilling == {"x", "nl", "sq", "B="}

LookalikeTexts ==
  {<<"x", "nl", "B=", "x">>, <<"x", "sq", "nl", "B=", "sq", "x">>,
   <<"x", "nl", "HOST=", "0.0.0.0">>, <<"x", "nl", "SOURCE_COMMIT=", "x">>}

LockedTexts ==
  UNION {[1..n -> Special] : n \in 1..2} \cup UNION {[1..n -> Spilling] : n \in 3..4}
    \cup LookalikeTexts

=============================================================================
