------------------------- MODULE MCStreamlitClient -------------------------
(* Instances of StreamlitClient for TLC.                                   *)
EXTENDS StreamlitClient

CONSTANT Answered

TwoChecks == 1..2

\* Nothing, nine characters, ten among blanks, and more than the API takes.
SomeInputs == {OpenText(NoText), OpenText(Text(12, 9)), OpenText(Text(12, 10)),
               OpenText(Text(20001, 20001)), YesNo(Answered)}
=============================================================================
