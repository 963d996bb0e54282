-------------------------- MODULE MCStructuredCall --------------------------
(* Instances of StructuredCall for TLC.                                    *)
EXTENDS StructuredCall

CONSTANTS t1, t2

TwoCallers == {t1, t2}
OneCaller == {t1}

BedrockOnly == {"bedrock"}
ZeroAndThree == {0, 3}
OnlyFour == {4}

AllThree == AllProviders
=============================================================================
