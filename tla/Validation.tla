----------------------------- MODULE Validation -----------------------------
(***************************************************************************)
(* The places that look at a reference before it is processed:             *)
(* ReferenceInput.validate_shape (schemas.py), validate_raw_input          *)
(* (validation.py), phase 0 of the batch pipeline, run_reference of the    *)
(* real-time graph and the reference form of streamlit_app.py.             *)
(*                                                                         *)
(* A text is its length and its length after strip(); "" and None, which   *)
(* every check treats alike, are the text of length 0.                     *)
(***************************************************************************)
EXTENDS Integers

CONSTANTS None,               \* Python's None
          MinRawInputChars,   \* config.MIN_RAW_INPUT_CHARS
          MaxRawInputChars    \* config.MAX_RAW_INPUT_CHARS

ASSUME InputBoundsAssumption == {MinRawInputChars, MaxRawInputChars} \subseteq Nat

Text(length, stripped) == [length |-> length, stripped |-> stripped]

NoText == Text(0, 0)

OpenText(raw) == [type |-> "open_text", raw |-> raw, form |-> None]

YesNo(form) == [type |-> "yes_no", raw |-> NoText, form |-> form]

\* validate_shape: does not raise.
ShapeValid(ref) ==
    CASE ref.type = "open_text" -> ref.raw.length > 0
      [] ref.type = "yes_no"    -> ref.form # None

\* validate_raw_input: does not raise.  The lower bound is for the stripped
\* text, the upper one for the whole.
RawInputValid(raw) ==
    /\ raw.length > 0
    /\ raw.stripped >= MinRawInputChars
    /\ raw.length <= MaxRawInputChars

\* Faulty variant of InputValid: validate_shape is not called, as in the
\* real-time graph.
InputValidUnshaped(ref) == ref.type = "open_text" => RawInputValid(ref.raw)

\* What phase 0 of the batch pipeline lets through.
InputValid(ref) ==
    ShapeValid(ref) /\ (ref.type = "open_text" => RawInputValid(ref.raw))

\* What run_reference can process: it does not ask for the shape, but
\* evaluating a form that is not there raises.
Processable(ref) ==
    IF ref.type = "open_text" THEN RawInputValid(ref.raw) ELSE ref.form # None

\* What "Add reference" of the web page lets through.  Its minimum is a
\* literal of its own, and it knows no maximum.
FormAccepts(ref) ==
    ref.type = "open_text" => ref.raw.length > 0 /\ ref.raw.stripped >= 10
=============================================================================
