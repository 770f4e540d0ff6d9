--------------------------- MODULE MCTextualObserver ---------------------------
(* Instances of TextualObserver: two tokens, and pieces of text that may be cut in the middle. *)
EXTENDS TextualObserver

EchoText == <<"b", "a">>
PromptText == <<"a", "b">>
FailureText == <<"b", "b">>
TwoPatterns == <<PromptText, <<"b">>>>
OnePrompt == {PromptText}

\* WithoutNewlines, which the proofs use, selects what _strip_new_lines_chars leaves.
ASSUME WithoutNewlinesSelects ==
    \A n \in 0..5 : \A text \in [1..n -> Tokens \cup {Newline}] :
        WithoutNewlines(text) = SelectSeq(text, LAMBDA t : t # Newline)
===============================================================================
