----------------------------- MODULE MCResolution -----------------------------
(* A small instance of Resolution for TLC. *)
EXTENDS Resolution

\* 0, 1, 1.050 and a number that one answer differs from in the fifth digit only.
MCThresholds == {[whole |-> 0, frac |-> <<>>], [whole |-> 1, frac |-> <<>>],
                 [whole |-> 1, frac |-> <<0, 5, 0>>],
                 [whole |-> 10, frac |-> <<5, 0, 1>>]}

MCRawAnswers == {-5, 10, 1005, 1050, 10502}

=============================================================================
