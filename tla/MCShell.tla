------------------------------ MODULE MCShell ------------------------------
(***************************************************************************)
(* The shell on every line of up to three characters and on longer ones     *)
(* that nest what those cannot.                                            *)
(***************************************************************************)
EXTENDS Shell

Alphabet == {"x", " "} \cup symbols
Short == UNION {[1..n -> Alphabet] : n \in 0..3}

Nested == {
    <<"x", "|", "x", "|", "y">>,
    <<"x", "|", "y", ";", "x">>,
    <<"y", "|", "x", "|", "y", ";", "x">>,
    <<"(", "x", ";", "y", ")", "|", "x">>,
    <<"y", "|", "(", "x", "&", ";", "y", ")", ">", "f">>,
    <<"x", " ", "y", ">", "f", " ", "x", "<", "y", ">", ">", "x">>,
    <<"(", "x", "|", "y", "&", ")", "<", "f", ";", "y", "&">>,
    <<"x", ";", "(", "y", ">", "x", ")", "|", "x", " ", "x">>,
    <<"c", "d", " ", "x">>,
    <<"x", " ", "x", " ", "x", " ", "x">>,
    <<"n", "|", "x", "<", "n", ";", "y">>}

MCLines == Short \cup Nested
MCFilters == {<<"x">>, <<"x", "x">>}
MCMissing == {<<"n">>}
============================================================================
