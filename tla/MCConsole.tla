----------------------------- MODULE MCConsole -----------------------------
(***************************************************************************)
(* Two readers, a keyboard with a letter, a shift key and the right (two   *)
(* byte) control key, and a serial line, on a ring of two characters.      *)
(***************************************************************************)
EXTENDS Console

MCKeys == {<<"", "d">>, <<"", "lshift">>, <<"e0", "ctl">>}
============================================================================
