--------------------------- MODULE MCInputOutput ----------------------------
(***************************************************************************)
(* Files for TLC: two spellings of one name, and two opens one of which    *)
(* denies what the other does.  The console for TLC: a screen of two rows  *)
(* and one of a single row.                                                *)
(***************************************************************************)
EXTENDS InputOutput

TwoSpellings == ("a" :> "a") @@ ("A" :> "a")

SomeRequests == {[mode |-> "ReadOnly", share |-> "DenyWrite"],
                 [mode |-> "ReadWrite", share |-> "DenyNone"]}

ConsoleSizes == {<<2, 2>>, <<1, 2>>}
=============================================================================
