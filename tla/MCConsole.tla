------------------------------- MODULE MCConsole -------------------------------
(***************************************************************************)
(* The instance of Console that TLC checks: rows of three cells, so that a *)
(* line crosses the end of a row and the bottom of the screen.             *)
(***************************************************************************)
EXTENDS Console

MCChars   == {"a", "_", Blank}
MCGlyphs  == MCChars \cup {">", "x"}
MCPrompts == {<<">", Blank>>, <<">">>}
MCOutputs == {<<NL>>, <<TAB, "x", NL, NL>>, <<"x">>}
================================================================================
