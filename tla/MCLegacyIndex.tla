---------------------------- MODULE MCLegacyIndex ----------------------------
(* Finite instances of the legacy index for TLC.                            *)
EXTENDS LegacyIndex

\* A text, one above the limit, and one above it that continues the first only.
SmallTexts == {<<"a">>, <<"b">>, <<"a", "b">>}
LargeTexts == {<<"b">>, <<"a", "b">>}

\* A text above the limit, and one that is longer and does not continue it.
GrownTexts == {<<"b">>, <<"a", "b">>}
OneText == {<<"a">>}
==============================================================================
