---------------------------- MODULE MCSerialLink ----------------------------
(* SerialLink on small instances, for TLC.                                 *)
EXTENDS SerialLink

\* Two texts of different lengths with characters in common.
PlainTexts == {<<"a", "b">>, <<"b", "a", "c">>}

BannerLine == <<"8">>

=============================================================================
