----------------------------- MODULE MCMsgDecode -----------------------------
(* Status frames, one of which has a plus in its text, a shorter message of   *)
(* their type, and a longer one of a type nobody handles, which fills a block. *)
EXTENDS MsgDecode, TLC

WithPlus == <<6, 1, 62, 0, 9, 9>>
MCFrame == {<<6, 1, 0, 0, 178, 12>>, WithPlus, <<4, 1, 7, 7>>, <<9, 2, 3, 1, 4, 1, 5, 9, 2>>}

\* One character is lost.
MCDamaged == {SelectSeq(encode(WithPlus), LAMBDA c : c # PLUS), RemoveAt(encode(<<4, 1, 7, 7>>), 2)}

MCForeign == {Zeroed, [i \in 1 .. SIZE |-> NOT_BASE64]}

\* Nothing, a character that is not base64, a whole group.
MCBehind == {<<>>, <<NOT_BASE64>>, <<1, 1, 1, 1>>}

Blocks == Permutations(Block)

=============================================================================
