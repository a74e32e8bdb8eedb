----------------------------- MODULE MCIniConfig -----------------------------
(* IniConfig on small files, for TLC.                                      *)
EXTENDS IniConfig

Chars == {"[", "]", "#", "=", " ", "\n", "s", "t", "k", "v", "w"}

\* Two sections, two settings of one key, one of them with a remark, a setting with
\* an equal sign in its value, and the other kinds of line.
Lines ==
  {Header(<<"s">>), Header(<<"t">>),
   Setting(<<"k">>, <<"v">>, <<>>),
   Setting(<<"k">>, <<" ", "w", " ">>, <<"#", "v">>),
   Setting(<<"w">>, <<"v", "=", "]">>, <<>>),
   Comment(<<"v">>), Blank}

=============================================================================
