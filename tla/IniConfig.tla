------------------------------ MODULE IniConfig ------------------------------
(***************************************************************************)
(* The configuration file of the infotainment program                      *)
(* (utilities/ini_config/ini_config.c, strutils.c): inicfg_open reads      *)
(* config.ini and parse_config goes over it once, byte by byte, collecting *)
(* a token and building lists of sections and settings, newest first; the  *)
(* program looks its settings up in these lists and closes them when it    *)
(* ends.                                                                   *)
(*                                                                         *)
(* A token is a place in the buffer and a length: what was skipped inside  *)
(* it is still part of its text.  Of the memory only the number of blocks  *)
(* that are allocated is kept.                                             *)
(***************************************************************************)
EXTENDS Naturals, Sequences, SequencesExt, FiniteSets

CONSTANTS
  Char,       \* the characters of a file, "[", "]", "#", "=", " ", "\n" and others
  Line,       \* the lines a file may have, see Header, Setting, Comment and Blank
  MAX_LINES,  \* bound on the lines of a file
  Faults,     \* what may fail: "fopen", "fseek", "ftell", "fread", "malloc"
  NULL        \* the null pointer

ASSUME NullAssumption == NULL \notin Nat
ASSUME FaultsAssumption == Faults \subseteq {"fopen", "fseek", "ftell", "fread", "malloc"}
ASSUME LineAssumption == MAX_LINES \in Nat /\ \A l \in Line : l.text \in Seq(Char)
ASSUME CharAssumption == {"[", "]", "#", "=", " ", "\n"} \subseteq Char

VARIABLES
  file,       \* the lines of config.ini
  buffer,     \* its bytes
  pc,         \* where the program is
  p,          \* the position parse_config looks at
  comment,    \* the flags of parse_config that outlive a byte
  section,
  token,      \* where the token starts, NULL when there is none
  token_len,
  cursection,     \* sections parsed so far, newest first
  inicfg_config,  \* sections that are loaded
  blocks,     \* number of heap blocks that are allocated
  fault       \* a call to the C library has failed

parser == <<p, comment, section, token, token_len, cursection>>
vars == <<file, buffer, pc, parser, inicfg_config, blocks, fault>>

-----------------------------------------------------------------------------
(* Files                                                                   *)

Header(name) == [kind |-> "section", name |-> name, text |-> <<"[">> \o name \o <<"]">>]
Setting(key, value, remark) ==
  [kind |-> "setting", key |-> key, value |-> value, remark |-> remark,
   text |-> key \o <<" ", "=">> \o value \o remark]
Comment(text) == [kind |-> "comment", text |-> <<"#">> \o text]
Blank == [kind |-> "blank", text |-> <<>>]

\* The bytes of a file, with or without a newline behind the last line.
Render(lines, newline) ==
  FlattenSeq([i \in DOMAIN lines |->
    IF i = Len(lines) /\ ~ newline THEN lines[i].text ELSE Append(lines[i].text, "\n")])

-----------------------------------------------------------------------------
(* Settings and sections                                                   *)

Space == {" ", "\n"}

strtrim(s) ==
  LET ink == {i \in DOMAIN s : s[i] \notin Space}
  IN IF ink = {} THEN <<>> ELSE SubSeq(s, Min(ink), Max(ink))

\* Fault: the text is split at its last equal sign.
SplitAtLast(text) == SelectLastInSeq(text, LAMBDA c : c = "=")

\* Where new_setting splits its text, 0 if it has no equal sign.
EqualSign(text) == SelectInSeq(text, LAMBDA c : c = "=")

\* Both trimmed, as they are looked up.
new_setting(text) ==
  LET eqsn == EqualSign(text)
  IN [key |-> strtrim(SubSeq(text, 1, eqsn - 1)),
      value |-> strtrim(SubSeq(text, eqsn + 1, Len(text)))]

new_section(name) == [section_name |-> name, settings |-> <<>>]

\* The places of the settings in a list of sections.
Places(sections) ==
  UNION {{i} \X DOMAIN sections[i].settings : i \in DOMAIN sections}

\* Blocks of a list of sections: two for a section, three for a setting.
Blocks(sections) == 2 * Len(sections) + 3 * Cardinality(Places(sections))

\* The first section of that name that has no setting at all or one with that key
\* ends the search.
find_setting(name, key) ==
  LET WithKey(s) == {j \in DOMAIN s.settings : s.settings[j].key = key}
      ends == {i \in DOMAIN inicfg_config :
                 /\ inicfg_config[i].section_name = name
                 /\ inicfg_config[i].settings = <<>> \/ WithKey(inicfg_config[i]) # {}}
  IN IF ends = {} THEN NULL
     ELSE LET s == inicfg_config[Min(ends)]
          IN IF s.settings = <<>> THEN NULL ELSE s.settings[Min(WithKey(s))].value

-----------------------------------------------------------------------------
SectionList ==
  Seq([section_name : Seq(Char),
       settings : Seq([key : Seq(Char \ {"="}), value : Seq(Char)])])

TypeOK ==
  /\ file \in Seq(Line)
  /\ buffer \in Seq(Char)
  /\ pc \in {"open", "parse", "opened", "closed", "crashed"}
  /\ p \in 1 .. Len(buffer) + 1
  /\ comment \in BOOLEAN /\ section \in BOOLEAN
  /\ token \in Nat \cup {NULL} /\ token_len \in Nat
  /\ cursection \in SectionList /\ inicfg_config \in SectionList
  /\ blocks \in Nat
  /\ fault \in BOOLEAN

Init ==
  /\ file \in UNION {[1 .. n -> Line] : n \in 0 .. MAX_LINES}
  /\ \E newline \in BOOLEAN : buffer = Render(file, newline)
  /\ pc = "open"
  /\ p = 1 /\ comment = FALSE /\ section = FALSE /\ token = NULL /\ token_len = 0
  /\ cursection = <<>> /\ inicfg_config = <<>>
  /\ blocks = 0 /\ fault = FALSE

-----------------------------------------------------------------------------
(* inicfg_open                                                             *)

\* Nothing is loaded.  A size of -1 never is the number of bytes read; a failing
\* fseek makes the file look empty, or leaves nothing to read.
OpenFails ==
  /\ pc = "open"
  /\ \/ Faults \cap {"fopen", "ftell"} # {}
     \/ buffer # <<>> /\ Faults \cap {"fseek", "fread", "malloc"} # {}
  /\ pc' = "opened" /\ fault' = TRUE
  /\ UNCHANGED <<file, buffer, parser, inicfg_config, blocks>>

\* With a size of -1 the block has no byte and fread is given no limit.
ReadOverruns ==
  /\ pc = "open" /\ "ftell" \in Faults /\ buffer # <<>>
  /\ pc' = "crashed" /\ fault' = TRUE
  /\ UNCHANGED <<file, buffer, parser, inicfg_config, blocks>>

OpenEmpty ==
  /\ pc = "open" /\ buffer = <<>>
  /\ pc' = "opened"
  /\ UNCHANGED <<file, buffer, parser, inicfg_config, blocks, fault>>

ReadFile ==
  /\ pc = "open" /\ buffer # <<>>
  /\ pc' = "parse" /\ blocks' = blocks + 1
  /\ UNCHANGED <<file, buffer, parser, inicfg_config, fault>>

-----------------------------------------------------------------------------
(* parse_config                                                            *)

Read(c) == pc = "parse" /\ p <= Len(buffer) /\ buffer[p] = c
LastByte == p = Len(buffer)

OpenBracket ==
  /\ Read("[")
  /\ section' = TRUE /\ p' = p + 1
  /\ UNCHANGED <<file, buffer, pc, comment, token, token_len, cursection,
                 inicfg_config, blocks, fault>>

HashSign ==
  /\ Read("#")
  /\ comment' = TRUE /\ p' = p + 1
  /\ UNCHANGED <<file, buffer, pc, section, token, token_len, cursection,
                 inicfg_config, blocks, fault>>

Text(start, len) == IF start = NULL THEN <<>> ELSE SubSeq(buffer, start, start + len - 1)

EndsSection == Read("]") /\ section /\ token # NULL

CloseBracket ==
  /\ EndsSection
  /\ cursection' = <<new_section(Text(token, token_len))>> \o cursection
  /\ blocks' = blocks + 2
  /\ section' = FALSE /\ token' = NULL /\ token_len' = 0 /\ p' = p + 1
  /\ UNCHANGED <<file, buffer, pc, comment, inicfg_config, fault>>

\* Every other byte.
Ordinary ==
  /\ pc = "parse" /\ p <= Len(buffer) /\ buffer[p] \notin {"[", "#"}
  /\ ~ EndsSection

\* The byte belongs to the token; it completes a setting.
Tokenize == ~ comment /\ (buffer[p] # "\n" \/ LastByte)
Completes == LastByte \/ (buffer[p] = "\n" /\ cursection # <<>> /\ token_len > 0)

\* Fault: the bytes that are not part of the token are counted as well.
CountsAll == IF Tokenize /\ token = NULL THEN 1 ELSE token_len + 1

TokenStart == IF Tokenize /\ token = NULL THEN p ELSE token
TokenLength ==
  IF ~ Tokenize THEN token_len ELSE IF token = NULL THEN 1 ELSE token_len + 1

TakeByte ==
  /\ Ordinary /\ ~ Completes
  /\ token' = TokenStart /\ token_len' = TokenLength
  /\ p' = p + 1
  /\ UNCHANGED <<file, buffer, pc, comment, section, cursection, inicfg_config,
                 blocks, fault>>

\* Fault: a comment does not end with its line.
AddCommented ==
  LET text == Text(TokenStart, TokenLength) IN
  /\ Ordinary /\ Completes
  /\ EqualSign(text) # 0 /\ cursection # <<>>
  /\ cursection' = [cursection EXCEPT ![1].settings = <<new_setting(text)>> \o @]
  /\ blocks' = blocks + 3
  /\ token' = NULL /\ token_len' = 0
  /\ p' = p + 1
  /\ UNCHANGED <<file, buffer, pc, comment, section, inicfg_config, fault>>

AddSetting ==
  LET text == Text(TokenStart, TokenLength) IN
  /\ Ordinary /\ Completes
  /\ EqualSign(text) # 0 /\ cursection # <<>>
  /\ cursection' = [cursection EXCEPT ![1].settings = <<new_setting(text)>> \o @]
  /\ blocks' = blocks + 3
  /\ comment' = FALSE /\ token' = NULL /\ token_len' = 0
  /\ p' = p + 1
  /\ UNCHANGED <<file, buffer, pc, section, inicfg_config, fault>>

\* Fault: only the file buffer is freed.
LeaveSections ==
  /\ pc' = "opened" /\ blocks' = blocks - 1
  /\ cursection' = <<>>
  /\ UNCHANGED <<file, buffer, p, comment, section, token, token_len, inicfg_config>>

\* The sections are freed, and by inicfg_open the buffer; nothing is loaded.
parse_failure_exit ==
  /\ pc' = "opened" /\ blocks' = blocks - Blocks(cursection) - 1
  /\ cursection' = <<>>
  /\ UNCHANGED <<file, buffer, p, comment, section, token, token_len, inicfg_config>>

\* A setting has no equal sign or stands before the first section.
Malformed ==
  /\ Ordinary /\ Completes
  /\ EqualSign(Text(TokenStart, TokenLength)) = 0 \/ cursection = <<>>
  /\ parse_failure_exit
  /\ UNCHANGED fault

OutOfMemory ==
  /\ "malloc" \in Faults
  /\ EndsSection \/ (Ordinary /\ Completes)
  /\ fault' = TRUE
  /\ parse_failure_exit

\* new_setting does not check the blocks of its buffer and of the setting itself.
OutOfMemoryUnchecked ==
  /\ "malloc" \in Faults
  /\ Ordinary /\ Completes
  /\ fault' = TRUE /\ pc' = "crashed"
  /\ UNCHANGED <<file, buffer, parser, inicfg_config, blocks>>

Parsed ==
  /\ pc = "parse" /\ p > Len(buffer)
  /\ inicfg_config' = cursection
  /\ pc' = "opened" /\ blocks' = blocks - 1
  /\ UNCHANGED <<file, buffer, parser, fault>>

parse_config ==
  \/ OpenBracket \/ HashSign \/ CloseBracket \/ TakeByte \/ AddSetting
  \/ Malformed \/ OutOfMemory \/ OutOfMemoryUnchecked \/ Parsed

-----------------------------------------------------------------------------
\* The program ends. The pointer to the freed sections stays.
inicfg_close ==
  /\ pc = "opened"
  /\ pc' = "closed" /\ blocks' = blocks - Blocks(inicfg_config)
  /\ UNCHANGED <<file, buffer, parser, inicfg_config, fault>>

Next == OpenFails \/ ReadOverruns \/ OpenEmpty \/ ReadFile \/ parse_config \/ inicfg_close

Spec == Init /\ [][Next]_vars

-----------------------------------------------------------------------------
(* Properties                                                              *)

\* A token never reaches beyond the bytes that have been read, whatever the file:
\* token_len is counted apart from the position, and new_section and new_setting
\* copy that many bytes from the token.
TokenInside ==
  /\ token_len > 0 => token # NULL
  /\ token # NULL => /\ token_len > 0
                     /\ 1 <= token
                     /\ token + token_len <= p

\* The header a line of a file belongs to.
HeaderOf(lines, i) == Max({j \in 1 .. i : lines[j].kind = "section"})

HasSettings(lines, j) ==
  \E i \in DOMAIN lines : lines[i].kind = "setting" /\ HeaderOf(lines, i) = j

\* Headers and settings with the characters the parser looks for where it expects them.
PlainHeader(l) ==
  /\ l.kind = "section" /\ l = Header(l.name)
  /\ l.name \in Seq(Char \ {"[", "]", "#", "\n"}) \ {<<>>}
PlainSetting(l) ==
  /\ l.kind = "setting" /\ l = Setting(l.key, l.value, l.remark)
  /\ l.key \in Seq(Char \ {"[", "#", "=", "\n"}) /\ l.key = strtrim(l.key)
  /\ l.value \in Seq(Char \ {"[", "#", "\n"})
  /\ l.remark \in Seq(Char \ {"[", "\n"})
  /\ l.remark # <<>> => l.remark[1] = "#" /\ Last(l.remark) # "#"

\* What parse_config takes for a configuration file: it starts with a header and
\* ends with a setting, every section has a setting, no line is only a comment.
WellFormed(lines) ==
  /\ lines # <<>>
  /\ lines[1].kind = "section"
  /\ lines[Len(lines)].kind = "setting"
  /\ \A i \in DOMAIN lines :
       \/ PlainHeader(lines[i]) /\ HasSettings(lines, i)
       \/ PlainSetting(lines[i])
       \/ lines[i] = Blank

\* What a well-formed file says about a key: its last word on it.
Says(lines, name, key) ==
  LET settings == {i \in DOMAIN lines : /\ lines[i].kind = "setting"
                                       /\ lines[i].key = key
                                       /\ lines[HeaderOf(lines, i)].name = name}
  IN IF settings = {} THEN NULL ELSE strtrim(lines[Max(settings)].value)

Names == {l.name : l \in {x \in Line : x.kind = "section"}}
Keys == {l.key : l \in {x \in Line : x.kind = "setting"}}

\* A well-formed file, whatever its remarks, blank lines, repeated sections and
\* keys, is loaded so that every lookup finds what the file says last; when a call
\* fails on the way, nothing of it is found.
LoadsWellFormed ==
  pc = "opened" /\ WellFormed(file) =>
    \A name \in Names, key \in Keys :
      find_setting(name, key) = IF fault THEN NULL ELSE Says(file, name, key)

\* Whatever the file and whatever failed, everything that was allocated for the
\* configuration has been freed when the program ends, and nothing twice.
EverythingFreed == pc = "closed" => blocks = 0

=============================================================================
