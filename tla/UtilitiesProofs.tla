-------------------------- MODULE UtilitiesProofs --------------------------
(***************************************************************************)
(* What holds of the utilities of the infotainment program: of the parser  *)
(* of configuration files for every file, and of the hash map for every    *)
(* hash function, capacity and sequence of operations.                     *)
(***************************************************************************)
EXTENDS IniConfig, HashMap, Induction, TLAPS

-----------------------------------------------------------------------------
(* IniConfig: the token                                                    *)

\* The bookkeeping of the token.
TokenTypeOK ==
  /\ p \in Nat \ {0}
  /\ token \in Nat \cup {NULL}
  /\ token_len \in Nat

TInv == TokenTypeOK /\ TokenInside

-----------------------------------------------------------------------------
\* A byte that is taken extends the token to the position it was read from: the
\* next position lies behind the token again.
LEMMA TakenByteIsRead ==
  ASSUME TInv
  PROVE  /\ TokenStart \in Nat \cup {NULL} /\ TokenLength \in Nat
         /\ TokenLength > 0 => TokenStart # NULL
         /\ TokenStart # NULL => /\ TokenLength > 0 /\ 1 <= TokenStart
                                 /\ TokenStart + TokenLength <= p + 1
<1>1. CASE ~ Tokenize
  BY <1>1, NullAssumption DEF TInv, TokenTypeOK, TokenInside, TokenStart, TokenLength
<1>2. CASE Tokenize /\ token = NULL
  BY <1>2, NullAssumption DEF TInv, TokenTypeOK, TokenInside, TokenStart, TokenLength
<1>3. CASE Tokenize /\ token # NULL
  BY <1>3, NullAssumption DEF TInv, TokenTypeOK, TokenInside, TokenStart, TokenLength
<1>4. QED BY <1>1, <1>2, <1>3

\* The token is well kept from the start.
LEMMA InitT == Init => TInv
BY NullAssumption DEF Init, TInv, TokenTypeOK, TokenInside

\* Every step of the program keeps the token inside the bytes that were read.
LEMMA NextT == TInv /\ [Next]_vars => TInv'
<1> SUFFICES ASSUME TInv, [Next]_vars PROVE TInv'
  OBVIOUS
<1> USE NullAssumption DEF TInv, TokenTypeOK, TokenInside
<1>1. CASE UNCHANGED <<p, token, token_len>>
  BY <1>1
<1>2. CASE OpenBracket \/ HashSign
  BY <1>2 DEF OpenBracket, HashSign
<1>3. CASE CloseBracket
  BY <1>3 DEF CloseBracket
<1>4. CASE TakeByte
  <2>1. /\ token' = TokenStart /\ token_len' = TokenLength
        /\ p' = p + 1
    BY <1>4 DEF TakeByte
  <2>2. QED BY <2>1, TakenByteIsRead
<1>5. CASE AddSetting
  BY <1>5 DEF AddSetting
<1>6. CASE Malformed \/ OutOfMemory
  BY <1>1, <1>6 DEF Malformed, OutOfMemory, parse_failure_exit
<1>7. CASE OutOfMemoryUnchecked \/ Parsed
  BY <1>1, <1>7 DEF OutOfMemoryUnchecked, Parsed, parser
<1>8. CASE OpenFails \/ ReadOverruns \/ OpenEmpty \/ ReadFile \/ inicfg_close
  BY <1>1, <1>8 DEF OpenFails, ReadOverruns, OpenEmpty, ReadFile, inicfg_close, parser
<1>9. CASE UNCHANGED vars
  BY <1>1, <1>9 DEF vars, parser
<1>10. QED
  BY <1>2, <1>3, <1>4, <1>5, <1>6, <1>7, <1>8, <1>9 DEF Next, parse_config

\* parse_config never hands new_section or new_setting bytes it has not read,
\* whatever the file and whatever fails.
THEOREM TokensInside == Spec => []TokenInside
<1>1. TInv => TokenInside
  BY DEF TInv
<1>2. QED
  BY InitT, NextT, <1>1, PTL DEF Spec

-----------------------------------------------------------------------------
(* Trimming and splitting *)

\* What strtrim leaves is part of what it was given.
LEMMA TrimType ==
  ASSUME NEW C, NEW s \in Seq(C)
  PROVE  strtrim(s) \in Seq(C)
<1> DEFINE ink == {i \in DOMAIN s : s[i] \notin Space}
<1>1. CASE ink = {}
  BY <1>1 DEF strtrim
<1>2. CASE ink # {}
  <2>1. DOMAIN s = 1 .. Len(s) /\ Len(s) \in Nat
    OBVIOUS
  <2>2. ink \in SUBSET Nat /\ \A i \in ink : i <= Len(s)
    BY <2>1
  <2>3. Min(ink) \in ink /\ Max(ink) \in ink
    BY <1>2, <2>1, <2>2, MinIsLeast, MaxIsGreatest
  <2>4. Min(ink) \in 1 .. Len(s) /\ Max(ink) \in 1 .. Len(s)
    BY <2>1, <2>3
  <2> DEFINE a == Min(ink)
             b == Max(ink)
  <2>5. strtrim(s) = SubSeq(s, a, b)
    BY <1>2 DEF strtrim
  <2>6. \A i \in a .. b : s[i] \in C
    BY <2>1, <2>4
  <2> HIDE DEF a, b
  <2>7. SubSeq(s, a, b) \in Seq(C)
    BY <2>4, <2>6, SubSeqProperties DEF a, b
  <2> QED BY <2>5, <2>7
<1> QED BY <1>1, <1>2

\* new_setting splits at the first equal sign: none is left in the key.
LEMMA SettingType ==
  ASSUME NEW text \in Seq(Char), EqualSign(text) # 0
  PROVE  new_setting(text) \in [key : Seq(Char \ {"="}), value : Seq(Char)]
<1> DEFINE signs == {i \in 1 .. Len(text) : text[i] = "="}
           e == EqualSign(text)
<1>1. signs # {} /\ e = Min(signs)
  BY DEF EqualSign, SelectInSeq
<1>2. Len(text) \in Nat /\ signs \in SUBSET Nat
  OBVIOUS
<1>3. e \in signs /\ \A i \in signs : e <= i
  BY <1>1, <1>2, MinIsLeast
<1>4. e \in 1 .. Len(text)
  BY <1>3
<1> HIDE DEF e
<1>5. \A i \in 1 .. e - 1 : text[i] \in Char \ {"="}
  <2> SUFFICES ASSUME NEW i \in 1 .. e - 1 PROVE text[i] \in Char \ {"="}
    OBVIOUS
  <2>1. i \in 1 .. Len(text) /\ ~ (e <= i)
    BY <1>2, <1>4
  <2>2. i \notin signs
    BY <1>3, <2>1
  <2> QED BY <2>1, <2>2
<1>6. \A i \in e + 1 .. Len(text) : text[i] \in Char
  BY <1>2, <1>4
<1>7. SubSeq(text, 1, e - 1) \in Seq(Char \ {"="})
  BY <1>4, <1>5, SubSeqProperties
<1>8. SubSeq(text, e + 1, Len(text)) \in Seq(Char)
  BY <1>2, <1>4, <1>6, SubSeqProperties
<1>9. /\ strtrim(SubSeq(text, 1, e - 1)) \in Seq(Char \ {"="})
      /\ strtrim(SubSeq(text, e + 1, Len(text))) \in Seq(Char)
  BY <1>7, <1>8, TrimType
<1> QED BY <1>9 DEF new_setting, e

-----------------------------------------------------------------------------
(* Lists of sections *)

SettingRecord == [key : Seq(Char \ {"="}), value : Seq(Char)]
SectionRecord == [section_name : Seq(Char), settings : Seq(SettingRecord)]

\* A file is a sequence of characters.
LEMMA FileType ==
  ASSUME NEW lines \in Seq(Line), NEW newline \in BOOLEAN
  PROVE  Render(lines, newline) \in Seq(Char)
<1> DEFINE T(i) == IF i = Len(lines) /\ ~ newline THEN lines[i].text
                   ELSE Append(lines[i].text, "\n")
           ss == [i \in DOMAIN lines |-> T(i)]
<1>1. DOMAIN lines = 1 .. Len(lines) /\ Len(lines) \in Nat
  OBVIOUS
<1>2. \A i \in 1 .. Len(lines) : lines[i].text \in Seq(Char)
  BY LineAssumption
<1>3. "\n" \in Char
  BY CharAssumption
<1>4. \A i \in 1 .. Len(lines) : T(i) \in Seq(Char)
  BY <1>2, <1>3
<1> HIDE DEF T
<1>5. ss \in Seq(Seq(Char))
  BY <1>1, <1>4
<1>6. FlattenSeq(ss) \in Seq(Char)
  BY <1>5, FlattenType
<1> QED BY <1>6 DEF Render, T

LEMMA PlacesAre ==
  ASSUME NEW q \in Seq(SectionRecord)
  PROVE  \A x : x \in Places(q) <=>
           \E i \in 1 .. Len(q), j \in Nat : j \in 1 .. Len(q[i].settings) /\ x = <<i, j>>
<1>1. DOMAIN q = 1 .. Len(q)
  OBVIOUS
<1>2. \A i \in 1 .. Len(q) : q[i].settings \in Seq(SettingRecord)
  <2>1. \A i \in 1 .. Len(q) : q[i] \in SectionRecord
    OBVIOUS
  <2> QED BY <2>1 DEF SectionRecord
<1>3. \A i \in 1 .. Len(q) : DOMAIN q[i].settings = 1 .. Len(q[i].settings)
  BY <1>2
<1>4. Places(q) = UNION {{i} \X (1 .. Len(q[i].settings)) : i \in 1 .. Len(q)}
  BY <1>1, <1>3 DEF Places
<1>5. ASSUME NEW i \in 1 .. Len(q), NEW x, x \in {i} \X (1 .. Len(q[i].settings))
      PROVE  \E j \in Nat : j \in 1 .. Len(q[i].settings) /\ x = <<i, j>>
  BY <1>5
<1> QED BY <1>4, <1>5

LEMMA PlacesFinite ==
  ASSUME NEW q \in Seq(SectionRecord)
  PROVE  IsFiniteSet(Places(q))
<1> DEFINE Row(i) == {i} \X DOMAIN q[i].settings
           rows == {Row(i) : i \in 1 .. Len(q)}
           f == [i \in 1 .. Len(q) |-> Row(i)]
<1>1. DOMAIN q = 1 .. Len(q) /\ Len(q) \in Nat
  OBVIOUS
<1>2. ASSUME NEW i \in 1 .. Len(q) PROVE IsFiniteSet(Row(i))
  <2>1. q[i] \in SectionRecord
    OBVIOUS
  <2>2. q[i].settings \in Seq(SettingRecord)
    BY <2>1 DEF SectionRecord
  <2>3. DOMAIN q[i].settings = 1 .. Len(q[i].settings) /\ Len(q[i].settings) \in Nat
    BY <2>2
  <2> DEFINE n == Len(q[i].settings)
  <2>4. n \in Int
    BY <2>3
  <2> HIDE DEF n
  <2>5. IsFiniteSet(1 .. n)
    BY <2>4, FS_Interval
  <2>6. IsFiniteSet(DOMAIN q[i].settings)
    BY <2>3, <2>5 DEF n
  <2>7. IsFiniteSet({i})
    BY FS_Singleton
  <2> QED BY <2>6, <2>7, FS_Product
<1> HIDE DEF Row
<1>3. f \in Surjection(1 .. Len(q), rows)
  BY DEF Surjection
<1>4. IsFiniteSet(1 .. Len(q))
  BY <1>1, FS_Interval
<1>5. IsFiniteSet(rows)
  BY <1>3, <1>4, FS_Surjection
<1>6. \A R \in rows : IsFiniteSet(R)
  BY <1>2
<1>7. IsFiniteSet(UNION rows)
  BY <1>5, <1>6, FS_UNION
<1> QED BY <1>1, <1>7 DEF Places, Row

\* The list of sections after new_section: two blocks more.
LEMMA SectionAddsTwo ==
  ASSUME NEW q \in Seq(SectionRecord), NEW name \in Seq(Char)
  PROVE  /\ <<new_section(name)>> \o q \in Seq(SectionRecord)
         /\ Blocks(<<new_section(name)>> \o q) = Blocks(q) + 2
<1> DEFINE s == new_section(name)
           r == <<s>> \o q
           P == Places(q)
           R == Places(r)
           f == [x \in P |-> <<x[1] + 1, x[2]>>]
<1>1. s \in SectionRecord /\ s.settings = <<>>
  BY DEF new_section, SectionRecord
<1> HIDE DEF s
<1>2. <<s>> \in Seq(SectionRecord) /\ Len(<<s>>) = 1 /\ <<s>>[1] = s /\ Len(q) \in Nat
  BY <1>1
<1>3. /\ r \in Seq(SectionRecord) /\ Len(r) = Len(q) + 1
      /\ \A i \in 1 .. Len(q) + 1 : r[i] = IF i = 1 THEN s ELSE q[i - 1]
  BY <1>2, ConcatProperties
<1> HIDE DEF r
<1>4. \A i \in 1 .. Len(q) : i + 1 \in 1 .. Len(r) /\ r[i + 1] = q[i]
  <2> SUFFICES ASSUME NEW i \in 1 .. Len(q) PROVE i + 1 \in 1 .. Len(r) /\ r[i + 1] = q[i]
    OBVIOUS
  <2>1. i + 1 \in 1 .. Len(q) + 1 /\ i + 1 # 1 /\ (i + 1) - 1 = i
    BY <1>2
  <2> QED BY <1>3, <2>1
<1>5. ASSUME NEW x \in P PROVE <<x[1] + 1, x[2]>> \in R
  <2>1. PICK i \in 1 .. Len(q), j \in Nat : j \in 1 .. Len(q[i].settings) /\ x = <<i, j>>
    BY PlacesAre
  <2>2. i + 1 \in 1 .. Len(r) /\ j \in 1 .. Len(r[i + 1].settings)
    BY <1>4, <2>1
  <2>3. <<i + 1, j>> \in R
    BY <1>3, <2>2, PlacesAre
  <2> QED BY <2>1, <2>3
<1>6. ASSUME NEW y \in R PROVE \E x \in P : f[x] = y
  <2>1. PICK i \in 1 .. Len(r), j \in Nat : j \in 1 .. Len(r[i].settings) /\ y = <<i, j>>
    BY <1>3, PlacesAre
  <2>2. i # 1
    BY <1>1, <1>3, <2>1
  <2>3. i - 1 \in 1 .. Len(q) /\ r[i] = q[i - 1] /\ (i - 1) + 1 = i
    BY <1>2, <1>3, <2>2
  <2>4. <<i - 1, j>> \in P
    BY <2>1, <2>3, PlacesAre
  <2>5. f[<<i - 1, j>>] = <<i, j>>
    BY <2>3, <2>4
  <2> QED BY <2>1, <2>4, <2>5
<1>7. ASSUME NEW x \in P, NEW y \in P, f[x] = f[y] PROVE x = y
  <2>1. PICK i \in 1 .. Len(q), j \in Nat : x = <<i, j>>
    BY PlacesAre
  <2>2. PICK k \in 1 .. Len(q), l \in Nat : y = <<k, l>>
    BY PlacesAre
  <2>3. <<i + 1, j>> = <<k + 1, l>>
    BY <1>7, <2>1, <2>2
  <2> QED BY <2>1, <2>2, <2>3
<1>8. f \in [P -> R]
  BY <1>5
<1> HIDE DEF f, P, R
<1>9. DOMAIN f = P
  BY <1>8
<1>10. f \in Bijection(P, R)
  BY <1>6, <1>7, <1>8, <1>9 DEF Bijection, Injection, IsInjective, Surjection
<1>11. ExistsBijection(P, R)
  BY <1>10 DEF ExistsBijection
<1>12. IsFiniteSet(P)
  BY PlacesFinite DEF P
<1>13. Cardinality(R) = Cardinality(P) /\ Cardinality(P) \in Nat
  BY <1>11, <1>12, FS_Bijection, FS_CardinalityType
<1>14. Blocks(r) = 2 * (Len(q) + 1) + 3 * Cardinality(P)
  BY <1>3, <1>13 DEF Blocks, R
<1>15. Blocks(q) = 2 * Len(q) + 3 * Cardinality(P)
  BY DEF Blocks, P
<1>16. Blocks(r) = Blocks(q) + 2
  BY <1>2, <1>13, <1>14, <1>15
<1> QED BY <1>3, <1>16 DEF r, s

\* The list of sections after new_setting: three blocks more.
LEMMA SettingAddsThree ==
  ASSUME NEW q \in Seq(SectionRecord), q # <<>>, NEW x \in SettingRecord
  PROVE  /\ [q EXCEPT ![1].settings = <<x>> \o @] \in Seq(SectionRecord)
         /\ Blocks([q EXCEPT ![1].settings = <<x>> \o @]) = Blocks(q) + 3
<1> DEFINE old == q[1].settings
           new == <<x>> \o old
           s == [q[1] EXCEPT !.settings = new]
           r == [q EXCEPT ![1] = s]
           place == <<1, Len(old) + 1>>
<1>1. Len(q) \in Nat \ {0} /\ 1 \in 1 .. Len(q) /\ q[1] \in SectionRecord
  OBVIOUS
<1>2. old \in Seq(SettingRecord) /\ Len(old) \in Nat
  BY <1>1 DEF SectionRecord
<1>3. new \in Seq(SettingRecord) /\ Len(new) = Len(old) + 1
  <2>1. <<x>> \in Seq(SettingRecord) /\ Len(<<x>>) = 1
    OBVIOUS
  <2> HIDE DEF old
  <2> QED BY <1>2, <2>1, ConcatProperties
<1>4. s \in SectionRecord /\ s.settings = new
  BY <1>1, <1>3 DEF SectionRecord
<1>5. [q EXCEPT ![1].settings = <<x>> \o @] = r
  BY <1>1
<1> HIDE DEF s, new
<1>6. /\ r \in Seq(SectionRecord) /\ Len(r) = Len(q)
      /\ \A i \in 1 .. Len(q) : r[i] = IF i = 1 THEN s ELSE q[i]
  BY <1>1, <1>4, ExceptSeq
<1> HIDE DEF r
<1>7. Places(r) = Places(q) \cup {place}
  <2>1. ASSUME NEW y \in Places(r) PROVE y \in Places(q) \cup {place}
    <3>1. PICK i \in 1 .. Len(r), j \in Nat : j \in 1 .. Len(r[i].settings) /\ y = <<i, j>>
      BY <1>6, PlacesAre
    <3>2. CASE i # 1
      <4>1. i \in 1 .. Len(q) /\ r[i] = q[i]
        BY <1>6, <3>2
      <4> QED BY <3>1, <4>1, PlacesAre
    <3>3. CASE i = 1 /\ j = Len(old) + 1
      BY <3>1, <3>3
    <3>4. CASE i = 1 /\ j # Len(old) + 1
      <4>1. j \in 1 .. Len(old) + 1
        BY <1>1, <1>3, <1>4, <1>6, <3>1, <3>4
      <4>2. j \in 1 .. Len(q[1].settings)
        BY <1>2, <3>4, <4>1
      <4> QED BY <1>1, <3>1, <3>4, <4>2, PlacesAre
    <3> QED BY <3>2, <3>3, <3>4
  <2>2. ASSUME NEW y \in Places(q) PROVE y \in Places(r)
    <3>1. PICK i \in 1 .. Len(q), j \in Nat : j \in 1 .. Len(q[i].settings) /\ y = <<i, j>>
      BY PlacesAre
    <3>2. i \in 1 .. Len(r) /\ j \in 1 .. Len(r[i].settings)
      BY <1>2, <1>3, <1>4, <1>6, <3>1
    <3> QED BY <1>6, <3>1, <3>2, PlacesAre
  <2>3. place \in Places(r)
    <3>1. 1 \in 1 .. Len(r) /\ Len(r[1].settings) = Len(old) + 1
      BY <1>1, <1>3, <1>4, <1>6
    <3>2. Len(old) + 1 \in Nat /\ Len(old) + 1 \in 1 .. Len(r[1].settings)
      BY <1>2, <3>1
    <3> QED BY <1>6, <3>1, <3>2, PlacesAre
  <2> QED BY <2>1, <2>2, <2>3
<1>8. place \notin Places(q)
  <2> SUFFICES ASSUME place \in Places(q) PROVE FALSE
    OBVIOUS
  <2>1. PICK i \in 1 .. Len(q), j \in Nat : j \in 1 .. Len(q[i].settings) /\ place = <<i, j>>
    BY PlacesAre
  <2>2. i = 1 /\ j = Len(old) + 1
    BY <2>1
  <2> QED BY <1>2, <2>1, <2>2
<1>9. IsFiniteSet(Places(q))
  BY PlacesFinite
<1>10. /\ Cardinality(Places(r)) = Cardinality(Places(q)) + 1
       /\ Cardinality(Places(q)) \in Nat
  BY <1>7, <1>8, <1>9, FS_AddElement, FS_CardinalityType
<1>11. Blocks(r) = Blocks(q) + 3
  BY <1>1, <1>6, <1>10 DEF Blocks
<1> QED BY <1>5, <1>6, <1>11

-----------------------------------------------------------------------------
(* Type correctness and the memory *)

\* What is allocated at each place of the program: nothing before the file is read,
\* while it is parsed the buffer and the sections so far, then the sections that
\* are loaded.
Allocated ==
  /\ pc \in {"open", "parse"} => inicfg_config = <<>>
  /\ pc = "open" => blocks = 0 /\ cursection = <<>>
  /\ pc = "parse" => blocks = Blocks(cursection) + 1
  /\ pc = "opened" => blocks = Blocks(inicfg_config)
  /\ pc = "closed" => blocks = 0

IInv == TypeOK /\ TokenInside /\ Allocated

LEMMA ListsAre == SectionList = Seq(SectionRecord)
BY DEF SectionList, SectionRecord, SettingRecord

LEMMA NoBlocks == <<>> \in SectionList /\ Blocks(<<>>) = 0
<1>1. <<>> \in Seq(SectionRecord) /\ Len(<<>>) = 0
  OBVIOUS
<1>2. Places(<<>>) = {}
  <2>1. DOMAIN <<>> = {}
    OBVIOUS
  <2> QED BY <2>1 DEF Places
<1>3. Cardinality({}) = 0
  BY FS_EmptySet
<1>4. Blocks(<<>>) = 2 * Len(<<>>) + 3 * Cardinality({})
  BY <1>2 DEF Blocks
<1>5. Blocks(<<>>) = 0
  BY <1>1, <1>3, <1>4
<1> QED BY <1>1, <1>5, ListsAre

LEMMA BlocksType ==
  ASSUME NEW q \in SectionList
  PROVE  Blocks(q) \in Nat
<1>1. IsFiniteSet(Places(q)) /\ Len(q) \in Nat
  BY PlacesFinite, ListsAre
<1>2. Cardinality(Places(q)) \in Nat
  BY <1>1, FS_CardinalityType
<1> QED BY <1>1, <1>2 DEF Blocks

\* The text of a token that lies inside the bytes read so far.
LEMMA TextType ==
  ASSUME buffer \in Seq(Char), NEW start \in Nat \cup {NULL}, NEW len \in Nat,
         start # NULL => len > 0 /\ 1 <= start /\ start + len <= Len(buffer) + 1
  PROVE  Text(start, len) \in Seq(Char)
<1>1. CASE start = NULL
  BY <1>1 DEF Text
<1>2. CASE start # NULL
  <2>1. start \in Nat /\ start + len - 1 \in Nat /\ Len(buffer) \in Nat
    BY <1>2
  <2>2. \A i \in start .. start + len - 1 : i \in 1 .. Len(buffer)
    BY <1>2, <2>1
  <2>3. \A i \in start .. start + len - 1 : buffer[i] \in Char
    BY <2>2
  <2>4. SubSeq(buffer, start, start + len - 1) \in Seq(Char)
    BY <2>1, <2>3, SubSeqProperties
  <2> QED BY <1>2, <2>4 DEF Text
<1> QED BY <1>1, <1>2

LEMMA InitIInv == Init => IInv
<1> SUFFICES ASSUME Init PROVE IInv
  OBVIOUS
<1>1. PICK n \in 0 .. MAX_LINES : file \in [1 .. n -> Line]
  BY DEF Init
<1>2. file \in Seq(Line)
  BY <1>1, LineAssumption
<1>3. PICK newline \in BOOLEAN : buffer = Render(file, newline)
  BY DEF Init
<1>4. buffer \in Seq(Char)
  BY <1>2, <1>3, FileType
<1>5. 1 \in 1 .. Len(buffer) + 1
  BY <1>4
<1>6. TypeOK
  BY <1>2, <1>4, <1>5, NoBlocks DEF Init, TypeOK
<1>7. Allocated
  BY DEF Init, Allocated
<1> QED BY <1>6, <1>7, InitT DEF IInv, TInv

\* One step of the parser at the byte p; the token of TokensInside is where new_section
\* and new_setting copy from.
LEMMA NextIInv == IInv /\ [Next]_vars => IInv'
<1> SUFFICES ASSUME IInv, [Next]_vars PROVE IInv'
  OBVIOUS
<1>1. TypeOK /\ TokenInside /\ Allocated
  BY DEF IInv
<1>2. TInv
  BY <1>1 DEF TInv, TokenTypeOK, TypeOK
<1>3. TokenInside'
  BY <1>2, NextT DEF TInv
<1>4. /\ TokenStart \in Nat \cup {NULL} /\ TokenLength \in Nat
      /\ TokenStart # NULL => TokenLength > 0 /\ 1 <= TokenStart /\ TokenStart + TokenLength <= p + 1
  BY <1>2, TakenByteIsRead
<1>5. p \in Nat /\ Len(buffer) \in Nat /\ buffer \in Seq(Char)
  BY <1>1 DEF TypeOK
<1>6. CASE OpenBracket \/ HashSign
  <2>1. p' \in 1 .. Len(buffer) + 1
    BY <1>5, <1>6 DEF OpenBracket, HashSign, Read
  <2>2. TypeOK'
    BY <1>1, <1>6, <2>1 DEF OpenBracket, HashSign, TypeOK
  <2>3. Allocated'
    BY <1>1, <1>6 DEF OpenBracket, HashSign, Allocated
  <2> QED BY <1>3, <2>2, <2>3 DEF IInv
<1>7. CASE CloseBracket
  <2>1. p \in 1 .. Len(buffer) /\ p' = p + 1 /\ token # NULL /\ pc = "parse"
    BY <1>1, <1>7 DEF CloseBracket, EndsSection, Read, TypeOK
  <2>2. token_len > 0 /\ 1 <= token /\ token + token_len <= Len(buffer) + 1
    BY <1>1, <1>5, <2>1 DEF TypeOK, TokenInside
  <2>3. Text(token, token_len) \in Seq(Char)
    BY <1>1, <1>5, <2>2, TextType DEF TypeOK
  <2>4. /\ cursection' \in SectionList /\ Blocks(cursection') = Blocks(cursection) + 2
        /\ Blocks(cursection) \in Nat
    BY <1>1, <1>7, <2>3, SectionAddsTwo, ListsAre, BlocksType DEF CloseBracket, TypeOK
  <2>5. p' \in 1 .. Len(buffer) + 1
    BY <1>5, <2>1
  <2>6. blocks' \in Nat
    BY <1>1, <1>7 DEF CloseBracket, TypeOK
  <2>7. comment' \in BOOLEAN /\ section' \in BOOLEAN /\ fault' \in BOOLEAN
    BY <1>1, <1>7, Zenon DEF CloseBracket, TypeOK
  <2>8. /\ UNCHANGED <<file, buffer, pc, inicfg_config>>
        /\ token' = NULL /\ token_len' = 0
    BY <1>7 DEF CloseBracket
  <2>9. TypeOK'
    BY <1>1, <2>4, <2>5, <2>6, <2>7, <2>8 DEF TypeOK
  <2>10. Allocated'
    BY <1>1, <1>7, <2>1, <2>4 DEF CloseBracket, Allocated
  <2> QED BY <1>3, <2>9, <2>10 DEF IInv
<1>8. CASE TakeByte
  <2>1. p' \in 1 .. Len(buffer) + 1
    BY <1>5, <1>8 DEF TakeByte, Ordinary
  <2>2. TypeOK'
    BY <1>1, <1>4, <1>8, <2>1 DEF TakeByte, TypeOK
  <2>3. Allocated'
    BY <1>1, <1>8 DEF TakeByte, Allocated
  <2> QED BY <1>3, <2>2, <2>3 DEF IInv
<1>9. CASE AddSetting
  <2> DEFINE text == Text(TokenStart, TokenLength)
  <2>1. p \in 1 .. Len(buffer) /\ p' = p + 1 /\ pc = "parse"
    BY <1>1, <1>9 DEF AddSetting, Ordinary, TypeOK
  <2>2. TokenStart # NULL => TokenLength > 0 /\ 1 <= TokenStart
                             /\ TokenStart + TokenLength <= Len(buffer) + 1
    BY <1>4, <1>5, <2>1, NullAssumption
  <2>3. text \in Seq(Char)
    BY <1>4, <1>5, <2>2, TextType
  <2>4. /\ EqualSign(text) # 0 /\ cursection # <<>> /\ blocks' = blocks + 3
        /\ cursection' = [cursection EXCEPT ![1].settings = <<new_setting(text)>> \o @]
    BY <1>9 DEF AddSetting
  <2> HIDE DEF text
  <2>5. new_setting(text) \in SettingRecord
    BY <2>3, <2>4, SettingType DEF SettingRecord
  <2>6. /\ cursection' \in SectionList /\ Blocks(cursection') = Blocks(cursection) + 3
        /\ Blocks(cursection) \in Nat
    BY <1>1, <2>4, <2>5, SettingAddsThree, ListsAre, BlocksType DEF TypeOK
  <2>7. p' \in 1 .. Len(buffer) + 1
    BY <1>5, <2>1
  <2>8. blocks' \in Nat
    BY <1>1, <2>4 DEF TypeOK
  <2>9. comment' \in BOOLEAN /\ section' \in BOOLEAN /\ fault' \in BOOLEAN
    BY <1>1, <1>9, Zenon DEF AddSetting, TypeOK
  <2>10. /\ UNCHANGED <<file, buffer, pc, inicfg_config>>
        /\ token' = NULL /\ token_len' = 0
    BY <1>9 DEF AddSetting
  <2>11. TypeOK'
    BY <1>1, <2>6, <2>7, <2>8, <2>9, <2>10 DEF TypeOK
  <2>12. Allocated'
    BY <1>1, <1>9, <2>1, <2>4, <2>6 DEF AddSetting, Allocated
  <2> QED BY <1>3, <2>11, <2>12 DEF IInv
<1>10. CASE Malformed \/ OutOfMemory
  <2>1. pc = "parse" /\ parse_failure_exit /\ (fault' = TRUE \/ fault' = fault)
    BY <1>10 DEF Malformed, OutOfMemory, Ordinary, EndsSection, Read
  <2>2. Blocks(cursection) \in Nat
    BY <1>1, BlocksType DEF TypeOK
  <2>3. blocks' = 0
    BY <1>1, <2>1, <2>2 DEF parse_failure_exit, Allocated
  <2>4. comment' \in BOOLEAN /\ section' \in BOOLEAN /\ fault' \in BOOLEAN
    BY <1>1, <2>1, Zenon DEF parse_failure_exit, TypeOK
  <2>5. /\ UNCHANGED <<file, buffer, p, token, token_len, inicfg_config>>
        /\ pc' = "opened" /\ cursection' = <<>>
    BY <2>1 DEF parse_failure_exit
  <2>6. TypeOK'
    BY <1>1, <2>3, <2>4, <2>5, NoBlocks DEF TypeOK
  <2>7. Allocated'
    BY <1>1, <2>1, <2>3, NoBlocks DEF parse_failure_exit, Allocated
  <2> QED BY <1>3, <2>6, <2>7 DEF IInv
<1>11. CASE OutOfMemoryUnchecked
  <2>1. TypeOK'
    BY <1>1, <1>11 DEF OutOfMemoryUnchecked, parser, TypeOK
  <2>2. Allocated'
    BY <1>1, <1>11 DEF OutOfMemoryUnchecked, parser, Allocated
  <2> QED BY <1>3, <2>1, <2>2 DEF IInv
<1>12. CASE Parsed
  <2>1. Blocks(cursection) \in Nat
    BY <1>1, BlocksType DEF TypeOK
  <2>2. blocks' = Blocks(cursection)
    BY <1>1, <1>12, <2>1 DEF Parsed, Allocated
  <2>3. TypeOK'
    BY <1>1, <1>12, <2>1, <2>2 DEF Parsed, parser, TypeOK
  <2>4. Allocated'
    BY <1>1, <1>12, <2>2 DEF Parsed, parser, Allocated
  <2> QED BY <1>3, <2>3, <2>4 DEF IInv
<1>13. CASE OpenFails \/ ReadOverruns \/ OpenEmpty
  <2>1. TypeOK'
    BY <1>1, <1>13 DEF OpenFails, ReadOverruns, OpenEmpty, parser, TypeOK
  <2>2. Allocated'
    BY <1>1, <1>13, NoBlocks DEF OpenFails, ReadOverruns, OpenEmpty, parser, Allocated
  <2> QED BY <1>3, <2>1, <2>2 DEF IInv
<1>14. CASE ReadFile
  <2>1. TypeOK'
    BY <1>1, <1>14 DEF ReadFile, parser, TypeOK
  <2>2. Allocated'
    BY <1>1, <1>14, NoBlocks DEF ReadFile, parser, Allocated
  <2> QED BY <1>3, <2>1, <2>2 DEF IInv
<1>15. CASE inicfg_close
  <2>1. Blocks(inicfg_config) \in Nat
    BY <1>1, BlocksType DEF TypeOK
  <2>2. blocks' = 0
    BY <1>1, <1>15, <2>1 DEF inicfg_close, Allocated
  <2>3. TypeOK'
    BY <1>1, <1>15, <2>2 DEF inicfg_close, parser, TypeOK
  <2>4. Allocated'
    BY <1>1, <1>15, <2>2 DEF inicfg_close, parser, Allocated
  <2> QED BY <1>3, <2>3, <2>4 DEF IInv
<1>16. CASE UNCHANGED vars
  <2>1. TypeOK'
    BY <1>1, <1>16 DEF vars, parser, TypeOK
  <2>2. Allocated'
    BY <1>1, <1>16 DEF vars, parser, Allocated
  <2> QED BY <1>3, <2>1, <2>2 DEF IInv
<1> QED
  BY <1>6, <1>7, <1>8, <1>9, <1>10, <1>11, <1>12, <1>13, <1>14, <1>15, <1>16
  DEF Next, parse_config

\* The bookkeeping of the parser, of its lists and of its memory is inductive.
THEOREM IInvHolds == Spec => []IInv
BY InitIInv, NextIInv, PTL DEF Spec

\* Every variable keeps its type: no key holds an equal sign, and every name, key and
\* value is made of characters of the file.
THEOREM TypeCorrect == Spec => []TypeOK
<1>1. IInv => TypeOK
  BY DEF IInv
<1> QED BY IInvHolds, <1>1, PTL

\* Whatever the file and whatever call fails, what was allocated for the configuration
\* has been freed when the program ends, and nothing twice.
THEOREM Freed == Spec => []EverythingFreed
<1>1. IInv => EverythingFreed
  BY DEF IInv, Allocated, EverythingFreed
<1> QED BY IInvHolds, <1>1, PTL

-----------------------------------------------------------------------------
(* IniConfig: lookups                                                      *)

WithKey(x, key) == {j \in DOMAIN x.settings : x.settings[j].key = key}
Having(q, name, key) ==
  {i \in DOMAIN q : q[i].section_name = name /\ WithKey(q[i], key) # {}}

\* What find_setting finds when no section is empty.
Finds(q, name, key) ==
  IF Having(q, name, key) = {} THEN NULL
  ELSE LET x == q[Min(Having(q, name, key))]
       IN x.settings[Min(WithKey(x, key))].value

\* The least element of a set that is moved up by one.
LEMMA MinShift ==
  ASSUME NEW T \in SUBSET Nat, NEW U \in SUBSET Nat, U # {},
         \A n \in Nat : n \in U <=> n # 0 /\ n - 1 \in T
  PROVE  T # {} /\ Min(U) = Min(T) + 1
<1>1. Min(U) \in U /\ \A n \in U : Min(U) <= n
  BY MinIsLeast
<1>2. Min(U) \in Nat /\ Min(U) # 0 /\ Min(U) - 1 \in T
  BY <1>1
<1>3. Min(T) \in T /\ \A n \in T : Min(T) <= n
  BY <1>2, MinIsLeast
<1>4. Min(T) + 1 \in U
  <2> DEFINE k == Min(T)
  <2>1. k \in T /\ k \in Nat
    BY <1>3
  <2> HIDE DEF k
  <2>2. k + 1 \in Nat /\ k + 1 # 0 /\ (k + 1) - 1 = k
    BY <2>1
  <2>3. k + 1 \in U
    BY <2>1, <2>2
  <2> QED BY <2>3 DEF k
<1>5. Min(T) \in Nat /\ Min(U) <= Min(T) + 1 /\ Min(T) <= Min(U) - 1
  BY <1>1, <1>2, <1>3, <1>4
<1> QED BY <1>2, <1>5

\* No position comes before the first.
LEMMA MinIsOne ==
  ASSUME NEW T \in SUBSET (Nat \ {0}), 1 \in T
  PROVE  Min(T) = 1
<1>1. T \in SUBSET Nat /\ T # {}
  OBVIOUS
<1>2. Min(T) \in T /\ \A n \in T : Min(T) <= n
  BY <1>1, MinIsLeast
<1>3. Min(T) <= 1 /\ Min(T) \in Nat \ {0}
  BY <1>2
<1> QED BY <1>3

\* What the sections of a list and the results of searching them are.
LEMMA ListType ==
  ASSUME NEW q \in Seq(SectionRecord), NEW name, NEW key
  PROVE  /\ Len(q) \in Nat /\ DOMAIN q = 1 .. Len(q)
         /\ Having(q, name, key) \in SUBSET (Nat \ {0})
         /\ \A i \in 1 .. Len(q) :
              /\ q[i] \in SectionRecord
              /\ q[i].settings \in Seq(SettingRecord)
              /\ DOMAIN q[i].settings = 1 .. Len(q[i].settings) /\ Len(q[i].settings) \in Nat
              /\ WithKey(q[i], key) \in SUBSET (Nat \ {0})
<1>1. Len(q) \in Nat /\ DOMAIN q = 1 .. Len(q)
  BY LenProperties
<1>2. Having(q, name, key) \in SUBSET (Nat \ {0})
  BY <1>1 DEF Having
<1>3. ASSUME NEW i \in 1 .. Len(q)
      PROVE  /\ q[i] \in SectionRecord
             /\ q[i].settings \in Seq(SettingRecord)
             /\ DOMAIN q[i].settings = 1 .. Len(q[i].settings) /\ Len(q[i].settings) \in Nat
             /\ WithKey(q[i], key) \in SUBSET (Nat \ {0})
  <2>1. q[i] \in SectionRecord
    BY ElementOfSeq
  <2>2. q[i].settings \in Seq(SettingRecord)
    BY <2>1 DEF SectionRecord
  <2>3. DOMAIN q[i].settings = 1 .. Len(q[i].settings) /\ Len(q[i].settings) \in Nat
    BY <2>2, LenProperties
  <2>4. WithKey(q[i], key) \in SUBSET (Nat \ {0})
    BY <2>3 DEF WithKey
  <2> QED BY <2>1, <2>2, <2>3, <2>4
<1> QED BY <1>1, <1>2, <1>3

\* A section without settings hides nothing.
LEMMA SectionHidesNothing ==
  ASSUME NEW q \in Seq(SectionRecord), NEW r \in Seq(SectionRecord), Len(r) = Len(q) + 1,
         r[1].settings = <<>>, \A i \in 1 .. Len(q) : r[i + 1] = q[i],
         NEW name, NEW key
  PROVE  Finds(r, name, key) = Finds(q, name, key)
<1> DEFINE T == Having(q, name, key)
           U == Having(r, name, key)
<1>1. /\ DOMAIN q = 1 .. Len(q) /\ DOMAIN r = 1 .. Len(r) /\ Len(q) \in Nat
      /\ T \in SUBSET Nat /\ U \in SUBSET Nat
  BY ListType
<1>2. 1 \notin U
  <2>1. WithKey(r[1], key) = {}
    BY DEF WithKey
  <2> QED BY <2>1 DEF Having
<1>3. ASSUME NEW n \in Nat PROVE n \in U <=> n # 0 /\ n - 1 \in T
  <2>1. CASE n = 0 \/ n = 1
    BY <1>1, <1>2, <2>1 DEF Having
  <2>2. CASE n # 0 /\ n # 1
    <3>1. n - 1 \in Nat /\ (n - 1) + 1 = n /\ (n \in 1 .. Len(r) <=> n - 1 \in 1 .. Len(q))
      BY <1>1, <2>2
    <3>2. n - 1 \in 1 .. Len(q) => r[n] = q[n - 1]
      BY <3>1
    <3> QED BY <1>1, <2>2, <3>1, <3>2 DEF Having
  <2> QED BY <2>1, <2>2
<1>4. CASE U = {}
  <2>1. T = {}
    <3> SUFFICES ASSUME NEW i \in T PROVE FALSE
      OBVIOUS
    <3>1. i \in Nat /\ i + 1 \in Nat /\ i + 1 # 0 /\ (i + 1) - 1 = i
      BY <1>1
    <3> QED BY <1>3, <1>4, <3>1
  <2> QED BY <1>4, <2>1 DEF Finds
<1>5. CASE U # {}
  <2> HIDE DEF T, U
  <2>1. T # {} /\ Min(U) = Min(T) + 1
    BY <1>1, <1>3, <1>5, MinShift
  <2>2. Min(T) \in T
    BY <1>1, <2>1, MinIsLeast
  <2>3. r[Min(U)] = q[Min(T)]
    BY <1>1, <2>1, <2>2 DEF T, Having
  <2> QED BY <1>5, <2>1, <2>3 DEF Finds, T, U
<1> QED BY <1>4, <1>5

\* A setting that is put in front is found, and hides only the same key in the same section.
LEMMA SettingIsFound ==
  ASSUME NEW q \in Seq(SectionRecord), NEW r \in Seq(SectionRecord),
         Len(q) # 0, Len(r) = Len(q), \A i \in 2 .. Len(q) : r[i] = q[i],
         r[1].section_name = q[1].section_name,
         Len(r[1].settings) = Len(q[1].settings) + 1,
         \A j \in 1 .. Len(q[1].settings) : r[1].settings[j + 1] = q[1].settings[j],
         NEW name, NEW key
  PROVE  Finds(r, name, key) = IF name = q[1].section_name /\ key = r[1].settings[1].key
                               THEN r[1].settings[1].value ELSE Finds(q, name, key)
<1> DEFINE T == Having(q, name, key)
           U == Having(r, name, key)
           new == r[1].settings
           old == q[1].settings
<1>1. /\ DOMAIN q = 1 .. Len(q) /\ DOMAIN r = 1 .. Len(r) /\ Len(q) \in Nat /\ 1 \in 1 .. Len(q)
      /\ T \in SUBSET (Nat \ {0}) /\ U \in SUBSET (Nat \ {0})
  BY ListType
<1>2. /\ DOMAIN old = 1 .. Len(old) /\ Len(old) \in Nat /\ DOMAIN new = 1 .. Len(new)
      /\ WithKey(q[1], key) \in SUBSET (Nat \ {0}) /\ WithKey(r[1], key) \in SUBSET (Nat \ {0})
  BY <1>1, ListType
<1>3. 1 \in DOMAIN new
  BY <1>2
<1>4. ASSUME NEW i \in Nat, i # 1 PROVE (i \in U <=> i \in T) /\ (i \in T => r[i] = q[i])
  <2>1. i \in 1 .. Len(q) => i \in 2 .. Len(q)
    BY <1>1, <1>4
  <2> QED BY <1>1, <2>1 DEF Having
<1>5. CASE name = q[1].section_name /\ key = new[1].key
  <2>1. 1 \in WithKey(r[1], key)
    BY <1>3, <1>5 DEF WithKey
  <2>2. 1 \in U
    BY <1>1, <1>5, <2>1 DEF Having
  <2>3. Min(U) = 1 /\ Min(WithKey(r[1], key)) = 1 /\ U # {}
    BY <1>1, <1>2, <2>1, <2>2, MinIsOne
  <2> QED BY <1>5, <2>3 DEF Finds
<1>6. CASE name # q[1].section_name
  <2>1. 1 \notin T /\ 1 \notin U
    BY <1>6 DEF Having
  <2>2. T = U
    <3>1. \A i : i \in T <=> i \in U
      BY <1>1, <1>4, <2>1
    <3> HIDE DEF T, U
    <3> QED BY <3>1
  <2>3. CASE U = {}
    BY <1>6, <2>2, <2>3 DEF Finds
  <2>4. CASE U # {}
    <3> HIDE DEF T, U
    <3>1. Min(U) \in U
      BY <1>1, <2>4, MinIsLeast
    <3>2. r[Min(U)] = q[Min(T)]
      BY <1>1, <1>4, <2>1, <2>2, <3>1
    <3> QED BY <1>6, <2>2, <2>4, <3>2 DEF Finds, T, U
  <2> QED BY <2>3, <2>4
<1>7. CASE name = q[1].section_name /\ key # new[1].key
  <2> DEFINE V == WithKey(q[1], key)
             W == WithKey(r[1], key)
  <2>1. ASSUME NEW n \in Nat PROVE n \in W <=> n # 0 /\ n - 1 \in V
    <3>1. CASE n = 0 \/ n = 1
      BY <1>2, <1>7, <3>1 DEF WithKey
    <3>2. CASE n # 0 /\ n # 1
      <4>1. n - 1 \in Nat /\ (n - 1) + 1 = n /\ (n \in 1 .. Len(new) <=> n - 1 \in 1 .. Len(old))
        BY <1>2, <3>2
      <4>2. n - 1 \in 1 .. Len(old) => new[n] = old[n - 1]
        BY <4>1
      <4> QED BY <1>2, <3>2, <4>1, <4>2 DEF WithKey
    <3> QED BY <3>1, <3>2
  <2>2. W # {} => V # {} /\ Min(W) = Min(V) + 1
    <3> HIDE DEF V, W
    <3> QED BY <1>2, <2>1, MinShift DEF V, W
  <2>3. V # {} => W # {}
    <3> SUFFICES ASSUME NEW j \in V PROVE W # {}
      OBVIOUS
    <3>1. j \in Nat /\ j + 1 \in Nat /\ j + 1 # 0 /\ (j + 1) - 1 = j
      BY <1>2
    <3> QED BY <2>1, <3>1
  <2>4. W # {} <=> V # {}
    BY <2>2, <2>3
  <2>5. 1 \in U <=> 1 \in T
    BY <1>1, <1>7, <2>4 DEF Having
  <2>6. T = U
    <3>1. \A i : i \in T <=> i \in U
      BY <1>1, <1>4, <2>5
    <3> HIDE DEF T, U
    <3> QED BY <3>1
  <2>7. CASE U = {}
    BY <1>7, <2>6, <2>7 DEF Finds
  <2>8. CASE U # {} /\ Min(U) # 1
    <3> HIDE DEF T, U
    <3>1. Min(U) \in U
      BY <1>1, <2>8, MinIsLeast
    <3>2. r[Min(U)] = q[Min(T)]
      BY <1>1, <1>4, <2>6, <2>8, <3>1
    <3> QED BY <1>7, <2>6, <2>8, <3>2 DEF Finds, T, U
  <2>9. CASE U # {} /\ Min(U) = 1
    <3>1. 1 \in U
      <4> HIDE DEF U
      <4> QED BY <1>1, <2>9, MinIsLeast
    <3>2. W # {}
      BY <3>1 DEF Having
    <3>3. V # {} /\ Min(W) = Min(V) + 1
      BY <2>2, <3>2
    <3>4. Min(V) \in V
      <4> HIDE DEF V
      <4> QED BY <1>2, <3>3, MinIsLeast DEF V
    <3>5. new[Min(W)] = old[Min(V)]
      BY <1>2, <3>3, <3>4 DEF WithKey
    <3>6. Finds(r, name, key) = new[Min(W)].value /\ Finds(q, name, key) = old[Min(V)].value
      BY <2>6, <2>9 DEF Finds
    <3> QED BY <1>7, <3>5, <3>6
  <2> QED BY <2>7, <2>8, <2>9
<1> QED BY <1>5, <1>6, <1>7

-----------------------------------------------------------------------------
(* IniConfig: what the first n lines of a file say                         *)

SettingLines(f, n, name, key) ==
  {i \in 1 .. n : /\ f[i].kind = "setting" /\ f[i].key = key
                  /\ f[HeaderOf(f, i)].name = name}
SaysTo(f, n, name, key) ==
  IF SettingLines(f, n, name, key) = {} THEN NULL
  ELSE strtrim(f[Max(SettingLines(f, n, name, key))].value)

\* The list of sections q is what the first n lines of f say, read from the end.
Settled(f, n, q) ==
  /\ n = 0 => q = <<>>
  /\ n # 0 => /\ q # <<>>
              /\ q[1].section_name = f[HeaderOf(f, n)].name
              /\ (\E i \in 1 .. n : f[i].kind = "setting" /\ HeaderOf(f, i) = HeaderOf(f, n))
                   => q[1].settings # <<>>
  /\ \A i \in 2 .. Len(q) : q[i].settings # <<>>
  /\ \A name, key : Finds(q, name, key) = SaysTo(f, n, name, key)

\* A line belongs to a header that is not behind it, and to that of the line before
\* unless it is a header itself.
LEMMA HeaderIs ==
  ASSUME NEW f, f[1].kind = "section", NEW n \in Nat \ {0}
  PROVE  /\ HeaderOf(f, n) \in 1 .. n /\ f[HeaderOf(f, n)].kind = "section"
         /\ f[n].kind = "section" => HeaderOf(f, n) = n
         /\ f[n + 1].kind # "section" => HeaderOf(f, n + 1) = HeaderOf(f, n)
<1> DEFINE T(i) == {j \in 1 .. i : f[j].kind = "section"}
<1>1. ASSUME NEW i \in Nat \ {0}
      PROVE  HeaderOf(f, i) \in T(i) /\ \A j \in T(i) : HeaderOf(f, i) >= j
  <2>1. T(i) \in SUBSET Nat /\ 1 \in T(i) /\ \A j \in T(i) : j <= i
    OBVIOUS
  <2> HIDE DEF T
  <2>2. Max(T(i)) \in T(i) /\ \A j \in T(i) : Max(T(i)) >= j
    BY <2>1, MaxIsGreatest
  <2> QED BY <2>2 DEF HeaderOf, T
<1>2. HeaderOf(f, n) \in 1 .. n /\ f[HeaderOf(f, n)].kind = "section"
  BY <1>1
<1>3. f[n].kind = "section" => HeaderOf(f, n) = n
  <2>1. f[n].kind = "section" => n \in T(n)
    OBVIOUS
  <2>2. \A j \in T(n) : HeaderOf(f, n) >= j
    BY <1>1
  <2>3. HeaderOf(f, n) \in 1 .. n
    BY <1>2
  <2> HIDE DEF T
  <2> QED BY <2>1, <2>2, <2>3
<1>4. f[n + 1].kind # "section" => HeaderOf(f, n + 1) = HeaderOf(f, n)
  <2> SUFFICES ASSUME f[n + 1].kind # "section" PROVE HeaderOf(f, n + 1) = HeaderOf(f, n)
    OBVIOUS
  <2>1. T(n + 1) = T(n)
    OBVIOUS
  <2> QED BY <2>1 DEF HeaderOf
<1> QED BY <1>2, <1>3, <1>4

\* The line n + 1 has the last word on what it says and no other.
LEMMA LastWord ==
  ASSUME NEW f, f[1].kind = "section", NEW n \in Nat, NEW name, NEW key
  PROVE  LET says == /\ f[n + 1].kind = "setting" /\ key = f[n + 1].key
                     /\ name = f[HeaderOf(f, n + 1)].name
         IN  /\ says => SaysTo(f, n + 1, name, key) = strtrim(f[n + 1].value)
             /\ ~ says => SaysTo(f, n + 1, name, key) = SaysTo(f, n, name, key)
<1> DEFINE T == SettingLines(f, n, name, key)
           U == SettingLines(f, n + 1, name, key)
           says == /\ f[n + 1].kind = "setting" /\ key = f[n + 1].key
                   /\ name = f[HeaderOf(f, n + 1)].name
<1>1. CASE says
  <2>1. n + 1 \in U /\ U \in SUBSET Nat /\ \A i \in U : i <= n + 1
    BY <1>1 DEF SettingLines
  <2> HIDE DEF U
  <2>2. Max(U) \in U /\ Max(U) >= n + 1
    BY <2>1, MaxIsGreatest
  <2>3. Max(U) \in Nat /\ Max(U) <= n + 1
    BY <2>1, <2>2
  <2>4. Max(U) = n + 1 /\ U # {}
    BY <2>1, <2>2, <2>3
  <2> QED BY <1>1, <2>4 DEF SaysTo, U
<1>2. CASE ~ says
  <2>1. \A i : i \in U <=> i \in T
    <3>1. \A i : i \in 1 .. n + 1 <=> i \in 1 .. n \/ i = n + 1
      OBVIOUS
    <3>2. n + 1 \notin U /\ n + 1 \notin T
      BY <1>2 DEF SettingLines
    <3> QED BY <3>1, <3>2 DEF SettingLines
  <2> HIDE DEF T, U
  <2>2. U = T
    BY <2>1
  <2> QED BY <1>2, <2>2 DEF SaysTo, T, U
<1> QED BY <1>1, <1>2

\* Before the first line nothing is said and nothing found.
LEMMA NothingSettled ==
  ASSUME NEW f
  PROVE  Settled(f, 0, <<>>)
<1>1. \A name, key : Having(<<>>, name, key) = {} /\ SettingLines(f, 0, name, key) = {}
  BY DEF Having, SettingLines
<1>2. \A name, key : Finds(<<>>, name, key) = NULL /\ SaysTo(f, 0, name, key) = NULL
  BY <1>1 DEF Finds, SaysTo
<1>3. Len(<<>>) = 0
  OBVIOUS
<1> QED BY <1>2, <1>3 DEF Settled

\* A well-formed file begins with a header and ends with a setting.
LEMMA FirstLine ==
  ASSUME NEW f \in Seq(Line), WellFormed(f)
  PROVE  /\ Len(f) \in Nat \ {0} /\ DOMAIN f = 1 .. Len(f) /\ f[1].kind = "section"
         /\ f[Len(f)].kind = "setting"
         /\ \A i \in 1 .. Len(f) : \/ PlainHeader(f[i]) /\ HasSettings(f, i)
                                   \/ PlainSetting(f[i])
                                   \/ f[i] = Blank
<1>1. Len(f) \in Nat /\ DOMAIN f = 1 .. Len(f)
  BY LenProperties
<1>2. f # <<>> /\ f[1].kind = "section" /\ f[Len(f)].kind = "setting"
  BY DEF WellFormed
<1>3. Len(f) # 0
  BY <1>2, EmptySeq
<1> QED BY <1>1, <1>2, <1>3 DEF WellFormed

\* After the header on line n + 1 the list has its section in front.
LEMMA HeaderSettles ==
  ASSUME NEW f \in Seq(Line), WellFormed(f), NEW n \in 0 .. Len(f) - 1, PlainHeader(f[n + 1]),
         NEW q \in Seq(SectionRecord), Settled(f, n, q)
  PROVE  Settled(f, n + 1, <<new_section(f[n + 1].name)>> \o q)
<1> DEFINE l == f[n + 1]
           s == new_section(l.name)
           r == <<s>> \o q
<1>1. /\ Len(f) \in Nat /\ f[1].kind = "section" /\ DOMAIN f = 1 .. Len(f)
      /\ n \in Nat /\ n + 1 \in 1 .. Len(f) /\ n + 1 \in Nat \ {0}
  BY FirstLine
<1>2. l.kind = "section" /\ l.name \in Seq(Char \ {"[", "]", "#", "\n"})
  BY DEF PlainHeader
<1>3. l.name \in Seq(Char)
  BY <1>2, SeqMonotonic
<1>4. r \in Seq(SectionRecord) /\ s \in SectionRecord /\ s.section_name = l.name /\ s.settings = <<>>
  <2> HIDE DEF l
  <2>1. r \in Seq(SectionRecord)
    BY <1>3, SectionAddsTwo
  <2> QED BY <1>3, <2>1 DEF new_section, SectionRecord
<1> HIDE DEF l, s
<1>5. /\ Len(q) \in Nat /\ Len(r) = Len(q) + 1 /\ r[1] = s
      /\ \A i \in 1 .. Len(q) : i + 1 \in 1 .. Len(r) /\ r[i + 1] = q[i]
  <2>1. <<s>> \in Seq(SectionRecord) /\ Len(<<s>>) = 1 /\ <<s>>[1] = s /\ Len(q) \in Nat
    BY <1>4
  <2>2. /\ Len(r) = Len(q) + 1
        /\ \A i \in 1 .. Len(q) + 1 : r[i] = IF i = 1 THEN s ELSE q[i - 1]
    BY <2>1, ConcatProperties
  <2> HIDE DEF r
  <2>3. \A i \in 1 .. Len(q) : i + 1 \in 1 .. Len(q) + 1 /\ i + 1 # 1 /\ (i + 1) - 1 = i
    BY <2>1
  <2> QED BY <2>1, <2>2, <2>3
<1> HIDE DEF r
<1>6. HeaderOf(f, n + 1) = n + 1
  BY <1>1, <1>2, HeaderIs DEF l
<1>7. \A name, key : Finds(r, name, key) = SaysTo(f, n + 1, name, key)
  <2> SUFFICES ASSUME NEW name, NEW key PROVE Finds(r, name, key) = SaysTo(f, n + 1, name, key)
    OBVIOUS
  <2>1. Finds(r, name, key) = Finds(q, name, key)
    BY <1>4, <1>5, SectionHidesNothing
  <2>2. SaysTo(f, n + 1, name, key) = SaysTo(f, n, name, key)
    <3>1. n \in Nat /\ f[1].kind = "section" /\ f[n + 1].kind # "setting"
      BY <1>1, <1>2 DEF l
    <3> QED BY <3>1, LastWord, Zenon
  <2> QED BY <2>1, <2>2 DEF Settled
<1>8. ~ \E i \in 1 .. n + 1 : f[i].kind = "setting" /\ HeaderOf(f, i) = HeaderOf(f, n + 1)
  <2> SUFFICES ASSUME NEW i \in 1 .. n + 1, f[i].kind = "setting", HeaderOf(f, i) = n + 1 PROVE FALSE
    BY <1>6
  <2>1. i \in Nat \ {0} /\ HeaderOf(f, i) \in 1 .. i
    BY <1>1, HeaderIs
  <2>2. i = n + 1
    BY <1>1, <2>1
  <2> QED BY <1>2, <2>2 DEF l
\* The section before has a setting: it has one in the file, and none of it comes later.
<1>9. ASSUME NEW i \in 2 .. Len(r) PROVE r[i].settings # <<>>
  <2>1. i - 1 \in 1 .. Len(q) /\ (i - 1) + 1 = i
    BY <1>5
  <2>2. r[i] = q[i - 1]
    BY <1>5, <2>1
  <2>3. CASE i - 1 # 1
    <3>1. i - 1 \in 2 .. Len(q)
      BY <1>5, <2>1, <2>3
    <3> QED BY <2>2, <3>1 DEF Settled
  <2>4. CASE i - 1 = 1
    <3>1. n # 0
      <4> SUFFICES ASSUME n = 0 PROVE FALSE
        OBVIOUS
      <4>1. q = <<>>
        BY DEF Settled
      <4> QED BY <2>1, <4>1
    <3> DEFINE h == HeaderOf(f, n)
    <3>2. h \in 1 .. n /\ f[h].kind = "section" /\ n \in Nat \ {0}
      BY <1>1, <3>1, HeaderIs
    <3>3. HasSettings(f, h)
      <4>1. h \in 1 .. Len(f)
        BY <1>1, <3>2
      <4> HIDE DEF h
      <4>2. ~ PlainSetting(f[h]) /\ f[h] # Blank
        BY <3>2 DEF PlainSetting, Blank
      <4> QED BY <4>1, <4>2, FirstLine
    <3>4. PICK j \in 1 .. Len(f) : f[j].kind = "setting" /\ HeaderOf(f, j) = h
      BY <1>1, <3>3 DEF HasSettings
    <3>5. j \in 1 .. n
      <4> SUFFICES ASSUME j \notin 1 .. n PROVE FALSE
        OBVIOUS
      <4>1. j \in Nat \ {0} /\ j >= n + 1
        BY <1>1
      <4> DEFINE T == {k \in 1 .. j : f[k].kind = "section"}
      <4>2. T \in SUBSET Nat /\ n + 1 \in T /\ \A k \in T : k <= j
        BY <1>1, <1>2, <4>1 DEF l
      <4> HIDE DEF T
      <4>3. Max(T) >= n + 1
        BY <4>1, <4>2, MaxIsGreatest
      <4>4. h = Max(T)
        BY <3>4 DEF HeaderOf, T
      <4> HIDE DEF h
      <4> QED BY <1>1, <3>2, <4>3, <4>4
    <3>6. q[1].settings # <<>>
      BY <3>1, <3>4, <3>5 DEF Settled
    <3> QED BY <2>2, <2>4, <3>6
  <2> QED BY <2>3, <2>4
<1>10. r # <<>>
  BY <1>5
<1>11. r[1].section_name = f[HeaderOf(f, n + 1)].name
  BY <1>4, <1>5, <1>6 DEF l
<1>12. Settled(f, n + 1, r)
  BY <1>1, <1>7, <1>8, <1>9, <1>10, <1>11 DEF Settled
<1> QED BY <1>12 DEF r, s, l

\* After the setting on line n + 1 its section has it in front.
LEMMA SettingSettles ==
  ASSUME NEW f \in Seq(Line), WellFormed(f), NEW n \in 1 .. Len(f) - 1, PlainSetting(f[n + 1]),
         NEW q \in Seq(SectionRecord), Settled(f, n, q),
         NEW x \in SettingRecord, x.key = f[n + 1].key, x.value = strtrim(f[n + 1].value)
  PROVE  Settled(f, n + 1, [q EXCEPT ![1].settings = <<x>> \o @])
<1> DEFINE old == q[1].settings
           new == <<x>> \o old
           s == [q[1] EXCEPT !.settings = new]
           r == [q EXCEPT ![1].settings = <<x>> \o @]
<1>1. /\ Len(f) \in Nat /\ f[1].kind = "section"
      /\ n \in Nat \ {0} /\ n + 1 \in 1 .. Len(f) /\ n + 1 \in Nat \ {0}
  BY FirstLine
<1>2. f[n + 1].kind = "setting"
  BY DEF PlainSetting
<1>3. q # <<>> /\ q[1].section_name = f[HeaderOf(f, n)].name
  BY <1>1 DEF Settled
<1>4. Len(q) \in Nat \ {0} /\ 1 \in 1 .. Len(q) /\ q[1] \in SectionRecord
  BY <1>3
<1>5. old \in Seq(SettingRecord) /\ Len(old) \in Nat
  BY <1>4 DEF SectionRecord
<1>6. /\ new \in Seq(SettingRecord) /\ Len(new) = Len(old) + 1 /\ new[1] = x
      /\ \A j \in 1 .. Len(old) : new[j + 1] = old[j]
  <2> HIDE DEF old
  <2>1. <<x>> \in Seq(SettingRecord) /\ Len(<<x>>) = 1 /\ <<x>>[1] = x
    OBVIOUS
  <2>2. /\ new \in Seq(SettingRecord) /\ Len(new) = Len(old) + 1
        /\ \A j \in 1 .. 1 + Len(old) : new[j] = IF j <= 1 THEN x ELSE old[j - 1]
    BY <1>5, <2>1, ConcatProperties
  <2> HIDE DEF new
  <2>3. \A j \in 1 .. Len(old) : j + 1 \in 1 .. 1 + Len(old) /\ ~ (j + 1 <= 1) /\ (j + 1) - 1 = j
    BY <1>5
  <2>4. 1 \in 1 .. 1 + Len(old)
    BY <1>5
  <2> QED BY <2>2, <2>3, <2>4
<1>7. s \in SectionRecord /\ s.settings = new /\ s.section_name = q[1].section_name
  BY <1>4, <1>6 DEF SectionRecord
<1>8. r = [q EXCEPT ![1] = s]
  BY <1>4
<1> HIDE DEF s, new, r
<1>9. /\ r \in Seq(SectionRecord) /\ Len(r) = Len(q)
      /\ r[1] = s /\ \A i \in 2 .. Len(q) : r[i] = q[i]
  <2>1. /\ r \in Seq(SectionRecord) /\ Len(r) = Len(q)
        /\ \A i \in 1 .. Len(q) : r[i] = IF i = 1 THEN s ELSE q[i]
    BY <1>4, <1>7, <1>8, ExceptSeq
  <2> QED BY <1>4, <2>1
<1>10. HeaderOf(f, n + 1) = HeaderOf(f, n)
  BY <1>1, <1>2, HeaderIs
<1>11. \A name, key : Finds(r, name, key) = SaysTo(f, n + 1, name, key)
  <2> SUFFICES ASSUME NEW name, NEW key PROVE Finds(r, name, key) = SaysTo(f, n + 1, name, key)
    OBVIOUS
  <2>1. Finds(r, name, key) = IF name = q[1].section_name /\ key = x.key
                              THEN x.value ELSE Finds(q, name, key)
    <3>1. /\ Len(q) # 0 /\ r[1].section_name = q[1].section_name
          /\ Len(r[1].settings) = Len(q[1].settings) + 1 /\ r[1].settings[1] = x
          /\ \A j \in 1 .. Len(q[1].settings) : r[1].settings[j + 1] = q[1].settings[j]
      BY <1>4, <1>6, <1>7, <1>9
    <3> QED BY <1>9, <3>1, SettingIsFound
  <2>2. SaysTo(f, n + 1, name, key) =
          IF name = f[HeaderOf(f, n)].name /\ key = f[n + 1].key
          THEN strtrim(f[n + 1].value) ELSE SaysTo(f, n, name, key)
    <3>1. n \in Nat /\ f[1].kind = "section"
      BY <1>1
    <3> DEFINE says == /\ f[n + 1].kind = "setting" /\ key = f[n + 1].key
                       /\ name = f[HeaderOf(f, n + 1)].name
    <3>2. /\ says => SaysTo(f, n + 1, name, key) = strtrim(f[n + 1].value)
          /\ ~ says => SaysTo(f, n + 1, name, key) = SaysTo(f, n, name, key)
      BY <3>1, LastWord, Zenon
    <3> QED BY <1>2, <1>10, <3>2
  <2>3. Finds(q, name, key) = SaysTo(f, n, name, key)
    BY DEF Settled
  <2> QED BY <1>3, <2>1, <2>2, <2>3
<1>12. \A i \in 2 .. Len(r) : r[i].settings # <<>>
  BY <1>9 DEF Settled
<1>13. r # <<>> /\ r[1].settings # <<>> /\ r[1].section_name = f[HeaderOf(f, n + 1)].name
  BY <1>3, <1>4, <1>5, <1>6, <1>7, <1>9, <1>10
<1>14. Settled(f, n + 1, r)
  BY <1>1, <1>11, <1>12, <1>13 DEF Settled
<1> QED BY <1>14 DEF r

\* A blank line says nothing.
LEMMA BlankSettles ==
  ASSUME NEW f \in Seq(Line), WellFormed(f), NEW n \in 1 .. Len(f) - 1, f[n + 1] = Blank,
         NEW q, Settled(f, n, q)
  PROVE  Settled(f, n + 1, q)
<1>1. /\ Len(f) \in Nat /\ f[1].kind = "section"
      /\ n \in Nat \ {0} /\ n + 1 \in 1 .. Len(f) /\ n + 1 \in Nat \ {0}
  BY FirstLine
<1>2. f[n + 1].kind = "blank"
  BY DEF Blank
<1>3. HeaderOf(f, n + 1) = HeaderOf(f, n)
  BY <1>1, <1>2, HeaderIs
<1>4. \A name, key : SaysTo(f, n + 1, name, key) = SaysTo(f, n, name, key)
  BY <1>1, <1>2, LastWord
<1>5. \A i \in 1 .. n + 1 : f[i].kind = "setting" => i \in 1 .. n
  BY <1>1, <1>2
<1> QED BY <1>1, <1>3, <1>4, <1>5 DEF Settled

\* When the file is read, find_setting finds what it says.
LEMMA SettledIsFound ==
  ASSUME file \in Seq(Line), WellFormed(file), inicfg_config \in Seq(SectionRecord),
         Settled(file, Len(file), inicfg_config), NEW name, NEW key
  PROVE  find_setting(name, key) = Says(file, name, key)
<1> DEFINE q == inicfg_config
           n == Len(file)
           ends == {i \in DOMAIN q : /\ q[i].section_name = name
                                     /\ q[i].settings = <<>> \/ WithKey(q[i], key) # {}}
<1>1. n \in Nat \ {0} /\ DOMAIN file = 1 .. n /\ file[n].kind = "setting"
  BY FirstLine
<1>2. q # <<>> /\ q[1].settings # <<>> /\ \A i \in 2 .. Len(q) : q[i].settings # <<>>
  <2>1. n \in 1 .. n /\ n # 0
    BY <1>1
  <2> QED BY <1>1, <2>1 DEF Settled
<1>3. \A i \in DOMAIN q : q[i].settings # <<>>
  <2>1. DOMAIN q = 1 .. Len(q) /\ Len(q) \in Nat
    BY LenProperties
  <2>2. \A i \in 1 .. Len(q) : i = 1 \/ i \in 2 .. Len(q)
    BY <2>1
  <2> QED BY <1>2, <2>1, <2>2
<1>4. ends = Having(q, name, key)
  BY <1>3 DEF Having
<1>5. find_setting(name, key) =
        IF ends = {} THEN NULL
        ELSE IF q[Min(ends)].settings = <<>> THEN NULL
             ELSE q[Min(ends)].settings[Min(WithKey(q[Min(ends)], key))].value
  BY DEF find_setting, WithKey
<1>6. ends # {} => q[Min(ends)].settings # <<>>
  <2>1. ends \in SUBSET (Nat \ {0})
    BY <1>4, ListType
  <2> HIDE DEF ends
  <2>2. ends # {} => Min(ends) \in ends
    BY <2>1, MinIsLeast
  <2> QED BY <1>3, <2>2 DEF ends
<1>7. find_setting(name, key) = Finds(q, name, key)
  <2> HIDE DEF ends
  <2> QED BY <1>4, <1>5, <1>6 DEF Finds
<1>8. Finds(q, name, key) = SaysTo(file, n, name, key)
  BY DEF Settled
<1>9. SaysTo(file, n, name, key) = Says(file, name, key)
  <2>1. SettingLines(file, n, name, key) =
          {i \in DOMAIN file : /\ file[i].kind = "setting" /\ file[i].key = key
                               /\ file[HeaderOf(file, i)].name = name}
    BY <1>1 DEF SettingLines
  <2> QED BY <2>1 DEF SaysTo, Says
<1> QED BY <1>7, <1>8, <1>9

-----------------------------------------------------------------------------
(* IniConfig: the text of a line                                           *)

\* A blank at the end is trimmed.
LEMMA TrimBlank ==
  ASSUME NEW s \in Seq(Char), NEW c \in Char \cap Space
  PROVE  strtrim(Append(s, c)) = strtrim(s)
<1> DEFINE t == Append(s, c)
           T == {i \in DOMAIN s : s[i] \notin Space}
           U == {i \in DOMAIN t : t[i] \notin Space}
<1>1. /\ Len(s) \in Nat /\ DOMAIN s = 1 .. Len(s) /\ t \in Seq(Char) /\ Len(t) = Len(s) + 1
      /\ DOMAIN t = 1 .. Len(t)
      /\ \A i \in 1 .. Len(s) : t[i] = s[i] /\ s[i] \in Char
      /\ t[Len(s) + 1] = c
  BY LenProperties, AppendProperties, ElementOfSeq
<1> HIDE DEF t
<1>2. T = U
  <2>1. \A i : i \in 1 .. Len(t) <=> i \in 1 .. Len(s) \/ i = Len(s) + 1
    BY <1>1
  <2>2. Len(s) + 1 \notin U /\ Len(s) + 1 \notin T
    BY <1>1
  <2>3. \A i : i \in T <=> i \in U
    BY <1>1, <2>1, <2>2
  <2> HIDE DEF T, U
  <2> QED BY <2>3
<1>3. strtrim(s) = IF T = {} THEN <<>> ELSE SubSeq(s, Min(T), Max(T))
  BY DEF strtrim
<1>4. strtrim(t) = IF U = {} THEN <<>> ELSE SubSeq(t, Min(U), Max(U))
  BY DEF strtrim
<1>5. T \in SUBSET (1 .. Len(s)) /\ T \in SUBSET Nat /\ \A i \in T : i <= Len(s)
  BY <1>1
<1> HIDE DEF T, U
<1>6. CASE T = {}
  BY <1>2, <1>3, <1>4, <1>6 DEF t
<1>7. CASE T # {}
  <2> DEFINE a == Min(T)
             b == Max(T)
  <2>1. a \in 1 .. Len(s) /\ b \in 1 .. Len(s)
    BY <1>1, <1>5, <1>7, MinIsLeast, MaxIsGreatest
  <2> HIDE DEF a, b
  <2>2. a \in Int /\ b \in Int /\ \A i \in a .. b : i \in 1 .. Len(s)
    BY <1>1, <2>1
  <2>3. \A i \in a .. b : s[i] \in Char /\ t[i] \in Char /\ s[i] = t[i]
    BY <1>1, <2>2
  <2>4. /\ SubSeq(s, a, b) \in Seq(Char) /\ Len(SubSeq(s, a, b)) = IF a <= b THEN b - a + 1 ELSE 0
        /\ \A i \in 1 .. b - a + 1 : SubSeq(s, a, b)[i] = s[a + i - 1]
    BY <2>2, <2>3, SubSeqProperties
  <2>5. /\ SubSeq(t, a, b) \in Seq(Char) /\ Len(SubSeq(t, a, b)) = IF a <= b THEN b - a + 1 ELSE 0
        /\ \A i \in 1 .. b - a + 1 : SubSeq(t, a, b)[i] = t[a + i - 1]
    BY <2>2, <2>3, SubSeqProperties
  <2>6. \A i \in 1 .. b - a + 1 : a + i - 1 \in a .. b
    BY <2>2
  <2>7. \A i \in 1 .. Len(SubSeq(s, a, b)) : i \in 1 .. b - a + 1
    BY <2>2, <2>4
  <2>8. SubSeq(s, a, b) = SubSeq(t, a, b)
    BY <2>3, <2>4, <2>5, <2>6, <2>7, SeqEqual
  <2> QED BY <1>2, <1>3, <1>4, <1>7, <2>8 DEF a, b, t
<1> QED BY <1>6, <1>7

\* The part of a setting before its remark.
Width(l) == Len(l.key) + 2 + Len(l.value)

\* A setting is its key, a blank, an equal sign, its value and its remark.
LEMMA SettingText ==
  ASSUME NEW l, PlainSetting(l)
  PROVE  /\ Len(l.key) \in Nat /\ Len(l.value) \in Nat /\ Len(l.remark) \in Nat
         /\ l.key \in Seq(Char) /\ l.value \in Seq(Char) /\ l.remark \in Seq(Char)
         /\ l.text \in Seq(Char) /\ Len(l.text) = Width(l) + Len(l.remark)
         /\ \A i \in 1 .. Len(l.key) : l.text[i] = l.key[i]
         /\ l.text[Len(l.key) + 1] = " " /\ l.text[Len(l.key) + 2] = "="
         /\ \A i \in 1 .. Len(l.value) : l.text[Len(l.key) + 2 + i] = l.value[i]
         /\ \A i \in 1 .. Len(l.remark) : l.text[Width(l) + i] = l.remark[i]
<1> DEFINE k == l.key
           v == l.value
           w == l.remark
           e == <<" ", "=">>
<1>1. /\ k \in Seq(Char) /\ v \in Seq(Char) /\ w \in Seq(Char)
      /\ Len(k) \in Nat /\ Len(v) \in Nat /\ Len(w) \in Nat
  <2>1. /\ k \in Seq(Char \ {"[", "#", "=", "\n"}) /\ v \in Seq(Char \ {"[", "#", "\n"})
        /\ w \in Seq(Char \ {"[", "\n"})
    BY DEF PlainSetting
  <2> HIDE DEF k, v, w
  <2>2. k \in Seq(Char) /\ v \in Seq(Char) /\ w \in Seq(Char)
    BY <2>1, SeqMonotonic
  <2> QED BY <2>2, LenProperties
<1>2. l.text = ((k \o e) \o v) \o w
  <2>1. l = Setting(k, v, w)
    BY DEF PlainSetting
  <2> HIDE DEF k, v, w
  <2>2. Setting(k, v, w).text = ((k \o e) \o v) \o w
    BY DEF Setting
  <2> QED BY <2>1, <2>2
<1>3. e \in Seq(Char) /\ Len(e) = 2 /\ e[1] = " " /\ e[2] = "="
  <2>1. " " \in Char /\ "=" \in Char
    BY CharAssumption
  <2>2. Len(e) = 2 /\ e[1] = " " /\ e[2] = "="
    OBVIOUS
  <2>3. e \in Seq({" ", "="})
    OBVIOUS
  <2> HIDE DEF e
  <2>4. {" ", "="} \subseteq Char
    BY <2>1
  <2>5. e \in Seq(Char)
    BY <2>3, <2>4, SeqMonotonic
  <2> QED BY <2>2, <2>5
<1> DEFINE x == k \o e
           y == x \o v
           z == y \o w
<1> HIDE DEF k, v, w, e
<1>4. /\ x \in Seq(Char) /\ Len(x) = Len(k) + 2 /\ Len(k) \in Nat
      /\ \A i \in 1 .. Len(k) + 2 : x[i] = IF i <= Len(k) THEN k[i] ELSE e[i - Len(k)]
  <2>1. /\ x \in Seq(Char) /\ Len(x) = Len(k) + Len(e)
        /\ \A i \in 1 .. Len(k) + Len(e) : x[i] = IF i <= Len(k) THEN k[i] ELSE e[i - Len(k)]
    BY <1>1, <1>3, ConcatProperties
  <2> HIDE DEF x
  <2> QED BY <1>1, <1>3, <2>1
<1> HIDE DEF x
<1>5. /\ y \in Seq(Char) /\ Len(y) = Len(x) + Len(v) /\ Len(v) \in Nat
      /\ \A i \in 1 .. Len(x) + Len(v) : y[i] = IF i <= Len(x) THEN x[i] ELSE v[i - Len(x)]
  <2>1. /\ y \in Seq(Char) /\ Len(y) = Len(x) + Len(v)
        /\ \A i \in 1 .. Len(x) + Len(v) : y[i] = IF i <= Len(x) THEN x[i] ELSE v[i - Len(x)]
    BY <1>1, <1>4, ConcatProperties
  <2> HIDE DEF y
  <2> QED BY <1>1, <1>3, <2>1
<1> HIDE DEF y
<1>6. /\ z \in Seq(Char) /\ Len(z) = Len(y) + Len(w) /\ Len(w) \in Nat
      /\ \A i \in 1 .. Len(y) + Len(w) : z[i] = IF i <= Len(y) THEN y[i] ELSE w[i - Len(y)]
  <2>1. /\ z \in Seq(Char) /\ Len(z) = Len(y) + Len(w)
        /\ \A i \in 1 .. Len(y) + Len(w) : z[i] = IF i <= Len(y) THEN y[i] ELSE w[i - Len(y)]
    <3>1. y \in Seq(Char) /\ w \in Seq(Char)
      BY <1>1, <1>5
    <3> QED BY <3>1, ConcatProperties
  <2> HIDE DEF z
  <2> QED BY <1>1, <1>3, <2>1
<1> HIDE DEF z
<1> DEFINE a == Len(k)
           b == Len(v)
           c == Len(w)
<1>7. a \in Nat /\ b \in Nat /\ c \in Nat /\ Len(x) = a + 2 /\ Len(y) = a + 2 + b /\ Len(z) = a + 2 + b + c
  BY <1>4, <1>5, <1>6
<1> HIDE DEF a, b, c
<1>8. \A i \in 1 .. a : z[i] = k[i]
  <2> SUFFICES ASSUME NEW i \in 1 .. a PROVE z[i] = k[i]
    OBVIOUS
  <2>1. z[i] = y[i] /\ y[i] = x[i] /\ x[i] = k[i]
    BY <1>4, <1>5, <1>6, <1>7 DEF a, b, c
  <2> QED BY <2>1
<1>9. z[a + 1] = " " /\ z[a + 2] = "="
  <2>1. z[a + 1] = y[a + 1] /\ y[a + 1] = x[a + 1] /\ x[a + 1] = e[(a + 1) - a]
    BY <1>4, <1>5, <1>6, <1>7 DEF a, b, c
  <2>2. z[a + 2] = y[a + 2] /\ y[a + 2] = x[a + 2] /\ x[a + 2] = e[(a + 2) - a]
    BY <1>4, <1>5, <1>6, <1>7 DEF a, b, c
  <2>3. (a + 1) - a = 1 /\ (a + 2) - a = 2
    BY <1>7
  <2> QED BY <1>3, <2>1, <2>2, <2>3
<1>10. \A i \in 1 .. b : z[a + 2 + i] = v[i]
  <2> SUFFICES ASSUME NEW i \in 1 .. b PROVE z[a + 2 + i] = v[i]
    OBVIOUS
  <2>1. a + 2 + i \in 1 .. a + 2 + b /\ ~ (a + 2 + i <= a + 2) /\ (a + 2 + i) - (a + 2) = i
    BY <1>7
  <2>2. z[a + 2 + i] = y[a + 2 + i]
    BY <1>6, <1>7, <2>1 DEF c
  <2>3. y[a + 2 + i] = v[(a + 2 + i) - (a + 2)]
    BY <1>5, <1>7, <2>1 DEF b
  <2> QED BY <2>1, <2>2, <2>3
<1>11. \A i \in 1 .. c : z[a + 2 + b + i] = w[i]
  <2> SUFFICES ASSUME NEW i \in 1 .. c PROVE z[a + 2 + b + i] = w[i]
    OBVIOUS
  <2> DEFINE d == a + 2 + b
  <2>1. d \in Nat /\ Len(y) = d
    BY <1>7
  <2> HIDE DEF d
  <2>2. d + i \in 1 .. d + c /\ ~ (d + i <= d) /\ (d + i) - d = i
    BY <1>7, <2>1
  <2>3. z[d + i] = w[(d + i) - d]
    BY <1>6, <2>1, <2>2 DEF c
  <2> QED BY <2>2, <2>3 DEF d
<1>12. l.text = z
  BY <1>2 DEF z, y, x
<1> QED BY <1>1, <1>6, <1>7, <1>8, <1>9, <1>10, <1>11, <1>12 DEF Width, a, b, c, k, v, w

\* Before its remark a setting has a blank and an equal sign at least.
LEMMA SettingWidth ==
  ASSUME NEW l, PlainSetting(l)
  PROVE  /\ Width(l) \in Nat /\ Width(l) >= 2 /\ Len(l.remark) \in Nat
         /\ Len(l.text) \in Nat /\ Len(l.text) = Width(l) + Len(l.remark)
<1>1. /\ Len(l.key) \in Nat /\ Len(l.value) \in Nat /\ Len(l.remark) \in Nat
      /\ Len(l.text) = Width(l) + Len(l.remark)
  BY SettingText
<1> DEFINE a == Len(l.key)
           b == Len(l.value)
           c == Len(l.remark)
<1>2. a \in Nat /\ b \in Nat /\ c \in Nat
  BY <1>1
<1>3. Width(l) = a + 2 + b /\ Len(l.text) = Width(l) + c
  BY <1>1 DEF Width
<1> HIDE DEF a, b, c
<1>4. Width(l) \in Nat /\ Width(l) >= 2 /\ Len(l.text) \in Nat
  BY <1>2, <1>3
<1> QED BY <1>1, <1>4

\* A header is its name in brackets.
LEMMA HeaderText ==
  ASSUME NEW l, PlainHeader(l)
  PROVE  /\ l.name \in Seq(Char) /\ Len(l.name) \in Nat \ {0}
         /\ Len(l.text) = Len(l.name) + 2
         /\ l.text[1] = "[" /\ l.text[Len(l.name) + 2] = "]"
         /\ \A i \in 1 .. Len(l.name) : /\ l.text[i + 1] = l.name[i]
                                        /\ l.name[i] \notin {"[", "]", "#", "\n"}
<1> DEFINE k == l.name
           e == <<"[">>
           d == <<"]">>
           x == e \o k
           z == x \o d
<1>1. k \in Seq(Char \ {"[", "]", "#", "\n"}) /\ k # <<>> /\ l.text = z
  BY DEF PlainHeader, Header
<1> HIDE DEF k
<1>2. k \in Seq(Char) /\ Len(k) \in Nat \ {0}
  BY <1>1, SeqMonotonic, EmptySeq
<1>3. e \in Seq(Char) /\ d \in Seq(Char) /\ Len(e) = 1 /\ Len(d) = 1 /\ e[1] = "[" /\ d[1] = "]"
  <2>1. "[" \in Char /\ "]" \in Char
    BY CharAssumption
  <2> QED BY <2>1
<1> HIDE DEF e, d
<1>4. /\ x \in Seq(Char) /\ Len(x) = 1 + Len(k)
      /\ \A i \in 1 .. 1 + Len(k) : x[i] = IF i <= 1 THEN e[i] ELSE k[i - 1]
  <2>1. /\ x \in Seq(Char) /\ Len(x) = Len(e) + Len(k)
        /\ \A i \in 1 .. Len(e) + Len(k) : x[i] = IF i <= Len(e) THEN e[i] ELSE k[i - Len(e)]
    BY <1>2, <1>3, ConcatProperties
  <2> HIDE DEF x
  <2> QED BY <1>3, <2>1
<1> HIDE DEF x
<1>5. /\ Len(z) = Len(x) + 1
      /\ \A i \in 1 .. Len(x) + 1 : z[i] = IF i <= Len(x) THEN x[i] ELSE d[i - Len(x)]
  <2>1. /\ Len(z) = Len(x) + Len(d)
        /\ \A i \in 1 .. Len(x) + Len(d) : z[i] = IF i <= Len(x) THEN x[i] ELSE d[i - Len(x)]
    BY <1>3, <1>4, ConcatProperties
  <2> HIDE DEF z
  <2> QED BY <1>3, <2>1
<1> HIDE DEF z
<1> DEFINE a == Len(k)
<1>6. a \in Nat \ {0} /\ Len(x) = a + 1 /\ Len(z) = a + 2
  BY <1>2, <1>4, <1>5
<1> HIDE DEF a
<1>7. z[1] = "["
  <2>1. z[1] = x[1] /\ x[1] = e[1]
    BY <1>4, <1>5, <1>6 DEF a
  <2> QED BY <1>3, <2>1
<1>8. z[a + 2] = "]"
  <2>1. a + 2 \in 1 .. (a + 1) + 1 /\ ~ (a + 2 <= a + 1) /\ (a + 2) - (a + 1) = 1
    BY <1>6
  <2>2. z[a + 2] = d[(a + 2) - (a + 1)]
    BY <1>5, <1>6, <2>1
  <2> QED BY <1>3, <2>1, <2>2
<1>9. ASSUME NEW i \in 1 .. a PROVE z[i + 1] = k[i] /\ k[i] \notin {"[", "]", "#", "\n"}
  <2>1. i + 1 \in 1 .. (a + 1) + 1 /\ i + 1 <= a + 1 /\ i + 1 \in 1 .. 1 + a /\ ~ (i + 1 <= 1)
        /\ (i + 1) - 1 = i
    BY <1>6
  <2>2. z[i + 1] = x[i + 1] /\ x[i + 1] = k[(i + 1) - 1]
    BY <1>4, <1>5, <1>6, <2>1 DEF a
  <2>3. k[i] \in Char \ {"[", "]", "#", "\n"}
    BY <1>1, ElementOfSeq DEF a
  <2> QED BY <2>1, <2>2, <2>3
<1> QED BY <1>1, <1>2, <1>6, <1>7, <1>8, <1>9 DEF a, k

\* new_setting makes of a setting, with or without its newline, what is looked up.
LEMMA SettingRead ==
  ASSUME NEW l, PlainSetting(l), NEW u \in Seq(Char),
         Len(u) = Width(l) \/ (Len(u) = Width(l) + 1 /\ u[Width(l) + 1] = "\n"),
         \A i \in 1 .. Width(l) : u[i] = l.text[i]
  PROVE  /\ EqualSign(u) # 0 /\ new_setting(u) \in SettingRecord
         /\ new_setting(u).key = l.key /\ new_setting(u).value = strtrim(l.value)
<1> DEFINE k == l.key
           v == l.value
           a == Len(k)
           b == Len(v)
           blank == " "
           newline == "\n"
<1> HIDE DEF blank, newline
<1>1. /\ a \in Nat /\ b \in Nat /\ k \in Seq(Char) /\ v \in Seq(Char) /\ Width(l) = a + 2 + b
      /\ Len(u) \in Nat /\ \A i \in 1 .. Len(u) : u[i] \in Char
  BY SettingText, LenProperties, ElementOfSeq DEF Width
<1>2. /\ \A i \in 1 .. a : u[i] = k[i] /\ k[i] # "="
      /\ u[a + 1] = blank /\ u[a + 2] = "="
      /\ \A i \in 1 .. b : u[a + 2 + i] = v[i]
  <2>1. /\ \A i \in 1 .. a : l.text[i] = k[i]
        /\ l.text[a + 1] = blank /\ l.text[a + 2] = "="
        /\ \A i \in 1 .. b : l.text[a + 2 + i] = v[i]
    BY SettingText DEF blank
  <2>2. k \in Seq(Char \ {"[", "#", "=", "\n"})
    BY DEF PlainSetting
  <2>3. \A i \in 1 .. a : k[i] # "="
    <3> HIDE DEF k
    <3>1. \A i \in 1 .. a : k[i] \in Char \ {"[", "#", "=", "\n"}
      BY <2>2, ElementOfSeq
    <3> QED BY <3>1
  <2>4. /\ a + 1 \in 1 .. Width(l) /\ a + 2 \in 1 .. Width(l)
        /\ \A i \in 1 .. a : i \in 1 .. Width(l)
        /\ \A i \in 1 .. b : a + 2 + i \in 1 .. Width(l)
    <3> HIDE DEF a, b
    <3> QED BY <1>1
  <2> HIDE DEF a, b, k, v
  <2> QED BY <2>1, <2>3, <2>4
<1>3. k = strtrim(k)
  BY DEF PlainSetting
<1> DEFINE signs == {i \in 1 .. Len(u) : u[i] = "="}
<1> HIDE DEF k, v
<1>4. a + 2 \in signs /\ \A i \in signs : a + 2 <= i
  <2>1. a + 2 \in 1 .. Len(u)
    <3> HIDE DEF a, b
    <3> QED BY <1>1
  <2>2. ASSUME NEW i \in signs PROVE a + 2 <= i
    <3> SUFFICES ASSUME i < a + 2 PROVE FALSE
      <4> HIDE DEF a
      <4> QED BY <1>1
    <3>1. i \in 1 .. a \/ i = a + 1
      <4> HIDE DEF a
      <4> QED BY <1>1
    <3>2. blank # "="
      BY DEF blank
    <3> QED BY <1>2, <3>1, <3>2
  <2> QED BY <1>2, <2>1, <2>2
<1>5. EqualSign(u) = a + 2
  <2>1. signs \in SUBSET Nat /\ signs # {}
    BY <1>1, <1>4
  <2>2. EqualSign(u) = Min(signs)
    BY <2>1 DEF EqualSign, SelectInSeq
  <2> HIDE DEF signs, a
  <2>3. Min(signs) \in signs /\ Min(signs) <= a + 2
    BY <1>4, <2>1, MinIsLeast
  <2>4. a + 2 <= Min(signs) /\ Min(signs) \in Nat
    BY <1>4, <2>1, <2>3
  <2> QED BY <1>1, <2>2, <2>3, <2>4
<1> HIDE DEF signs, a, b
<1>6. /\ blank \in Char \cap Space /\ newline \in Char \cap Space
      /\ Len(u) = Width(l) \/ (Len(u) = Width(l) + 1 /\ u[Width(l) + 1] = newline)
      /\ blank # "="
  BY CharAssumption DEF Space, blank, newline
<1>7. SubSeq(u, 1, a + 1) = Append(k, blank)
  <2> DEFINE s == SubSeq(u, 1, a + 1)
             t == Append(k, blank)
  <2>1. \A i \in 1 .. a + 1 : i \in 1 .. Len(u)
    BY <1>1
  <2>2. s \in Seq(Char) /\ Len(s) = a + 1 /\ \A i \in 1 .. a + 1 : s[i] = u[i]
    <3>1. \A i \in 1 .. a + 1 : u[i] \in Char
      BY <1>1, <2>1
    <3>2. a + 1 \in Int /\ 1 \in Int /\ (a + 1) - 1 + 1 = a + 1 /\ 1 <= a + 1
      BY <1>1
    <3>3. /\ s \in Seq(Char) /\ Len(s) = IF 1 <= a + 1 THEN (a + 1) - 1 + 1 ELSE 0
          /\ \A i \in 1 .. (a + 1) - 1 + 1 : s[i] = u[1 + i - 1]
      BY <3>1, <3>2, SubSeqProperties
    <3>4. \A i \in 1 .. a + 1 : 1 + i - 1 = i
      OBVIOUS
    <3> HIDE DEF s
    <3> QED BY <3>2, <3>3, <3>4
  <2>3. /\ t \in Seq(Char) /\ Len(t) = a + 1
        /\ \A i \in 1 .. a : t[i] = k[i]
        /\ t[a + 1] = blank
    <3>1. blank \in Char /\ k \in Seq(Char)
      BY <1>1, <1>6
    <3>2. /\ t \in Seq(Char) /\ Len(t) = Len(k) + 1 /\ \A i \in 1 .. Len(k) : t[i] = k[i]
          /\ t[Len(k) + 1] = blank
      BY <3>1, AppendProperties
    <3> HIDE DEF t
    <3> QED BY <3>2 DEF a
  <2> HIDE DEF s, t
  <2>4. \A i \in 1 .. a + 1 : i \in 1 .. a \/ i = a + 1
    BY <1>1
  <2>5. \A i \in 1 .. Len(s) : s[i] = t[i]
    <3> SUFFICES ASSUME NEW i \in 1 .. a + 1 PROVE s[i] = t[i]
      BY <2>2
    <3>1. CASE i \in 1 .. a
      BY <1>2, <2>2, <2>3, <3>1
    <3>2. CASE i = a + 1
      <4>1. a + 1 \in 1 .. a + 1
        BY <1>1
      <4>2. s[a + 1] = u[a + 1]
        BY <2>2, <4>1
      <4>3. t[a + 1] = u[a + 1]
        BY <1>2, <2>3
      <4> QED BY <3>2, <4>2, <4>3
    <3> QED BY <2>4, <3>1, <3>2
  <2>6. s = t
    BY <2>2, <2>3, <2>5, SeqEqual
  <2> QED BY <2>6 DEF s, t
<1>8. SubSeq(u, a + 3, Len(u)) \in {v, Append(v, newline)}
  <2> DEFINE s == SubSeq(u, a + 3, Len(u))
             t == Append(v, newline)
             c == Len(u) - (a + 3) + 1
  <2>1. /\ c \in {b, b + 1} /\ c \in Nat /\ a + 3 \in Int /\ Len(u) \in Int
        /\ \A i \in a + 3 .. Len(u) : i \in 1 .. Len(u)
        /\ \A i \in 1 .. c : (a + 3) + i - 1 = a + 2 + i
        /\ (a + 3 <= Len(u) \/ c = 0)
        /\ c = b + 1 => Len(u) = Width(l) + 1 /\ a + 2 + (b + 1) = Width(l) + 1
    BY <1>1
  <2>2. s \in Seq(Char) /\ Len(s) = c /\ \A i \in 1 .. c : s[i] = u[a + 2 + i]
    <3>1. \A i \in a + 3 .. Len(u) : u[i] \in Char
      BY <1>1, <2>1
    <3>2. /\ s \in Seq(Char) /\ Len(s) = IF a + 3 <= Len(u) THEN Len(u) - (a + 3) + 1 ELSE 0
          /\ \A i \in 1 .. Len(u) - (a + 3) + 1 : s[i] = u[(a + 3) + i - 1]
      BY <2>1, <3>1, SubSeqProperties
    <3> HIDE DEF s
    <3> QED BY <2>1, <3>2
  <2>3. /\ t \in Seq(Char) /\ Len(t) = b + 1
        /\ \A i \in 1 .. b : t[i] = v[i]
        /\ t[b + 1] = newline
    <3>1. newline \in Char /\ v \in Seq(Char)
      BY <1>1, <1>6
    <3>2. /\ t \in Seq(Char) /\ Len(t) = Len(v) + 1 /\ \A i \in 1 .. Len(v) : t[i] = v[i]
          /\ t[Len(v) + 1] = newline
      BY <3>1, AppendProperties
    <3> HIDE DEF t
    <3> QED BY <3>2 DEF b
  <2> HIDE DEF s, t, c
  <2>4. CASE c = b
    <3>1. Len(s) = Len(v) /\ \A i \in 1 .. Len(s) : s[i] = v[i]
      BY <1>2, <2>2, <2>4 DEF b
    <3>2. s = v
      BY <1>1, <2>2, <3>1, SeqEqual
    <3> QED BY <3>2 DEF s
  <2>5. CASE c = b + 1
    <3>1. \A i \in 1 .. b + 1 : i \in 1 .. b \/ i = b + 1
      BY <1>1
    <3>2. u[a + 2 + (b + 1)] = newline
      <4>1. Len(u) # Width(l)
        BY <1>1, <2>1, <2>5
      <4> QED BY <1>6, <2>1, <2>5, <4>1
    <3>3. \A i \in 1 .. Len(s) : s[i] = t[i]
      <4> SUFFICES ASSUME NEW i \in 1 .. b + 1 PROVE s[i] = t[i]
        BY <2>2, <2>5
      <4>1. CASE i \in 1 .. b
        BY <1>2, <2>2, <2>3, <2>5, <4>1
      <4>2. CASE i = b + 1
        <5>1. b + 1 \in 1 .. b + 1
          BY <1>1
        <5>2. s[b + 1] = u[a + 2 + (b + 1)]
          BY <2>2, <2>5, <5>1
        <5>3. t[b + 1] = newline
          BY <2>3
        <5> QED BY <3>2, <4>2, <5>2, <5>3
      <4> QED BY <3>1, <4>1, <4>2
    <3>4. s = t
      BY <2>2, <2>3, <2>5, <3>3, SeqEqual
    <3> QED BY <3>4 DEF s, t
  <2> QED BY <2>1, <2>4, <2>5
<1>9. strtrim(Append(k, blank)) = k /\ strtrim(Append(v, newline)) = strtrim(v)
  BY <1>1, <1>3, <1>6, TrimBlank
<1>10. new_setting(u) = [key |-> k, value |-> strtrim(v)]
  <2>1. (a + 2) - 1 = a + 1 /\ (a + 2) + 1 = a + 3
    BY <1>1
  <2>2. new_setting(u) = [key |-> strtrim(SubSeq(u, 1, (a + 2) - 1)),
                          value |-> strtrim(SubSeq(u, (a + 2) + 1, Len(u)))]
    BY <1>5 DEF new_setting
  <2> QED BY <1>7, <1>8, <1>9, <2>1, <2>2
<1>11. EqualSign(u) # 0
  BY <1>1, <1>5
<1>12. new_setting(u) \in SettingRecord
  BY <1>11, SettingType DEF SettingRecord
<1> QED BY <1>10, <1>11, <1>12 DEF k, v

-----------------------------------------------------------------------------
(* IniConfig: the bytes of a well-formed file                              *)

\* place[i] is where line i begins; the last one may end without a newline.
LaidOut(place) ==
  /\ place \in [1 .. Len(file) + 1 -> Nat \ {0}]
  /\ place[1] = 1 /\ place[Len(file) + 1] = Len(buffer) + 1
  /\ \A i \in 1 .. Len(file), o \in Nat :
       o < Len(file[i].text) => buffer[place[i] + o] = file[i].text[o + 1]
  /\ \A i \in 1 .. Len(file) :
       \/ /\ place[i + 1] = place[i] + Len(file[i].text) + 1
          /\ buffer[place[i] + Len(file[i].text)] = "\n"
       \/ i = Len(file) /\ place[i + 1] = place[i] + Len(file[i].text)
  /\ \A i \in 1 .. Len(file) - 1 : place[i + 1] <= Len(buffer)

\* The lines of a well-formed file have a text, the last one two characters.
LEMMA LineText ==
  ASSUME NEW f \in Seq(Line), WellFormed(f), NEW i \in 1 .. Len(f)
  PROVE  /\ f[i].text \in Seq(Char) /\ Len(f[i].text) \in Nat
         /\ i = Len(f) => PlainSetting(f[i]) /\ Len(f[i].text) >= 2
<1>1. f[i].text \in Seq(Char)
  <2>1. f[i] \in Line
    BY ElementOfSeq
  <2> QED BY <2>1, LineAssumption
<1>2. Len(f[i].text) \in Nat
  BY <1>1, LenProperties
<1>3. ASSUME i = Len(f) PROVE PlainSetting(f[i]) /\ Len(f[i].text) >= 2
  <2>1. f[i].kind = "setting"
    BY <1>3, FirstLine
  <2>2. PlainSetting(f[i])
    <3>1. ~ PlainHeader(f[i]) /\ f[i] # Blank
      BY <2>1 DEF PlainHeader, Blank
    <3> QED BY <3>1, FirstLine
  <2>3. Len(f[i].text) >= 2
    <3> DEFINE l == f[i]
    <3>1. Width(l) \in Nat /\ Width(l) >= 2 /\ Len(l.remark) \in Nat /\ Len(l.text) = Width(l) + Len(l.remark)
      BY <2>2, SettingWidth
    <3> HIDE DEF l
    <3>2. Len(l.text) >= 2
      BY <3>1
    <3> QED BY <3>2 DEF l
  <2> QED BY <2>2, <2>3
<1> QED BY <1>1, <1>2, <1>3

\* Every well-formed file is laid out in its bytes.
LEMMA FileIsLaidOut ==
  ASSUME file \in Seq(Line), WellFormed(file), NEW newline \in BOOLEAN,
         buffer = Render(file, newline)
  PROVE  \E place : LaidOut(place)
<1> DEFINE N == Len(file)
           T(i) == IF i = N /\ ~ newline THEN file[i].text ELSE Append(file[i].text, "\n")
           ss == [i \in DOMAIN file |-> T(i)]
           L(i) == Len(file[i].text)
<1>1. N \in Nat \ {0} /\ DOMAIN file = 1 .. N
  BY FirstLine
<1>2. "\n" \in Char
  BY CharAssumption
<1>3. ASSUME NEW i \in 1 .. N
      PROVE  /\ T(i) \in Seq(Char) /\ L(i) \in Nat
             /\ \A o \in Nat : o < L(i) => T(i)[o + 1] = file[i].text[o + 1]
             /\ \/ Len(T(i)) = L(i) + 1 /\ T(i)[L(i) + 1] = "\n"
                \/ i = N /\ Len(T(i)) = L(i)
  <2>1. file[i].text \in Seq(Char) /\ L(i) \in Nat
    BY LineText
  <2>2. CASE i = N /\ ~ newline
    BY <2>1, <2>2
  <2>3. CASE ~ (i = N /\ ~ newline)
    <3> DEFINE c == "\n"
               t == file[i].text
               u == Append(t, c)
    <3>1. T(i) = u
      BY <2>3
    <3> HIDE DEF c, t
    <3>2. t \in Seq(Char) /\ c \in Char
      BY <1>2, <2>1 DEF c, t
    <3>3. /\ u \in Seq(Char) /\ Len(u) = Len(t) + 1 /\ u[Len(t) + 1] = c
          /\ \A j \in 1 .. Len(t) : u[j] = t[j]
      BY <3>2, AppendProperties
    <3> HIDE DEF u
    <3>4. \A o \in Nat : o < Len(t) => o + 1 \in 1 .. Len(t)
      BY <2>1 DEF t
    <3>5. \A o \in Nat : o < Len(t) => u[o + 1] = t[o + 1]
      BY <3>3, <3>4
    <3> HIDE DEF T
    <3> QED BY <2>1, <3>1, <3>3, <3>5 DEF t, c
  <2> QED BY <2>2, <2>3
<1> HIDE DEF T
<1>4. ss \in Seq(Seq(Char)) /\ Len(ss) = N /\ \A i \in 1 .. N : ss[i] = T(i)
  <2>1. DOMAIN ss = 1 .. N /\ \A i \in 1 .. N : ss[i] = T(i)
    BY <1>1
  <2>2. ss \in [1 .. N -> Seq(Char)]
    BY <1>1, <1>3
  <2> HIDE DEF ss, N
  <2>3. ss \in Seq(Seq(Char))
    BY <1>1, <2>2
  <2> QED BY <1>1, <2>1, <2>3, LenProperties
<1>5. buffer = FlattenSeq(ss)
  BY DEF Render, T
<1> HIDE DEF ss, N, L
<1>6. PICK place : LaidInto(place, ss, buffer)
  <2>1. Len(ss) # 0
    BY <1>1, <1>4
  <2> QED BY <1>4, <1>5, <2>1, FlattenPlaces
<1>7. /\ place \in [1 .. N + 1 -> Nat \ {0}]
      /\ place[1] = 1 /\ place[N + 1] = Len(buffer) + 1
      /\ \A i \in 1 .. N : place[i + 1] = place[i] + Len(T(i))
      /\ \A i, j \in 1 .. N + 1 : i <= j => place[i] <= place[j]
      /\ \A i \in 1 .. N, o \in Nat : o < Len(T(i)) => buffer[place[i] + o] = T(i)[o + 1]
  BY <1>4, <1>6 DEF LaidInto
<1>8. ASSUME NEW i \in 1 .. N, NEW o \in Nat, o < L(i)
      PROVE  buffer[place[i] + o] = file[i].text[o + 1]
  <2>1. o < Len(T(i))
    BY <1>3, <1>8
  <2> QED BY <1>3, <1>7, <1>8, <2>1
<1>9. ASSUME NEW i \in 1 .. N
      PROVE  \/ place[i + 1] = place[i] + L(i) + 1 /\ buffer[place[i] + L(i)] = "\n"
             \/ i = N /\ place[i + 1] = place[i] + L(i)
  <2>1. L(i) \in Nat /\ i \in 1 .. N + 1
    BY <1>1, <1>3
  <2>2. place[i] \in Nat
    BY <1>7, <2>1
  <2>3. CASE Len(T(i)) = L(i) + 1 /\ T(i)[L(i) + 1] = "\n"
    <3>1. L(i) < Len(T(i))
      BY <2>1, <2>3
    <3>2. buffer[place[i] + L(i)] = T(i)[L(i) + 1]
      BY <1>7, <2>1, <3>1
    <3>3. place[i + 1] = place[i] + (L(i) + 1)
      BY <1>7, <2>3
    <3>4. place[i + 1] = place[i] + L(i) + 1
      BY <2>1, <2>2, <3>3
    <3> QED BY <2>3, <3>2, <3>4
  <2>4. CASE i = N /\ Len(T(i)) = L(i)
    BY <1>7, <2>4
  <2> QED BY <1>3, <2>3, <2>4
<1>10. ASSUME NEW i \in 1 .. N - 1 PROVE place[i + 1] <= Len(buffer)
  <2>1. i + 1 \in 1 .. N + 1 /\ N \in 1 .. N + 1 /\ i + 1 <= N /\ N \in 1 .. N
    BY <1>1
  <2>2. place[i + 1] <= place[N] /\ place[i + 1] \in Nat /\ place[N] \in Nat
    BY <1>7, <2>1
  <2>3. L(N) >= 2 /\ L(N) \in Nat
    BY <2>1, LineText DEF N, L
  <2>4. Len(T(N)) \in Nat /\ Len(T(N)) >= 2
    BY <1>3, <2>1, <2>3
  <2>5. Len(buffer) + 1 = place[N] + Len(T(N))
    BY <1>7, <2>1
  <2>6. buffer \in Seq(Char)
    BY FileType
  <2>7. Len(buffer) \in Nat
    BY <2>6, LenProperties
  <2> QED BY <2>2, <2>4, <2>5, <2>7
<1>11. LaidOut(place)
  BY <1>7, <1>8, <1>9, <1>10 DEF LaidOut, N, L
<1> QED BY <1>11

\* The text of a token.
LEMMA TokenText ==
  ASSUME buffer \in Seq(Char), NEW a \in Nat \ {0}, NEW len \in Nat \ {0},
         a + len <= Len(buffer) + 1
  PROVE  /\ Text(a, len) \in Seq(Char) /\ Len(Text(a, len)) = len
         /\ \A i \in 1 .. len : Text(a, len)[i] = buffer[a + i - 1]
<1> DEFINE b == a + len - 1
<1>1. /\ a \in Int /\ b \in Int /\ Len(buffer) \in Nat /\ a <= b /\ b - a + 1 = len
      /\ \A i \in a .. b : i \in 1 .. Len(buffer)
  BY LenProperties
<1>2. Text(a, len) = SubSeq(buffer, a, b)
  BY NullAssumption DEF Text
<1> HIDE DEF b
<1>3. \A i \in a .. b : buffer[i] \in Char
  BY <1>1, ElementOfSeq
<1>4. /\ SubSeq(buffer, a, b) \in Seq(Char)
      /\ Len(SubSeq(buffer, a, b)) = IF a <= b THEN b - a + 1 ELSE 0
      /\ \A i \in 1 .. b - a + 1 : SubSeq(buffer, a, b)[i] = buffer[a + i - 1]
  BY <1>1, <1>3, SubSeqProperties
<1> QED BY <1>1, <1>2, <1>4

-----------------------------------------------------------------------------
(* IniConfig: where the parser is in a well-formed file                    *)

Idle == comment = FALSE /\ section = FALSE /\ token = NULL /\ token_len = 0

\* o bytes of the header l, which begins at a, have been read.
InHeader(l, a, o) ==
  IF o \in 1 .. Len(l.name) + 1
  THEN /\ comment = FALSE /\ section = TRUE /\ token_len = o - 1
       /\ token = IF o = 1 THEN NULL ELSE a + 1
  ELSE Idle

\* o bytes of the setting l, which begins at a, have been read.
InSetting(l, a, o) ==
  /\ section = FALSE
  /\ comment = IF o > Width(l) THEN TRUE ELSE FALSE
  /\ token_len = IF o > Width(l) THEN Width(l) ELSE o
  /\ token = IF o = 0 THEN NULL ELSE a

\* The next byte is the one behind the first o of line n.
ByteIs(place, n, o) ==
  /\ n \in 1 .. Len(file) /\ o \in 0 .. Len(file[n].text)
  /\ p = place[n] + o /\ p <= Len(buffer)
  /\ \/ /\ PlainHeader(file[n]) /\ InHeader(file[n], place[n], o)
        /\ Settled(file, IF o = Len(file[n].text) THEN n ELSE n - 1, cursection)
     \/ /\ PlainSetting(file[n]) /\ InSetting(file[n], place[n], o)
        /\ Settled(file, n - 1, cursection)
     \/ file[n] = Blank /\ Idle /\ Settled(file, n - 1, cursection)

AllRead == p = Len(buffer) + 1 /\ Settled(file, Len(file), cursection)

Parsing(place) == AllRead \/ \E n, o : ByteIs(place, n, o)

\* What a byte leads to: the next one or, when memory runs out, the end.
Proceeds(place) ==
  /\ pc' = "parse" /\ UNCHANGED <<file, buffer, inicfg_config, fault>>
  /\ Parsing(place)'
Fails ==
  pc' \in {"opened", "crashed"} /\ fault' = TRUE /\ UNCHANGED <<file, buffer, inicfg_config>>

\* Which step each byte allows.
LEMMA ByteSteps ==
  ASSUME pc = "parse", p <= Len(buffer), Next
  PROVE  /\ ~ (p > Len(buffer)) =>
            /\ buffer[p] = "[" => OpenBracket
            /\ buffer[p] = "#" => HashSign
            /\ buffer[p] \notin {"[", "#"} /\ EndsSection => CloseBracket \/ Fails
            /\ buffer[p] \notin {"[", "#"} /\ ~ EndsSection =>
                 \/ TakeByte /\ ~ Completes
                 \/ Completes /\ (AddSetting \/ Malformed \/ Fails)
<1>1. parse_config
  BY DEF Next, OpenFails, ReadOverruns, OpenEmpty, ReadFile, inicfg_close
<1>2. OpenBracket => buffer[p] = "["
  BY DEF OpenBracket, Read
<1>3. HashSign => buffer[p] = "#"
  BY DEF HashSign, Read
<1>4. CloseBracket => EndsSection
  BY DEF CloseBracket
<1>5. EndsSection => buffer[p] \notin {"[", "#"}
  BY DEF EndsSection, Read
<1>6. TakeByte => Ordinary /\ ~ Completes
  BY DEF TakeByte
<1>7. AddSetting => Ordinary /\ Completes
  BY DEF AddSetting
<1>8. Malformed => Ordinary /\ Completes
  BY DEF Malformed
<1>9. OutOfMemory => Fails /\ (EndsSection \/ (Ordinary /\ Completes))
  BY DEF OutOfMemory, parse_failure_exit, Fails
<1>10. OutOfMemoryUnchecked => Fails /\ Ordinary /\ Completes
  BY DEF OutOfMemoryUnchecked, Fails
<1>11. Parsed => p > Len(buffer)
  BY DEF Parsed
<1>12. Ordinary => buffer[p] \notin {"[", "#"} /\ ~ EndsSection
  BY DEF Ordinary
<1> QED
  BY <1>1, <1>2, <1>3, <1>4, <1>5, <1>6, <1>7, <1>8, <1>9, <1>10, <1>11, <1>12, Zenon
  DEF parse_config

\* The parser has read o bytes of line n.
Reading(place, n, o) ==
  /\ pc = "parse" /\ p \in Nat
  /\ file \in Seq(Line) /\ WellFormed(file) /\ buffer \in Seq(Char)
  /\ cursection \in Seq(SectionRecord)
  /\ LaidOut(place) /\ ByteIs(place, n, o)

\* The byte it looks at, and what comes behind it.
LEMMA NextByte ==
  ASSUME NEW place, NEW n, NEW o, Reading(place, n, o)
  PROVE  /\ n \in 1 .. Len(file) /\ Len(file) \in Nat /\ o \in Nat
         /\ Len(file[n].text) \in Nat /\ o <= Len(file[n].text)
         /\ place[n] \in Nat \ {0} /\ p = place[n] + o /\ Len(buffer) \in Nat /\ p <= Len(buffer)
         /\ o < Len(file[n].text) => buffer[p] = file[n].text[o + 1]
         /\ o = Len(file[n].text) => buffer[p] = "\n"
         /\ n # Len(file) => n + 1 \in 1 .. Len(file) /\ p # Len(buffer)
         /\ o = Len(file[n].text) => p + 1 = place[n + 1]
         /\ n # Len(file) => place[n + 1] <= Len(buffer)
         /\ n = Len(file) => /\ p = Len(buffer) => o + 1 >= Len(file[n].text)
                             /\ o = Len(file[n].text) => p = Len(buffer)
<1> DEFINE t == file[n].text
           L == Len(t)
           N == Len(file)
           B == Len(buffer)
<1>1. n \in 1 .. N /\ N \in Nat /\ B \in Nat
  BY LenProperties DEF Reading, ByteIs
<1>2. L \in Nat
  BY <1>1, LineText DEF Reading
<1>3. o \in 0 .. L /\ p = place[n] + o /\ p <= B
  BY DEF Reading, ByteIs
<1>4. /\ place \in [1 .. N + 1 -> Nat \ {0}]
      /\ place[1] = 1 /\ place[N + 1] = B + 1
      /\ \A i \in 1 .. N, j \in Nat : j < Len(file[i].text) => buffer[place[i] + j] = file[i].text[j + 1]
      /\ \A i \in 1 .. N :
           \/ /\ place[i + 1] = place[i] + Len(file[i].text) + 1
              /\ buffer[place[i] + Len(file[i].text)] = "\n"
           \/ i = N /\ place[i + 1] = place[i] + Len(file[i].text)
      /\ \A i \in 1 .. N - 1 : place[i + 1] <= B
  BY DEF Reading, LaidOut
<1>5. place[n] \in Nat \ {0} /\ n + 1 \in 1 .. N + 1 /\ place[n + 1] \in Nat \ {0}
  <2>1. n \in 1 .. N + 1 /\ n + 1 \in 1 .. N + 1
    BY <1>1
  <2> HIDE DEF N, B, L, t
  <2> QED BY <1>4, <2>1
<1>6. o < L => buffer[p] = t[o + 1]
  <2>1. o \in Nat
    BY <1>2, <1>3
  <2> QED BY <1>1, <1>3, <1>4, <2>1
<1>7. \/ place[n + 1] = place[n] + L + 1 /\ buffer[place[n] + L] = "\n"
      \/ n = N /\ place[n + 1] = place[n] + L
  BY <1>1, <1>4
<1>8. n # N => n \in 1 .. N - 1 /\ n + 1 \in 1 .. N
  BY <1>1
<1>9. n # N => place[n + 1] <= B
  BY <1>4, <1>8
<1>10. n = N => place[n + 1] = B + 1
  BY <1>4
<1> HIDE DEF L, t, N, B
<1>11. o = L => buffer[p] = "\n" /\ p + 1 = place[n + 1]
  <2> SUFFICES ASSUME o = L PROVE buffer[p] = "\n" /\ p + 1 = place[n + 1]
    OBVIOUS
  <2>1. CASE place[n + 1] = place[n] + L + 1 /\ buffer[place[n] + L] = "\n"
    BY <1>2, <1>3, <1>5, <2>1
  <2>2. CASE n = N /\ place[n + 1] = place[n] + L
    BY <1>1, <1>2, <1>3, <1>5, <1>10, <2>2
  <2> QED BY <1>7, <2>1, <2>2
<1>12. n # N => p # B
  BY <1>1, <1>2, <1>3, <1>5, <1>7, <1>9
<1>13. n = N => (p = B => o + 1 >= L) /\ (o = L => p = B)
  BY <1>1, <1>2, <1>3, <1>5, <1>7, <1>10
<1> QED
  BY <1>1, <1>2, <1>3, <1>5, <1>6, <1>8, <1>9, <1>11, <1>12, <1>13 DEF L, t, N, B

\* A line is done and the next one begins.
LEMMA LineEnds ==
  ASSUME NEW place, NEW n, NEW o, Reading(place, n, o), n # Len(file),
         o = Len(file[n].text), p' = p + 1, Idle', Settled(file, n, cursection'),
         pc' = "parse", UNCHANGED <<file, buffer, inicfg_config, fault>>
  PROVE  Proceeds(place)
<1> DEFINE k == n + 1
           l == file[k]
<1>1. n \in Nat /\ k \in 1 .. Len(file) /\ p' = place[k] /\ place[k] <= Len(buffer) /\ k - 1 = n
  BY NextByte
<1>2. k \in 1 .. Len(file) /\ place[k] \in Nat
  BY <1>1 DEF Reading, LaidOut
<1>3. Len(l.text) \in Nat
  BY <1>2, LineText DEF Reading
<1>4. PlainHeader(l) \/ PlainSetting(l) \/ l = Blank
  BY <1>2, FirstLine DEF Reading
<1> HIDE DEF k, l
<1>5. CASE PlainHeader(l)
  <2>1. Len(l.text) # 0
    BY <1>5, HeaderText
  <2>2. InHeader(l, place[k], 0)'
    <3>1. Len(l.name) \in Nat
      BY <1>5, HeaderText
    <3>2. 0 \notin 1 .. Len(l.name) + 1
      BY <3>1
    <3> QED BY <3>2 DEF InHeader
  <2>3. ByteIs(place, k, 0)'
    BY <1>1, <1>2, <1>3, <1>5, <2>1, <2>2 DEF ByteIs, l
  <2> QED BY <2>3 DEF Proceeds, Parsing
<1>6. CASE PlainSetting(l)
  <2>1. InSetting(l, place[k], 0)'
    <3>1. Width(l) \in Nat
      BY <1>6, SettingWidth
    <3>2. ~ (0 > Width(l)) /\ l' = l
      BY <3>1 DEF l, k
    <3> QED BY <3>2 DEF InSetting, Idle
  <2>2. ByteIs(place, k, 0)'
    BY <1>1, <1>2, <1>3, <1>6, <2>1 DEF ByteIs, l
  <2> QED BY <2>2 DEF Proceeds, Parsing
<1>7. CASE l = Blank
  <2>1. ByteIs(place, k, 0)'
    BY <1>1, <1>2, <1>3, <1>7 DEF ByteIs, l
  <2> QED BY <2>1 DEF Proceeds, Parsing
<1> QED BY <1>4, <1>5, <1>6, <1>7

\* What the next byte does, by what it is.
LEMMA ByteTaken ==
  ASSUME NEW place, NEW n, NEW o, Reading(place, n, o), Next
  PROVE  /\ buffer[p] = "[" => OpenBracket
         /\ buffer[p] = "#" => HashSign
         /\ buffer[p] \notin {"[", "#"} /\ EndsSection => CloseBracket \/ Fails
         /\ buffer[p] \notin {"[", "#"} /\ ~ EndsSection =>
              \/ TakeByte /\ ~ Completes
              \/ Completes /\ (AddSetting \/ Malformed \/ Fails)
<1>1. pc = "parse" /\ p <= Len(buffer) /\ p \in Nat /\ Len(buffer) \in Nat
  BY NextByte DEF Reading
<1>2. ~ (p > Len(buffer))
  BY <1>1
<1> QED BY <1>1, <1>2, ByteSteps

\* A byte on the inside of a line has been read.
LEMMA StaysInLine ==
  ASSUME NEW place, NEW n, NEW o, Reading(place, n, o), NEW l, l = file[n],
         o < Len(l.text), p # Len(buffer),
         p' = p + 1, pc' = "parse", UNCHANGED <<file, buffer, inicfg_config, fault>>,
         \/ /\ PlainHeader(l) /\ InHeader(l, place[n], o + 1)'
            /\ Settled(file, IF o + 1 = Len(l.text) THEN n ELSE n - 1, cursection')
         \/ /\ PlainSetting(l) /\ InSetting(l, place[n], o + 1)'
            /\ Settled(file, n - 1, cursection')
  PROVE  Proceeds(place)
<1> DEFINE L == Len(l.text)
           B == Len(buffer)
           q == o + 1
<1>1. /\ n \in 1 .. Len(file) /\ o \in Nat /\ L \in Nat /\ o < L
      /\ place[n] \in Nat /\ p = place[n] + o /\ B \in Nat /\ p <= B /\ p # B
  BY NextByte
<1>2. q \in 0 .. L /\ p' = place[n] + q /\ p' <= B
  <2> HIDE DEF L, B
  <2> QED BY <1>1
<1> HIDE DEF q
<1>3. l = file'[n]
  OBVIOUS
<1>4. ByteIs(place, n, q)'
  BY <1>1, <1>2, <1>3 DEF ByteIs, q
<1> QED BY <1>4 DEF Proceeds, Parsing

\* The newline of a header or of a blank line changes nothing.
LEMMA NewlineIsSkipped ==
  ASSUME NEW place, NEW n, NEW o, Reading(place, n, o), Next, n # Len(file),
         o = Len(file[n].text), Idle, Settled(file, n, cursection)
  PROVE  Proceeds(place)
<1>1. buffer[p] = "\n" /\ p # Len(buffer)
  BY NextByte
<1> DEFINE b == buffer[p]
           c == "\n"
<1>2. b \notin {"[", "#"} /\ b = c
  BY <1>1
<1>3. ~ EndsSection /\ ~ Completes /\ ~ Tokenize
  <2> HIDE DEF b, c
  <2>1. ~ EndsSection
    BY DEF EndsSection, Idle
  <2>2. ~ Completes
    BY <1>1 DEF Completes, LastByte, Idle
  <2>3. ~ Tokenize
    BY <1>1, Zenon DEF Tokenize, LastByte
  <2> QED BY <2>1, <2>2, <2>3
<1>4. TakeByte
  BY <1>2, <1>3, ByteTaken
<1>5. Idle'
  BY <1>3, <1>4 DEF TakeByte, Idle, TokenStart, TokenLength
<1>6. /\ pc' = "parse" /\ UNCHANGED <<file, buffer, inicfg_config, fault>> /\ p' = p + 1
      /\ cursection' = cursection
  BY <1>4 DEF TakeByte, Reading
<1> QED BY <1>5, <1>6, LineEnds

\* A byte of a header: the bracket, the name, the other bracket, the newline.
LEMMA HeaderStep ==
  ASSUME NEW place, NEW n, NEW o, Reading(place, n, o), Next, NEW l, l = file[n],
         PlainHeader(l), InHeader(l, place[n], o),
         Settled(file, IF o = Len(l.text) THEN n ELSE n - 1, cursection)
  PROVE  Proceeds(place) \/ Fails
<1> DEFINE N == Len(l.name)
           L == Len(l.text)
           B == Len(buffer)
           a == place[n]
<1>1. /\ n \in 1 .. Len(file) /\ Len(file) \in Nat /\ o \in Nat
      /\ a \in Nat \ {0} /\ p = a + o /\ B \in Nat
      /\ o < L => buffer[p] = l.text[o + 1]
      /\ o = L => buffer[p] = "\n"
      /\ o <= L
  BY NextByte
<1>2. /\ l.name \in Seq(Char) /\ N \in Nat \ {0}
      /\ L = N + 2 /\ l.text[1] = "[" /\ l.text[N + 2] = "]"
      /\ \A i \in 1 .. N : /\ l.text[i + 1] = l.name[i]
                           /\ l.name[i] \notin {"[", "]", "#", "\n"}
  BY HeaderText
<1>3. n # Len(file)
  BY FirstLine DEF Reading, PlainHeader
<1>4. p # B
  BY <1>3, NextByte
<1>5. pc = "parse" /\ cursection \in Seq(SectionRecord)
  BY DEF Reading
<1> HIDE DEF N, L, B, a
<1>6. ASSUME o = 0 PROVE Proceeds(place)
  <2>1. buffer[p] = "["
    BY <1>1, <1>2, <1>6
  <2>2. OpenBracket
    BY <2>1, ByteTaken
  <2>3. Idle
    <3>1. 0 \notin 1 .. N + 1
      BY <1>2
    <3> QED BY <1>6, <3>1 DEF InHeader, N
  <2>4. InHeader(l, a, o + 1)'
    <3>1. o + 1 \in 1 .. N + 1 /\ o + 1 = 1
      BY <1>2, <1>6
    <3> QED BY <2>2, <2>3, <3>1 DEF InHeader, Idle, OpenBracket, N
  <2>5. o # L /\ o + 1 # L /\ o < L
    BY <1>2, <1>6
  <2>6. Settled(file, n - 1, cursection)
    BY <2>5 DEF L
  <2>7. /\ pc' = "parse" /\ UNCHANGED <<file, buffer, inicfg_config, fault>> /\ p' = p + 1
        /\ cursection' = cursection
    BY <1>5, <2>2 DEF OpenBracket
  <2> QED BY <1>4, <2>4, <2>5, <2>6, <2>7, StaysInLine DEF L, B, a
<1>7. ASSUME o \in 1 .. N PROVE Proceeds(place)
  <2>0. o < L /\ o # L /\ o + 1 # L
    BY <1>1, <1>2, <1>7
  <2>1. buffer[p] \notin {"[", "]", "#", "\n"} /\ o < L /\ o # L /\ o + 1 # L
    BY <1>1, <1>2, <1>7, <2>0, Zenon
  <2>2. ~ EndsSection /\ ~ Completes
    BY <1>4, <2>1 DEF EndsSection, Completes, LastByte, Read, B
  <2>3. TakeByte
    BY <2>1, <2>2, ByteTaken
  <2>4. /\ comment = FALSE /\ section = TRUE /\ token_len = o - 1
        /\ token = IF o = 1 THEN NULL ELSE a + 1
    <3>1. o \in 1 .. N + 1
      BY <1>2, <1>7
    <3> QED BY <3>1 DEF InHeader, N, a
  <2>5. Tokenize
    BY <2>1, <2>4 DEF Tokenize
  <2>6. TokenStart = a + 1 /\ TokenLength = o
    <3>1. a + 1 # NULL
      BY <1>1, NullAssumption
    <3>2. CASE o = 1
      BY <1>1, <2>4, <2>5, <3>2 DEF TokenStart, TokenLength
    <3>3. CASE o # 1
      BY <1>1, <1>7, <2>4, <2>5, <3>1, <3>3 DEF TokenStart, TokenLength
    <3> QED BY <3>2, <3>3
  <2>7. InHeader(l, a, o + 1)'
    <3>1. o + 1 \in 1 .. N + 1 /\ o + 1 # 1 /\ (o + 1) - 1 = o
      BY <1>2, <1>7
    <3> QED BY <2>3, <2>4, <2>6, <3>1 DEF InHeader, TakeByte, N
  <2>8. Settled(file, n - 1, cursection)
    BY <2>1 DEF L
  <2>9. /\ pc' = "parse" /\ UNCHANGED <<file, buffer, inicfg_config, fault>> /\ p' = p + 1
        /\ cursection' = cursection
    BY <1>5, <2>3 DEF TakeByte
  <2> QED BY <1>4, <2>1, <2>7, <2>8, <2>9, StaysInLine DEF L, B, a
<1>8. ASSUME o = N + 1 PROVE Proceeds(place) \/ Fails
  <2>1. buffer[p] = "]" /\ o < L /\ o + 1 = L /\ o # L
    BY <1>1, <1>2, <1>8
  <2>2. /\ comment = FALSE /\ section = TRUE /\ token_len = N
        /\ token = a + 1 /\ token # NULL
    <3>1. o \in 1 .. N + 1 /\ o # 1 /\ o - 1 = N /\ a + 1 \in Nat
      BY <1>1, <1>2, <1>8
    <3> QED BY <3>1, NullAssumption DEF InHeader, N, a
  <2>3. EndsSection
    BY <1>5, <2>1, <2>2, NextByte DEF EndsSection, Read
  <2>4. CloseBracket \/ Fails
    BY <2>1, <2>3, ByteTaken
  <2>5. ASSUME CloseBracket PROVE Proceeds(place)
    <3>1. Text(a + 1, N) = l.name
      <4>1. /\ buffer \in Seq(Char) /\ a + 1 \in Nat \ {0} /\ (a + 1) + N <= Len(buffer) + 1
        <5>1. p <= B
          BY NextByte DEF B
        <5>2. (a + 1) + N <= B + 1
          BY <1>1, <1>2, <1>8, <5>1
        <5> QED BY <1>1, <5>2 DEF Reading, B
      <4> DEFINE u == Text(a + 1, N)
      <4>2. /\ u \in Seq(Char) /\ Len(u) = N
            /\ \A i \in 1 .. N : u[i] = buffer[(a + 1) + i - 1]
        BY <1>2, <4>1, TokenText
      <4> HIDE DEF u
      <4>3. ASSUME NEW i \in 1 .. N PROVE u[i] = l.name[i]
        <5>1. i \in Nat /\ i < L /\ (a + 1) + i - 1 = a + i
          BY <1>1, <1>2
        <5>2. buffer[a + i] = file[n].text[i + 1]
          BY <1>1, <5>1 DEF Reading, LaidOut, a, L
        <5> QED BY <1>2, <4>2, <5>1, <5>2
      <4>4. u = l.name
        BY <1>2, <4>2, <4>3, SeqEqual DEF N
      <4> QED BY <4>4 DEF u
    <3>2. cursection' = <<new_section(l.name)>> \o cursection
      BY <2>2, <2>5, <3>1 DEF CloseBracket
    <3>3. Settled(file, n, cursection')
      <4>1. n - 1 \in 0 .. Len(file) - 1 /\ (n - 1) + 1 = n
        BY <1>1
      <4>2. Settled(file, n - 1, cursection)
        BY <2>1 DEF L
      <4> HIDE DEF Settled
      <4> DEFINE k == n - 1
      <4>3. k \in 0 .. Len(file) - 1 /\ k + 1 = n /\ Settled(file, k, cursection)
        BY <4>1, <4>2
      <4> HIDE DEF k
      <4>4. PlainHeader(file[k + 1]) /\ file \in Seq(Line) /\ WellFormed(file)
        BY <4>3 DEF Reading
      <4>5. Settled(file, k + 1, <<new_section(file[k + 1].name)>> \o cursection)
        BY <1>5, <4>3, <4>4, HeaderSettles
      <4> QED BY <3>2, <4>3, <4>5
    <3>4. InHeader(l, a, o + 1)'
      <4>1. o + 1 \notin 1 .. N + 1
        BY <1>2, <1>8
      <4>2. Idle'
        BY <2>2, <2>5 DEF CloseBracket, Idle
      <4> QED BY <4>1, <4>2 DEF InHeader, N
    <3>5. pc' = "parse" /\ UNCHANGED <<file, buffer, inicfg_config, fault>> /\ p' = p + 1
      BY <1>5, <2>5 DEF CloseBracket
    <3> QED BY <1>4, <2>1, <3>3, <3>4, <3>5, StaysInLine DEF L, B, a
  <2> QED BY <2>4, <2>5
<1>9. ASSUME o = L PROVE Proceeds(place)
  <2>1. o \notin 1 .. N + 1
    BY <1>2, <1>9
  <2>2. Idle
    BY <2>1 DEF InHeader, N
  <2>3. Settled(file, n, cursection)
    BY <1>9 DEF L
  <2> QED BY <1>3, <1>9, <2>2, <2>3, NewlineIsSkipped DEF L
<1>10. o = 0 \/ o \in 1 .. N \/ o = N + 1 \/ o = L
  BY <1>1, <1>2
<1> QED BY <1>6, <1>7, <1>8, <1>9, <1>10

\* The newline of a blank line.
LEMMA BlankStep ==
  ASSUME NEW place, NEW n, NEW o, Reading(place, n, o), Next,
         file[n] = Blank, Idle, Settled(file, n - 1, cursection)
  PROVE  Proceeds(place)
<1> DEFINE k == n - 1
<1>1. /\ n \in 1 .. Len(file) /\ Len(file) \in Nat /\ o \in Nat
      /\ o <= Len(file[n].text)
  BY NextByte
<1>2. n # Len(file) /\ n # 1
  BY FirstLine DEF Reading, Blank
<1>3. o = Len(file[n].text)
  <2>1. Len(file[n].text) = 0
    BY DEF Blank
  <2> QED BY <1>1, <2>1
<1>4. k \in 1 .. Len(file) - 1 /\ k + 1 = n
  BY <1>1, <1>2
<1>5. Settled(file, k, cursection)
  OBVIOUS
<1> HIDE DEF k
<1>6. file[k + 1] = Blank /\ file \in Seq(Line) /\ WellFormed(file)
  BY <1>4 DEF Reading
<1>7. Settled(file, k + 1, cursection)
  BY <1>4, <1>5, <1>6, BlankSettles
<1> QED BY <1>2, <1>3, <1>4, <1>7, NewlineIsSkipped

\* The characters of a setting, before and behind its remark begins.
LEMMA SettingBytes ==
  ASSUME NEW l, PlainSetting(l), NEW i \in 1 .. Len(l.text)
  PROVE  /\ i <= Width(l) => l.text[i] \notin {"[", "#", "\n"}
         /\ i > Width(l) => l.text[i] \notin {"[", "\n"}
         /\ i = Width(l) + 1 => l.text[i] = "#"
         /\ i > Width(l) /\ i = Len(l.text) => l.text[i] # "#"
<1> DEFINE k == l.key
           v == l.value
           w == l.remark
           t == l.text
           a == Len(k)
           b == Len(v)
           c == Len(w)
           blank == " "
           W == Width(l)
<1>1. /\ a \in Nat /\ b \in Nat /\ c \in Nat
      /\ \A j \in 1 .. a : t[j] = k[j]
      /\ t[a + 1] = blank /\ t[a + 2] = "="
      /\ \A j \in 1 .. b : t[a + 2 + j] = v[j]
      /\ \A j \in 1 .. c : t[W + j] = w[j]
      /\ Len(t) = W + c
  BY SettingText
<1>2. W = a + 2 + b
  BY DEF Width
<1>3. /\ k \in Seq(Char \ {"[", "#", "=", "\n"}) /\ v \in Seq(Char \ {"[", "#", "\n"})
      /\ w \in Seq(Char \ {"[", "\n"})
      /\ w # <<>> => w[1] = "#" /\ Last(w) # "#"
  BY DEF PlainSetting
<1>4. \A j \in 1 .. a : k[j] \notin {"[", "#", "\n"}
  BY <1>3, ElementOfSeq
<1>5. \A j \in 1 .. b : v[j] \notin {"[", "#", "\n"}
  BY <1>3, ElementOfSeq
<1>6. \A j \in 1 .. c : w[j] \notin {"[", "\n"}
  BY <1>3, ElementOfSeq
<1>7. c # 0 => w[1] = "#" /\ w[c] # "#"
  <2>1. c # 0 => w # <<>>
    BY <1>3, EmptySeq
  <2> QED BY <1>3, <2>1 DEF Last
<1>8. blank \notin {"[", "#", "\n"}
  OBVIOUS
<1> HIDE DEF k, v, w, t, a, b, c, blank, W
<1>9. i \in 1 .. W + c
  BY <1>1 DEF t
<1>10. ASSUME i <= W PROVE t[i] \notin {"[", "#", "\n"}
  <2>1. CASE i <= a
    <3>1. i \in 1 .. a
      BY <1>1, <1>9, <2>1
    <3> QED BY <1>1, <1>4, <3>1
  <2>2. CASE i = a + 1
    BY <1>1, <1>8, <2>2
  <2>3. CASE i = a + 2
    BY <1>1, <2>3
  <2>4. CASE i > a + 2
    <3>1. i - (a + 2) \in 1 .. b /\ a + 2 + (i - (a + 2)) = i
      BY <1>1, <1>2, <1>9, <1>10, <2>4
    <3>2. t[i] = v[i - (a + 2)]
      BY <1>1, <3>1
    <3> QED BY <1>5, <3>1, <3>2
  <2> QED BY <1>1, <1>9, <2>1, <2>2, <2>3, <2>4
<1>11. ASSUME i > W
       PROVE  /\ t[i] \notin {"[", "\n"}
              /\ i = W + 1 => t[i] = "#"
              /\ i = W + c => t[i] # "#"
  <2>1. i - W \in 1 .. c /\ W + (i - W) = i /\ W \in Nat
    BY <1>1, <1>2, <1>9, <1>11
  <2>2. t[i] = w[i - W]
    BY <1>1, <2>1
  <2>3. t[i] \notin {"[", "\n"}
    BY <1>6, <2>1, <2>2
  <2>4. c # 0
    BY <1>1, <2>1
  <2>5. i = W + 1 => i - W = 1
    BY <2>1
  <2>6. i = W + c => i - W = c
    BY <1>1, <2>1
  <2> QED BY <1>7, <2>2, <2>3, <2>4, <2>5, <2>6
<1>12. i = Len(t) => i = W + c
  BY <1>1
<1>13. /\ i <= W => t[i] \notin {"[", "#", "\n"}
       /\ i > W => t[i] \notin {"[", "\n"}
       /\ i = W + 1 => t[i] = "#"
       /\ i > W /\ i = Len(t) => t[i] # "#"
  <2>1. W \in Nat /\ i \in Nat
    BY <1>1, <1>2, <1>9
  <2>2. i = W + 1 => i > W
    BY <2>1
  <2>3. ASSUME i > W
        PROVE  t[i] \notin {"[", "\n"} /\ (i = W + 1 => t[i] = "#") /\ (i = Len(t) => t[i] # "#")
    BY <1>11, <1>12, <2>3, Zenon
  <2> QED BY <1>10, <2>2, <2>3, Zenon
<1> QED BY <1>13 DEF t, W

\* The line of a setting is complete: it is added, or memory runs out.
LEMMA SettingAdded ==
  ASSUME NEW place, NEW n, NEW o, Reading(place, n, o), Next, NEW l, l = file[n],
         PlainSetting(l), Settled(file, n - 1, cursection),
         buffer[p] \notin {"[", "#"}, section = FALSE, Completes,
         o = Len(l.text) \/ (n = Len(file) /\ p = Len(buffer)),
         TokenStart = place[n],
         \/ TokenLength = Width(l) /\ Width(l) <= o + 1
         \/ TokenLength = Width(l) + 1 /\ o = Width(l) /\ o = Len(l.text)
  PROVE  Proceeds(place) \/ Fails
<1> DEFINE a == place[n]
           W == Width(l)
           L == Len(l.text)
           B == Len(buffer)
           len == TokenLength
           u == Text(a, len)
           k == n - 1
           x == new_setting(u)
<1>1. /\ n \in 1 .. Len(file) /\ Len(file) \in Nat /\ o \in Nat
      /\ a \in Nat \ {0} /\ p = a + o /\ B \in Nat /\ p <= B
      /\ o = L => buffer[p] = "\n"
      /\ o <= L
  BY NextByte
<1>2. W \in Nat /\ W >= 2 /\ Len(l.remark) \in Nat /\ L = W + Len(l.remark)
  BY SettingWidth
<1>3. pc = "parse" /\ cursection \in Seq(SectionRecord) /\ file \in Seq(Line) /\ WellFormed(file)
  BY DEF Reading
<1>4. n # 1
  BY FirstLine DEF Reading, PlainSetting
<1>5. k \in 1 .. Len(file) - 1 /\ k + 1 = n /\ k # 0
  BY <1>1, <1>4
<1>6. cursection # <<>>
  BY <1>5 DEF Settled
<1>7. EqualSign(u) # 0 /\ x \in SettingRecord /\ x.key = l.key /\ x.value = strtrim(l.value)
  <2>1. len \in Nat \ {0} /\ a + len <= B + 1
    <3> HIDE DEF W, L, B, a, len
    <3>1. \/ len = W /\ W <= o + 1
          \/ len = W + 1 /\ o = W
      BY DEF W, L, len
    <3> QED BY <1>1, <1>2, <3>1
  <2>2. /\ u \in Seq(Char) /\ Len(u) = len
        /\ \A i \in 1 .. len : u[i] = buffer[a + i - 1]
    <3>1. buffer \in Seq(Char) /\ a + len <= Len(buffer) + 1
      BY <2>1 DEF Reading
    <3> HIDE DEF len, a
    <3> QED BY <1>1, <2>1, <3>1, TokenText
  <2> HIDE DEF u, x, len
  <2>3. ASSUME NEW i \in 1 .. W PROVE u[i] = l.text[i]
    <3> DEFINE j == i - 1
    <3>1. i \in 1 .. len /\ j \in Nat /\ j < L /\ a + i - 1 = a + j /\ j + 1 = i
      <4> HIDE DEF W, L, a
      <4>1. len = W \/ len = W + 1
        BY DEF W, len
      <4> QED BY <1>1, <1>2, <4>1
    <3> HIDE DEF j
    <3>2. buffer[a + j] = file[n].text[j + 1]
      BY <1>1, <3>1 DEF Reading, LaidOut
    <3> HIDE DEF a
    <3> QED BY <2>2, <3>1, <3>2
  <2>4. Len(u) = W \/ (Len(u) = W + 1 /\ u[W + 1] = "\n")
    <3>1. CASE len = W
      BY <2>2, <3>1
    <3>2. CASE len = W + 1 /\ o = W /\ o = L
      <4>1. W + 1 \in 1 .. len /\ a + (W + 1) - 1 = p
        <5> HIDE DEF W, L, a
        <5> QED BY <1>1, <1>2, <3>2
      <4>2. u[W + 1] = buffer[p]
        BY <2>2, <4>1
      <4> QED BY <1>1, <2>2, <3>2, <4>2
    <3> QED BY <3>1, <3>2 DEF len
  <2>5. \A i \in 1 .. Width(l) : u[i] = l.text[i]
    BY <2>3
  <2> QED BY <2>2, <2>4, <2>5, SettingRead DEF x
<1>8. ~ EndsSection
  BY DEF EndsSection
<1>9. AddSetting \/ Malformed \/ Fails
  BY <1>8, ByteTaken
<1>10. ~ Malformed
  BY <1>6, <1>7 DEF Malformed
<1>11. ASSUME AddSetting PROVE Proceeds(place)
  <2>1. cursection' = [cursection EXCEPT ![1].settings = <<x>> \o @]
    BY <1>11 DEF AddSetting
  <2> HIDE DEF x, u, len, k
  <2>2. Settled(file, n, cursection')
    <3>1. PlainSetting(file[k + 1]) /\ x.key = file[k + 1].key /\ x.value = strtrim(file[k + 1].value)
      BY <1>5, <1>7
    <3>2. Settled(file, k, cursection)
      BY DEF k
    <3>3. Settled(file, k + 1, [cursection EXCEPT ![1].settings = <<x>> \o @])
      BY <1>3, <1>5, <1>7, <3>1, <3>2, SettingSettles
    <3> QED BY <1>5, <2>1, <3>3
  <2>3. Idle'
    BY <1>11 DEF AddSetting, Idle
  <2>4. pc' = "parse" /\ UNCHANGED <<file, buffer, inicfg_config, fault>> /\ p' = p + 1
    BY <1>3, <1>11 DEF AddSetting
  <2>5. CASE n = Len(file)
    <3>1. p = B
      BY <2>5, NextByte
    <3>2. AllRead'
      BY <2>2, <2>4, <2>5, <3>1 DEF AllRead
    <3> QED BY <2>4, <3>2 DEF Proceeds, Parsing
  <2>6. CASE n # Len(file)
    BY <2>2, <2>3, <2>4, <2>6, LineEnds
  <2> QED BY <2>5, <2>6
<1> QED BY <1>9, <1>10, <1>11

\* A byte of a setting.
LEMMA SettingStep ==
  ASSUME NEW place, NEW n, NEW o, Reading(place, n, o), Next, NEW l, l = file[n],
         PlainSetting(l), InSetting(l, place[n], o), Settled(file, n - 1, cursection)
  PROVE  Proceeds(place) \/ Fails
<1> DEFINE a == place[n]
           W == Width(l)
           L == Len(l.text)
           R == Len(l.remark)
           B == Len(buffer)
           b == buffer[p]
<1>1. /\ n \in 1 .. Len(file) /\ Len(file) \in Nat /\ o \in Nat
      /\ a \in Nat \ {0} /\ p = a + o /\ B \in Nat /\ p <= B
      /\ o < L => b = l.text[o + 1]
      /\ o = L => b = "\n"
      /\ o <= L
      /\ p = B => n = Len(file) /\ o + 1 >= L
      /\ n = Len(file) /\ o = L => p = B
  BY NextByte
<1>2. W \in Nat /\ W >= 2 /\ R \in Nat /\ L = W + R
  BY SettingWidth
<1>3. pc = "parse" /\ p \in Nat
  BY DEF Reading
<1>4. /\ section = FALSE
      /\ o > W => comment = TRUE
      /\ ~ (o > W) => comment = FALSE
      /\ token_len = IF o > W THEN W ELSE o
      /\ token = IF o = 0 THEN NULL ELSE a
  BY DEF InSetting
<1>5. a # NULL
  BY <1>1, NullAssumption
<1>6. cursection # <<>>
  <2>1. n # 1
    BY FirstLine DEF Reading, PlainSetting
  <2>2. n - 1 # 0
    BY <1>1, <2>1
  <2> QED BY <2>2 DEF Settled
<1>7. ~ EndsSection
  BY <1>4 DEF EndsSection
<1>8. /\ o + 1 <= W => o < L /\ b \notin {"[", "#", "\n"}
      /\ o >= W /\ o < L => b \notin {"[", "\n"}
      /\ o = W /\ o < L => b = "#"
      /\ o >= W /\ o + 1 = L => b # "#"
  <2> DEFINE i == o + 1
  <2> HIDE DEF W, L, R, b
  <2>1. i <= W => o < L
    BY <1>1, <1>2
  <2>2. CASE o < L
    <3>1. i \in 1 .. L
      BY <1>1, <1>2, <2>2
    <3>2. (o >= W <=> i > W) /\ (o = W <=> i = W + 1)
      <4>1. W \in Nat /\ o \in Nat
        BY <1>1, <1>2
      <4> QED BY <4>1
    <3> HIDE DEF i
    <3>3. /\ i <= W => l.text[i] \notin {"[", "#", "\n"}
          /\ i > W => l.text[i] \notin {"[", "\n"}
          /\ i = W + 1 => l.text[i] = "#"
          /\ i > W /\ i = L => l.text[i] # "#"
      BY <3>1, SettingBytes DEF L, W
    <3>4. b = l.text[i]
      BY <1>1, <2>2 DEF i
    <3> HIDE DEF b, W, L
    <3>5. /\ i <= W => o < L /\ b \notin {"[", "#", "\n"}
          /\ o >= W /\ o < L => b \notin {"[", "\n"}
          /\ o = W /\ o < L => b = "#"
          /\ o >= W /\ i = L => b # "#"
      BY <2>2, <3>2, <3>3, <3>4, Zenon
    <3> QED BY <3>5 DEF i
  <2>3. CASE ~ (o < L)
    <3>1. ~ (i <= W) /\ i # L
      BY <1>1, <1>2, <2>3
    <3> QED BY <2>3, <3>1
  <2> QED BY <2>2, <2>3
<1> HIDE DEF a, W, L, R, B, b
\* A byte of the key, the equal sign or the value.
<1>9. ASSUME o + 1 <= W PROVE Proceeds(place) \/ Fails
  <2>1. b \notin {"[", "#", "\n"} /\ o < L
    BY <1>8, <1>9
  <2>2. comment = FALSE /\ token_len = o /\ ~ (o > W) /\ ~ (o + 1 > W) /\ o + 1 # 0
    BY <1>1, <1>2, <1>4, <1>9
  <2>3. Tokenize
    BY <2>1, <2>2, Zenon DEF Tokenize, b
  <2>4. TokenStart = a /\ TokenLength = o + 1
    <3>1. CASE o = 0
      BY <1>1, <1>4, <2>2, <2>3, <3>1 DEF TokenStart, TokenLength
    <3>2. CASE o # 0
      BY <1>1, <1>4, <1>5, <2>2, <2>3, <3>2 DEF TokenStart, TokenLength
    <3> QED BY <3>1, <3>2
  <2>5. CASE p # B
    <3>1. ~ Completes
      BY <2>1, <2>5, Zenon DEF Completes, LastByte, B, b
    <3>2. TakeByte
      BY <1>7, <2>1, <3>1, ByteTaken DEF b
    <3>3. /\ pc' = "parse" /\ UNCHANGED <<file, buffer, inicfg_config, fault>> /\ p' = p + 1
          /\ cursection' = cursection /\ section' = section /\ comment' = comment
          /\ token' = a /\ token_len' = o + 1
      BY <1>3, <2>4, <3>2 DEF TakeByte
    <3>4. InSetting(l, a, o + 1)'
      BY <1>4, <2>2, <3>3 DEF InSetting, W
    <3> QED BY <2>1, <2>5, <3>3, <3>4, StaysInLine DEF a, B, L
  <2>6. CASE p = B
    <3>1. o + 1 = W /\ n = Len(file)
      BY <1>1, <1>2, <1>9, <2>6
    <3>2. Completes
      BY <2>6 DEF Completes, LastByte, B
    <3>3. TokenLength = W /\ W <= o + 1
      BY <1>1, <1>2, <2>4, <3>1
    <3> QED BY <1>4, <2>1, <2>4, <2>6, <3>1, <3>2, <3>3, SettingAdded DEF a, W, B, b
  <2> QED BY <2>5, <2>6
\* A byte of the remark.
<1>10. ASSUME o >= W, o < L PROVE Proceeds(place) \/ Fails
  <2>1. b \notin {"[", "\n"} /\ token_len = W /\ token = a /\ o + 1 > W /\ o + 1 # 0
    <3>1. o # 0 /\ (o > W \/ o = W)
      BY <1>1, <1>2, <1>10
    <3> QED BY <1>1, <1>2, <1>4, <1>8, <1>10, <3>1
  <2>2. CASE b = "#"
    <3>1. HashSign
      BY <2>2, ByteTaken DEF b
    <3>2. p # B
      <4>1. o + 1 # L
        BY <1>8, <1>10, <2>2
      <4> QED BY <1>1, <1>2, <1>10, <4>1
    <3>3. /\ pc' = "parse" /\ UNCHANGED <<file, buffer, inicfg_config, fault>> /\ p' = p + 1
          /\ cursection' = cursection /\ section' = section /\ comment' = TRUE
          /\ token' = token /\ token_len' = token_len
      BY <1>3, <3>1 DEF HashSign
    <3>4. InSetting(l, a, o + 1)'
      BY <1>4, <2>1, <3>3 DEF InSetting, W
    <3> QED BY <1>10, <3>2, <3>3, <3>4, StaysInLine DEF a, B, L
  <2>3. CASE b # "#"
    <3>1. o > W
      <4>1. o # W
        BY <1>8, <1>10, <2>3
      <4> QED BY <1>1, <1>2, <1>10, <4>1
    <3>2. comment = TRUE
      BY <1>4, <3>1
    <3>3. ~ Tokenize
      BY <3>2 DEF Tokenize
    <3>4. TokenStart = a /\ TokenLength = W
      BY <2>1, <3>3 DEF TokenStart, TokenLength
    <3>5. CASE p # B
      <4>1. ~ Completes
        BY <2>1, <3>5, Zenon DEF Completes, LastByte, B, b
      <4>2. TakeByte
        BY <1>7, <2>1, <2>3, <4>1, ByteTaken DEF b
      <4>3. /\ pc' = "parse" /\ UNCHANGED <<file, buffer, inicfg_config, fault>> /\ p' = p + 1
            /\ cursection' = cursection /\ section' = section /\ comment' = comment
            /\ token' = a /\ token_len' = W
        BY <1>3, <3>4, <4>2 DEF TakeByte
      <4>4. InSetting(l, a, o + 1)'
        BY <1>4, <2>1, <3>2, <4>3 DEF InSetting, W
      <4> QED BY <1>10, <3>5, <4>3, <4>4, StaysInLine DEF a, B, L
    <3>6. CASE p = B
      <4>1. n = Len(file) /\ W <= o + 1
        BY <1>1, <1>2, <3>1, <3>6
      <4>2. Completes
        BY <3>6 DEF Completes, LastByte, B
      <4> QED BY <1>4, <2>1, <2>3, <3>4, <3>6, <4>1, <4>2, SettingAdded DEF a, W, B, b
    <3> QED BY <3>5, <3>6
  <2> QED BY <2>2, <2>3
\* The newline.
<1>11. ASSUME o = L PROVE Proceeds(place) \/ Fails
  <2>1. b = "\n" /\ o >= W /\ o # 0
    BY <1>1, <1>2, <1>11
  <2>2. token_len = W /\ token = a /\ W <= o + 1
    BY <1>1, <1>2, <1>4, <2>1
  <2>3. token_len > 0
    BY <1>2, <2>2
  <2>4. Completes
    BY <1>6, <2>1, <2>3, Zenon DEF Completes, b
  <2>5. TokenStart = a
    BY <1>5, <2>2 DEF TokenStart
  <2>6. \/ TokenLength = W
        \/ TokenLength = W + 1 /\ o = W
    <3>1. CASE ~ Tokenize
      BY <2>2, <3>1 DEF TokenLength
    <3>2. CASE Tokenize
      <4>1. comment # TRUE
        BY <3>2 DEF Tokenize
      <4>2. o = W
        <5>1. ~ (o > W)
          BY <1>4, <4>1
        <5> QED BY <1>1, <1>2, <2>1, <5>1
      <4> QED BY <1>5, <2>2, <3>2, <4>2 DEF TokenLength
    <3> QED BY <3>1, <3>2
  <2>7. b \notin {"[", "#"}
    BY <2>1
  <2> QED BY <1>4, <1>11, <2>2, <2>4, <2>5, <2>6, <2>7, SettingAdded DEF a, W, L, b
<1>12. o + 1 <= W \/ (o >= W /\ o < L) \/ o = L
  BY <1>1, <1>2
<1> QED BY <1>9, <1>10, <1>11, <1>12

-----------------------------------------------------------------------------
(* IniConfig: loading                                                      *)

\* How far a well-formed file, laid out like that, is loaded.
Loading(place) ==
  /\ LaidOut(place)
  /\ pc \in {"open", "parse"} => fault = FALSE
  /\ pc = "open" => p = 1 /\ Idle
  /\ pc = "parse" => Parsing(place)
  /\ pc = "opened" => /\ fault = TRUE => inicfg_config = <<>>
                      /\ fault = FALSE => Settled(file, Len(file), inicfg_config)

LoadInv ==
  /\ IInv
  /\ \E newline \in BOOLEAN : buffer = Render(file, newline)
  /\ WellFormed(file) => \E place : Loading(place)

\* Nothing is loaded at the start.
LEMMA InitLoadInv == Init => LoadInv
<1> SUFFICES ASSUME Init PROVE LoadInv
  OBVIOUS
<1>1. IInv
  BY InitIInv
<1>2. file \in Seq(Line)
  BY <1>1 DEF IInv, TypeOK
<1>3. PICK newline \in BOOLEAN : buffer = Render(file, newline)
  BY DEF Init
<1>4. ASSUME WellFormed(file) PROVE \E place : Loading(place)
  <2>1. PICK place : LaidOut(place)
    BY <1>2, <1>3, <1>4, FileIsLaidOut
  <2>2. Loading(place)
    BY <2>1 DEF Init, Loading, Idle
  <2> QED BY <2>2
<1> QED BY <1>1, <1>3, <1>4 DEF LoadInv

\* The first line of a well-formed file is a header and not its last.
LEMMA FileBegins ==
  ASSUME file \in Seq(Line), WellFormed(file), buffer \in Seq(Char), NEW place, LaidOut(place)
  PROVE  PlainHeader(file[1]) /\ 1 \in 1 .. Len(file) /\ place[1] = 1 /\ 1 <= Len(buffer)
<1> DEFINE N == Len(file)
<1>1. /\ N \in Nat \ {0} /\ file[1].kind = "section" /\ file[N].kind = "setting"
      /\ \A i \in 1 .. N : PlainHeader(file[i]) \/ PlainSetting(file[i]) \/ file[i] = Blank
  BY FirstLine
<1>2. 1 \in 1 .. N /\ N # 1
  BY <1>1
<1>3. ~ PlainSetting(file[1]) /\ file[1] # Blank
  BY <1>1 DEF PlainSetting, Blank
<1>4. 1 \in 1 .. N - 1 /\ 1 + 1 \in 1 .. N + 1
  BY <1>1, <1>2
<1>5. place[1] = 1 /\ place[1 + 1] <= Len(buffer) /\ place[1 + 1] \in Nat \ {0}
  BY <1>4 DEF LaidOut
<1>6. Len(buffer) \in Nat
  BY LenProperties
<1> QED BY <1>1, <1>2, <1>3, <1>5, <1>6

\* A byte of a well-formed file leads to the next one or, without memory, to the end.
LEMMA ByteProceeds ==
  ASSUME NEW place, NEW n, NEW o, Reading(place, n, o), Next
  PROVE  Proceeds(place) \/ Fails
<1> DEFINE l == file[n]
<1>1. \/ /\ PlainHeader(l) /\ InHeader(l, place[n], o)
         /\ Settled(file, IF o = Len(l.text) THEN n ELSE n - 1, cursection)
      \/ PlainSetting(l) /\ InSetting(l, place[n], o) /\ Settled(file, n - 1, cursection)
      \/ l = Blank /\ Idle /\ Settled(file, n - 1, cursection)
  BY DEF Reading, ByteIs
<1> HIDE DEF l
<1>2. l = file[n]
  BY DEF l
<1>3. CASE /\ PlainHeader(l) /\ InHeader(l, place[n], o)
           /\ Settled(file, IF o = Len(l.text) THEN n ELSE n - 1, cursection)
  BY <1>2, <1>3, HeaderStep
<1>4. CASE PlainSetting(l) /\ InSetting(l, place[n], o) /\ Settled(file, n - 1, cursection)
  BY <1>2, <1>4, SettingStep
<1>5. CASE l = Blank /\ Idle /\ Settled(file, n - 1, cursection)
  BY <1>2, <1>5, BlankStep
<1> QED BY <1>1, <1>3, <1>4, <1>5

\* A step of the program loads what it reads.
LEMMA NextLoading ==
  ASSUME IInv, WellFormed(file), NEW place, Loading(place), Next, UNCHANGED <<file, buffer>>
  PROVE  Loading(place)'
<1>1. /\ file \in Seq(Line) /\ buffer \in Seq(Char) /\ p \in Nat /\ Len(buffer) \in Nat
      /\ cursection \in Seq(SectionRecord) /\ fault \in BOOLEAN
      /\ pc \in {"open", "parse", "opened", "closed", "crashed"}
      /\ pc \in {"open", "parse"} => inicfg_config = <<>>
      /\ pc = "open" => cursection = <<>>
  <2>1. TypeOK /\ Allocated
    BY DEF IInv
  <2>2. Len(buffer) \in Nat /\ buffer \in Seq(Char)
    BY <2>1, LenProperties DEF TypeOK
  <2>3. p \in Nat
    BY <2>1, <2>2 DEF TypeOK
  <2>4. cursection \in Seq(SectionRecord)
    BY <2>1, ListsAre DEF TypeOK
  <2>5. pc \in {"open", "parse"} => inicfg_config = <<>>
    BY <2>1 DEF Allocated
  <2>6. pc = "open" => cursection = <<>>
    BY <2>1 DEF Allocated
  <2> QED BY <2>1, <2>2, <2>3, <2>4, <2>5, <2>6 DEF TypeOK
<1>2. LaidOut(place) /\ LaidOut(place)'
  BY DEF Loading, LaidOut
<1>3. CASE pc = "open"
  <2>1. fault = FALSE /\ p = 1 /\ Idle /\ cursection = <<>> /\ inicfg_config = <<>>
    BY <1>1, <1>3 DEF Loading
  <2>2. PlainHeader(file[1]) /\ 1 \in 1 .. Len(file) /\ place[1] = 1 /\ 1 <= Len(buffer)
    BY <1>1, <1>2, FileBegins
  <2>3. buffer # <<>>
    <3>1. Len(buffer) # 0
      BY <1>1, <2>2
    <3> QED BY <1>1, <3>1, EmptySeq
  <2>4. OpenFails \/ ReadOverruns \/ ReadFile
    BY <1>3, <2>3 DEF Next, OpenEmpty, parse_config, OpenBracket, HashSign, CloseBracket, TakeByte,
       AddSetting, Malformed, OutOfMemory, OutOfMemoryUnchecked, Parsed, EndsSection, Ordinary,
       Read, inicfg_close
  <2>5. CASE OpenFails \/ ReadOverruns
    BY <1>2, <2>1, <2>5 DEF OpenFails, ReadOverruns, Loading
  <2>6. CASE ReadFile
    <3>1. /\ UNCHANGED <<file, buffer, p, comment, section, token, token_len, cursection, fault>>
          /\ pc' = "parse"
      BY <2>6 DEF ReadFile, parser
    <3>2. ByteIs(place, 1, 0)'
      <4> DEFINE l == file[1]
      <4>1. Len(l.name) \in Nat \ {0} /\ Len(l.text) = Len(l.name) + 2
        BY <2>2, HeaderText
      <4>2. 0 \in 0 .. Len(l.text) /\ 0 # Len(l.text) /\ 0 \notin 1 .. Len(l.name) + 1
        BY <4>1
      <4>3. l' = l
        BY <3>1
      <4> HIDE DEF l
      <4>4. InHeader(l, place[1], 0)
        BY <2>1, <4>2 DEF InHeader
      <4>5. Settled(file, 1 - 1, cursection)
        BY <2>1, NothingSettled
      <4>6. ByteIs(place, 1, 0)
        BY <2>1, <2>2, <4>2, <4>4, <4>5 DEF ByteIs, l
      <4> QED BY <3>1, <4>6 DEF ByteIs, InHeader, InSetting, Idle
    <3>3. Parsing(place)'
      BY <3>2 DEF Parsing
    <3> QED BY <1>2, <2>1, <3>1, <3>3 DEF Loading
  <2> QED BY <2>4, <2>5, <2>6
<1>4. CASE pc = "parse"
  <2>1. Parsing(place) /\ fault = FALSE /\ inicfg_config = <<>>
    BY <1>1, <1>4 DEF Loading
  <2>2. CASE AllRead
    <3>1. p = Len(buffer) + 1 /\ Settled(file, Len(file), cursection)
      BY <2>2 DEF AllRead
    <3>2. ~ (p <= Len(buffer))
      BY <1>1, <3>1
    <3>3. Parsed
      BY <1>4, <3>2 DEF Next, OpenFails, ReadOverruns, OpenEmpty, ReadFile, parse_config, OpenBracket,
         HashSign, CloseBracket, TakeByte, AddSetting, Malformed, OutOfMemory, OutOfMemoryUnchecked,
         EndsSection, Ordinary, Read, inicfg_close
    <3>4. pc' = "opened" /\ inicfg_config' = cursection /\ fault' = FALSE
      BY <2>1, <3>3 DEF Parsed
    <3> QED BY <1>2, <3>1, <3>4 DEF Loading
  <2>3. CASE \E n, o : ByteIs(place, n, o)
    <3>1. PICK n, o : ByteIs(place, n, o)
      BY <2>3
    <3>2. Reading(place, n, o)
      BY <1>1, <1>2, <1>4, <3>1 DEF Reading
    <3>3. Proceeds(place) \/ Fails
      BY <3>2, ByteProceeds
    <3>4. CASE Proceeds(place)
      BY <1>2, <2>1, <3>4 DEF Proceeds, Loading
    <3>5. CASE Fails
      BY <1>2, <2>1, <3>5 DEF Fails, Loading
    <3> QED BY <3>3, <3>4, <3>5
  <2> QED BY <2>1, <2>2, <2>3 DEF Parsing
<1>5. CASE pc \notin {"open", "parse"}
  <2>1. inicfg_close
    BY <1>5 DEF Next, OpenFails, ReadOverruns, OpenEmpty, ReadFile, parse_config, OpenBracket,
       HashSign, CloseBracket, TakeByte, AddSetting, Malformed, OutOfMemory, OutOfMemoryUnchecked, Parsed,
       EndsSection, Ordinary, Read
  <2> QED BY <1>2, <2>1 DEF inicfg_close, Loading
<1> QED BY <1>3, <1>4, <1>5

\* Files stay as they are laid out, and what was read stays loaded.
LEMMA NextLoadInv == LoadInv /\ [Next]_vars => LoadInv'
<1> SUFFICES ASSUME LoadInv, [Next]_vars PROVE LoadInv'
  OBVIOUS
<1>1. IInv /\ IInv'
  BY NextIInv DEF LoadInv
<1>2. UNCHANGED <<file, buffer>>
  BY DEF Next, OpenFails, ReadOverruns, OpenEmpty, ReadFile, parse_config, OpenBracket, HashSign,
     CloseBracket, TakeByte, AddSetting, Malformed, OutOfMemory, OutOfMemoryUnchecked, Parsed,
     parse_failure_exit, inicfg_close, vars
<1>3. (\E newline \in BOOLEAN : buffer = Render(file, newline))'
  BY <1>2 DEF LoadInv
<1>4. ASSUME WellFormed(file)' PROVE (\E place : Loading(place))'
  <2>1. WellFormed(file)
    BY <1>2, <1>4
  <2>2. PICK place : Loading(place)
    BY <2>1 DEF LoadInv
  <2>3. Loading(place)'
    <3>1. CASE Next
      BY <1>1, <1>2, <2>1, <2>2, <3>1, NextLoading
    <3>2. CASE UNCHANGED vars
      BY <2>2, <3>2 DEF vars, parser, Loading, LaidOut, Parsing, AllRead, ByteIs, InHeader,
         InSetting, Idle
    <3> QED BY <3>1, <3>2
  <2> QED BY <2>3
<1> QED BY <1>1, <1>3, <1>4 DEF LoadInv

\* A well-formed file, whatever its headers, settings, remarks, blank lines and repetitions, is
\* loaded so that every lookup finds what it says last; when a call fails, nothing of it is found.
THEOREM LoadedAsSaid == Spec => []LoadsWellFormed
<1>1. LoadInv => LoadsWellFormed
  <2> SUFFICES ASSUME LoadInv, pc = "opened", WellFormed(file), NEW name, NEW key
               PROVE  find_setting(name, key) = IF fault THEN NULL ELSE Says(file, name, key)
    BY DEF LoadsWellFormed
  <2>1. PICK place : Loading(place)
    BY DEF LoadInv
  <2>2. file \in Seq(Line) /\ inicfg_config \in Seq(SectionRecord) /\ fault \in BOOLEAN
    BY ListsAre DEF LoadInv, IInv, TypeOK
  <2>3. CASE fault = TRUE
    <3>1. inicfg_config = <<>>
      BY <2>1, <2>3 DEF Loading
    <3>2. DOMAIN inicfg_config = {}
      BY <3>1
    <3>3. find_setting(name, key) = NULL
      BY <3>2 DEF find_setting
    <3> QED BY <2>3, <3>3
  <2>4. CASE fault = FALSE
    <3>1. Settled(file, Len(file), inicfg_config)
      BY <2>1, <2>4 DEF Loading
    <3> QED BY <2>2, <2>4, <3>1, SettledIsFound
  <2> QED BY <2>2, <2>3, <2>4
<1> QED BY InitLoadInv, NextLoadInv, <1>1, PTL DEF Spec

-----------------------------------------------------------------------------
(* HashMap: tables                                                         *)

Stored == [key : Key \cup {NIL}, value : Value \cup {DEAD}]

\* The tables with c buckets.
Tables(c) ==
  [capacity : {c}, count : Nat, tombstone_count : Nat,
   buckets : [0 .. c - 1 -> Stored],
   next : [(0 .. c - 1) \cup {HEAD, NIL} -> (0 .. c - 1) \cup {NIL}],
   last : (0 .. c - 1) \cup {HEAD}]

Slots(h) == 0 .. h.capacity - 1

\* A bucket without a key is empty or a tombstone.
Typed(h) ==
  /\ h.capacity \in Nat \ {0, 1} /\ h \in Tables(h.capacity)
  /\ \A i \in Slots(h) : h.buckets[i].key = NIL => h.buckets[i] \in {Empty, Tombstone}

\* What the pointer before the n-th bucket of l belongs to.
Before(l, n) == IF n = 1 THEN HEAD ELSE l[n - 1]

\* l lists the buckets in use in the order of their pointers.
Chained(h, l) ==
  /\ l \in Seq(Slots(h))
  /\ \A i, j \in 1 .. Len(l) : l[i] = l[j] => i = j
  /\ \A i \in Slots(h) : h.buckets[i] # Empty <=> \E n \in 1 .. Len(l) : l[n] = i
  /\ \A n \in 1 .. Len(l) : h.next[Before(l, n)] = l[n]
  /\ h.last = Before(l, Len(l) + 1) /\ h.next[h.last] = NIL /\ h.next[NIL] = NIL

\* Nothing but buckets in use lies on the way of a search up to step n.
Passes(h, k, n) == \A j \in 0 .. n - 1 : h.buckets[At(h, k, j)] # Empty

\* Every key is in one bucket, where a search for it gets to.
Reachable(h) ==
  /\ \A i, j \in Slots(h) : h.buckets[i].key = h.buckets[j].key /\ h.buckets[i].key # NIL => i = j
  /\ \A i \in Slots(h) : h.buckets[i].key # NIL =>
       \E n \in Slots(h) : At(h, h.buckets[i].key, n) = i /\ Passes(h, h.buckets[i].key, n)

Sound(h, l) == Typed(h) /\ Chained(h, l) /\ Reachable(h)

Absent(h, k) == \A i \in Slots(h) : h.buckets[i].key # k

-----------------------------------------------------------------------------
(* Searches                                                                *)

\* The steps of a search visit every bucket once.
LEMMA StepsVisitAll ==
  ASSUME NEW h, h.capacity \in Nat \ {0}, NEW k \in Key
  PROVE  /\ \A n \in Slots(h) : At(h, k, n) \in Slots(h)
         /\ \A i \in Slots(h) : \E n \in Slots(h) : At(h, k, n) = i
         /\ \A n, j \in Slots(h) : At(h, k, n) = At(h, k, j) => n = j
<1> DEFINE c == h.capacity
           r == Hash[k] % c
<1>1. c \in Nat \ {0} /\ r \in 0 .. c - 1
  <2>1. Hash[k] \in Nat
    BY HashAssumption
  <2> HIDE DEF c
  <2>2. c \in Nat \ {0} => r \in 0 .. c - 1
    BY <2>1
  <2> QED BY <2>2 DEF c
<1>2. r = Hash[k] % h.capacity /\ h.capacity = c /\ Slots(h) = 0 .. c - 1
  BY DEF Slots
<1> HIDE DEF c, r
<1>3. \A n \in Int : At(h, k, n) = IF r + n < c THEN r + n ELSE r + n - c
  BY <1>1, <1>2 DEF At
<1>4. \A n \in 0 .. c - 1 : At(h, k, n) \in 0 .. c - 1
  BY <1>1, <1>3
<1>5. ASSUME NEW i \in 0 .. c - 1 PROVE \E n \in 0 .. c - 1 : At(h, k, n) = i
  <2> DEFINE n == IF i >= r THEN i - r ELSE i - r + c
  <2>1. n \in 0 .. c - 1 /\ (IF r + n < c THEN r + n ELSE r + n - c) = i
    BY <1>1
  <2> QED BY <1>3, <2>1
<1>6. \A n, j \in 0 .. c - 1 : At(h, k, n) = At(h, k, j) => n = j
  BY <1>1, <1>3
<1> QED BY <1>2, <1>4, <1>5, <1>6

\* A search ends at the first bucket that stops it.
LEMMA ProbeStops ==
  ASSUME NEW h, h.capacity \in Nat \ {0}, NEW k \in Key, NEW stops, NEW i \in Slots(h), i \in stops
  PROVE  \E n \in Slots(h) : /\ At(h, k, n) \in stops /\ Probe(h, k, stops) = {At(h, k, n)}
                             /\ \A j \in 0 .. n - 1 : At(h, k, j) \notin stops
<1> DEFINE steps == {n \in 0 .. h.capacity - 1 : At(h, k, n) \in stops}
<1>1. steps \in SUBSET Nat /\ steps # {}
  BY StepsVisitAll DEF Slots
<1> DEFINE n == Min(steps)
<1>2. n \in steps /\ \A j \in steps : n <= j
  BY <1>1, MinIsLeast
<1>3. Probe(h, k, stops) = {At(h, k, n)}
  BY <1>1 DEF Probe
<1>4. n \in Slots(h) /\ At(h, k, n) \in stops
  BY <1>2 DEF Slots
<1>5. ASSUME NEW j \in 0 .. n - 1, At(h, k, j) \in stops PROVE FALSE
  <2>1. j \in steps
    BY <1>4, <1>5 DEF Slots
  <2> QED BY <1>2, <1>4, <2>1 DEF Slots
<1> QED BY <1>3, <1>4, <1>5

\* A search for a key that is in the table ends at its bucket.
LEMMA FindsKey ==
  ASSUME NEW h, Typed(h), Reachable(h), NEW i \in Slots(h), h.buckets[i].key \in Key
  PROVE  find_entry(h, h.buckets[i].key) = {i}
<1> DEFINE k == h.buckets[i].key
           stops == {j \in DOMAIN h.buckets : h.buckets[j] = Empty \/ h.buckets[j].key = k}
<1>1. h.capacity \in Nat \ {0} /\ DOMAIN h.buckets = Slots(h) /\ k \in Key /\ k # NIL
  BY KeyAssumption DEF Typed, Tables, Slots
<1>2. PICK n \in Slots(h) : At(h, k, n) \in stops /\ Probe(h, k, stops) = {At(h, k, n)}
                             /\ \A j \in 0 .. n - 1 : At(h, k, j) \notin stops
  BY <1>1, ProbeStops
<1>3. PICK t \in Slots(h) : At(h, k, t) = i /\ Passes(h, k, t)
  BY <1>1 DEF Reachable
<1>4. n <= t
  BY <1>1, <1>2, <1>3 DEF Slots
<1>5. h.buckets[At(h, k, n)] # Empty
  <2>1. CASE n = t
    BY <1>1, <1>3, <2>1 DEF Empty, Bucket
  <2>2. CASE n # t
    BY <1>1, <1>3, <1>4, <2>2 DEF Passes, Slots
  <2> QED BY <2>1, <2>2
<1>6. At(h, k, n) = i
  BY <1>1, <1>2, <1>5 DEF Reachable
<1> QED BY <1>2, <1>6 DEF find_entry

\* One for another key ends at an empty bucket, when there is one.
LEMMA FindsEmpty ==
  ASSUME NEW h, Typed(h), NEW k \in Key, Absent(h, k),
         NEW i \in Slots(h), h.buckets[i] = Empty
  PROVE  \E n \in Slots(h) : /\ find_entry(h, k) = {At(h, k, n)}
                             /\ h.buckets[At(h, k, n)] = Empty /\ Passes(h, k, n)
<1> DEFINE stops == {j \in DOMAIN h.buckets : h.buckets[j] = Empty \/ h.buckets[j].key = k}
<1>1. h.capacity \in Nat \ {0} /\ DOMAIN h.buckets = Slots(h)
  BY DEF Typed, Tables, Slots
<1>2. stops = {j \in Slots(h) : h.buckets[j] = Empty}
  BY <1>1 DEF Absent
<1>3. PICK n \in Slots(h) : At(h, k, n) \in stops /\ Probe(h, k, stops) = {At(h, k, n)}
                             /\ \A j \in 0 .. n - 1 : At(h, k, j) \notin stops
  BY <1>1, <1>2, ProbeStops
<1>4. \A j \in 0 .. n - 1 : At(h, k, j) \in Slots(h)
  <2>1. n \in 0 .. h.capacity - 1 /\ h.capacity \in Nat \ {0}
    BY <1>1, <1>3 DEF Slots
  <2>2. \A j \in 0 .. n - 1 : j \in Slots(h)
    BY <2>1 DEF Slots
  <2> QED BY <1>1, <2>2, StepsVisitAll
<1> QED BY <1>2, <1>3, <1>4 DEF find_entry, Passes

-----------------------------------------------------------------------------
(* What is kept of a sequence without its tombstones                       *)

\* s[n] is what the first n elements of b leave.
Kept(s, b) ==
  /\ s[0] = <<>>
  /\ \A n \in 0 .. Len(b) : s[n] \in Seq(Stored)
  /\ \A n \in 0 .. Len(b) - 1 :
       s[n + 1] = IF b[n + 1].key = NIL THEN s[n] ELSE Append(s[n], b[n + 1])

\* The n-th of them: what has a key in b is in s[n], at the place it got when it came.
Numbered(s, b, n) ==
  /\ \A j \in 1 .. n : b[j].key # NIL =>
       Len(s[j]) \in 1 .. Len(s[n]) /\ s[n][Len(s[j])] = b[j]
  /\ \A x \in 1 .. Len(s[n]) : \E j \in 1 .. n : b[j].key # NIL /\ Len(s[j]) = x

\* Equal sequences leave the same.
LEMMA KeptAlike ==
  ASSUME NEW b \in Seq(Stored), NEW d \in Seq(Stored), NEW s, NEW t, Kept(s, b), Kept(t, d),
         NEW N \in Nat, N <= Len(b), N <= Len(d), \A n \in 1 .. N : b[n] = d[n]
  PROVE  \A n \in 0 .. N : s[n] = t[n]
<1> DEFINE S == {n \in 0 .. N : s[n] = t[n]}
<1>1. 0 \in S
  BY DEF Kept
<1>2. ASSUME NEW n \in 0 .. N - 1, n \in S PROVE n + 1 \in S
  <2>1. n \in 0 .. Len(b) - 1 /\ n \in 0 .. Len(d) - 1 /\ n + 1 \in 1 .. N /\ n + 1 \in 0 .. N
    OBVIOUS
  <2>2. s[n] = t[n] /\ b[n + 1] = d[n + 1]
    BY <1>2, <2>1
  <2> QED BY <2>1, <2>2 DEF Kept
<1> HIDE DEF S
<1>3. 0 .. N \subseteq S
  BY <1>1, <1>2, IntervalInduction
<1> QED BY <1>3 DEF S

LEMMA AppendKeeps ==
  ASSUME NEW S, NEW s \in Seq(S), NEW x \in S
  PROVE  /\ Append(s, x) \in Seq(S) /\ Len(Append(s, x)) = Len(s) + 1
         /\ \A i \in 1 .. Len(s) : Append(s, x)[i] = s[i]
         /\ Append(s, x)[Len(s) + 1] = x
OBVIOUS

LEMMA KeptIsNumbered ==
  ASSUME NEW b \in Seq(Stored), NEW s, Kept(s, b)
  PROVE  \A n \in 0 .. Len(b) : Numbered(s, b, n)
<1> DEFINE S == {n \in 0 .. Len(b) : Numbered(s, b, n)}
<1>1. 0 \in S
  BY DEF Kept, Numbered
<1>2. ASSUME NEW n \in 0 .. Len(b) - 1, n \in S PROVE n + 1 \in S
  <2>1. /\ n + 1 \in 1 .. Len(b) /\ n + 1 \in 0 .. Len(b) /\ n \in 0 .. Len(b) /\ n \in Nat
        /\ b[n + 1] \in Stored
    BY ElementOfSeq
  <2>2. Numbered(s, b, n) /\ s[n] \in Seq(Stored)
    BY <1>2, <2>1 DEF Kept
  <2>3. CASE b[n + 1].key = NIL
    <3>1. s[n + 1] = s[n]
      BY <2>3 DEF Kept
    <3>2. ASSUME NEW j \in 1 .. n + 1, b[j].key # NIL PROVE j \in 1 .. n
      BY <2>1, <2>3, <3>2
    <3>3. \A j \in 1 .. n : j \in 1 .. n + 1
      OBVIOUS
    <3>4. Numbered(s, b, n + 1)
      BY <2>2, <3>1, <3>2, <3>3 DEF Numbered
    <3> QED BY <2>1, <3>4
  <2>4. CASE b[n + 1].key # NIL
    <3>1. s[n + 1] = Append(s[n], b[n + 1])
      BY <2>4 DEF Kept
    <3>2. /\ Len(s[n]) \in Nat /\ Len(s[n + 1]) = Len(s[n]) + 1
          /\ \A i \in 1 .. Len(s[n]) : s[n + 1][i] = s[n][i]
          /\ s[n + 1][Len(s[n]) + 1] = b[n + 1]
      BY <2>1, <2>2, <3>1, AppendKeeps
    <3>3. ASSUME NEW j \in 1 .. n + 1, b[j].key # NIL
          PROVE  Len(s[j]) \in 1 .. Len(s[n + 1]) /\ s[n + 1][Len(s[j])] = b[j]
      <4>1. CASE j = n + 1
        BY <3>2, <4>1
      <4>2. CASE j \in 1 .. n
        <5>1. Len(s[j]) \in 1 .. Len(s[n]) /\ s[n][Len(s[j])] = b[j]
          BY <2>2, <3>3, <4>2 DEF Numbered
        <5> QED BY <3>2, <5>1
      <4> QED BY <2>1, <4>1, <4>2
    <3>4. ASSUME NEW x \in 1 .. Len(s[n + 1])
          PROVE  \E j \in 1 .. n + 1 : b[j].key # NIL /\ Len(s[j]) = x
      <4>1. CASE x = Len(s[n]) + 1
        <5>1. n + 1 \in 1 .. n + 1
          BY <2>1
        <5> QED BY <2>4, <3>2, <4>1, <5>1
      <4>2. CASE x \in 1 .. Len(s[n])
        <5>1. PICK j \in 1 .. n : b[j].key # NIL /\ Len(s[j]) = x
          BY <2>2, <4>2 DEF Numbered
        <5>2. j \in 1 .. n + 1
          BY <2>1
        <5> QED BY <5>1, <5>2
      <4> QED BY <3>2, <4>1, <4>2
    <3>5. Numbered(s, b, n + 1)
      BY <3>3, <3>4 DEF Numbered
    <3> QED BY <2>1, <3>5
  <2> QED BY <2>3, <2>4
<1> HIDE DEF S
<1>3. 0 .. Len(b) \subseteq S
  <2>1. Len(b) \in Nat
    OBVIOUS
  <2> QED BY <1>1, <1>2, <2>1, IntervalInduction
<1> QED BY <1>3 DEF S

\* One more element is kept, if it has a key.
LEMMA KeptLonger ==
  ASSUME NEW b \in Seq(Stored), NEW s, Kept(s, b), NEW x \in Stored, x.key # NIL,
         NEW t, Kept(t, Append(b, x))
  PROVE  t[Len(b) + 1] = Append(s[Len(b)], x)
<1> DEFINE d == Append(b, x)
<1>1. /\ d \in Seq(Stored) /\ Len(d) = Len(b) + 1 /\ Len(b) \in Nat
      /\ \A i \in 1 .. Len(b) : b[i] = d[i]
      /\ d[Len(b) + 1] = x
  BY AppendKeeps
<1>2. Kept(t, d)
  OBVIOUS
<1> HIDE DEF d
<1>3. \A n \in 0 .. Len(b) : s[n] = t[n]
  BY <1>1, <1>2, KeptAlike
<1>4. Len(b) \in 0 .. Len(d) - 1 /\ Len(b) \in 0 .. Len(b)
  BY <1>1
<1>5. t[Len(b) + 1] = Append(t[Len(b)], x)
  BY <1>1, <1>2, <1>4 DEF Kept
<1> QED BY <1>3, <1>4, <1>5

Put(s, q, x) == [s EXCEPT ![q] = x]

LEMMA ExceptThenAppend ==
  ASSUME NEW S, NEW s \in Seq(S), NEW x \in S, NEW y \in S, NEW q \in 1 .. Len(s)
  PROVE  Put(Append(s, y), q, x) = Append(Put(s, q, x), y)
<1> DEFINE a == Append(s, y)
           u == [a EXCEPT ![q] = x]
           v == Append([s EXCEPT ![q] = x], y)
<1>1. Len(s) \in Nat
  OBVIOUS
<1>2. /\ a \in Seq(S) /\ Len(a) = Len(s) + 1
      /\ \A i \in 1 .. Len(s) : a[i] = s[i]
      /\ a[Len(s) + 1] = y
  BY AppendKeeps
<1> HIDE DEF a
<1>3. u \in Seq(S) /\ Len(u) = Len(s) + 1
      /\ \A i \in 1 .. Len(s) + 1 : u[i] = IF i = q THEN x ELSE a[i]
  <2>1. q \in 1 .. Len(a)
    BY <1>1, <1>2
  <2> QED BY <1>2, <2>1, ExceptSeq
<1>4. /\ [s EXCEPT ![q] = x] \in Seq(S) /\ Len([s EXCEPT ![q] = x]) = Len(s)
      /\ \A i \in 1 .. Len(s) : [s EXCEPT ![q] = x][i] = IF i = q THEN x ELSE s[i]
  BY ExceptSeq
<1>5. v \in Seq(S) /\ Len(v) = Len(s) + 1 /\ v[Len(s) + 1] = y
      /\ \A i \in 1 .. Len(s) : v[i] = [s EXCEPT ![q] = x][i]
  BY <1>4, AppendKeeps
<1> HIDE DEF u, v
<1>6. ASSUME NEW i \in 1 .. Len(s) + 1 PROVE u[i] = v[i]
  <2>1. CASE i = Len(s) + 1
    BY <1>1, <1>2, <1>3, <1>5, <2>1
  <2>2. CASE i \in 1 .. Len(s)
    BY <1>2, <1>3, <1>4, <1>5, <2>2
  <2> QED BY <1>1, <2>1, <2>2
<1>7. u = v
  BY <1>3, <1>5, <1>6, SeqEqual
<1> QED BY <1>7 DEF u, v, a, Put

LEMMA ExceptLast ==
  ASSUME NEW S, NEW s \in Seq(S), NEW x \in S, NEW y \in S
  PROVE  Put(Append(s, y), Len(s) + 1, x) = Append(s, x)
<1> DEFINE q == Len(s) + 1
           a == Append(s, y)
           u == [a EXCEPT ![q] = x]
           v == Append(s, x)
<1>1. Len(s) \in Nat
  OBVIOUS
<1>2. /\ a \in Seq(S) /\ Len(a) = Len(s) + 1
      /\ \A i \in 1 .. Len(s) : a[i] = s[i]
  BY AppendKeeps
<1> HIDE DEF a
<1>3. u \in Seq(S) /\ Len(u) = Len(s) + 1
      /\ \A i \in 1 .. Len(s) + 1 : u[i] = IF i = q THEN x ELSE a[i]
  <2>1. q \in 1 .. Len(a)
    BY <1>1, <1>2
  <2> QED BY <1>2, <2>1, ExceptSeq
<1>4. /\ v \in Seq(S) /\ Len(v) = Len(s) + 1
      /\ \A i \in 1 .. Len(s) : v[i] = s[i]
      /\ v[Len(s) + 1] = x
  BY AppendKeeps
<1> HIDE DEF u, v
<1>5. ASSUME NEW i \in 1 .. Len(s) + 1 PROVE u[i] = v[i]
  <2>1. CASE i = Len(s) + 1
    BY <1>1, <1>3, <1>4, <2>1
  <2>2. CASE i \in 1 .. Len(s)
    BY <1>2, <1>3, <1>4, <2>2
  <2> QED BY <1>1, <2>1, <2>2
<1>6. u = v
  BY <1>3, <1>4, <1>5, SeqEqual
<1> QED BY <1>6 DEF u, v, a, Put

\* RemoveAt, place by place.
LEMMA RemoveAtPlaces ==
  ASSUME NEW S, NEW s \in Seq(S), NEW q \in 1 .. Len(s)
  PROVE  /\ RemoveAt(s, q) \in Seq(S) /\ Len(RemoveAt(s, q)) = Len(s) - 1
         /\ \A i \in 1 .. Len(s) - 1 : RemoveAt(s, q)[i] = IF i < q THEN s[i] ELSE s[i + 1]
<1> DEFINE u == SubSeq(s, 1, q - 1)
           v == SubSeq(s, q + 1, Len(s))
<1>1. Len(s) \in Nat /\ q \in Nat
  OBVIOUS
<1>2. u \in Seq(S) /\ Len(u) = q - 1 /\ \A i \in 1 .. q - 1 : u[i] = s[i]
  <2>1. \A i \in 1 .. q - 1 : s[i] \in S
    BY <1>1, ElementOfSeq
  <2>2. u \in Seq(S) /\ Len(u) = (IF 1 <= q - 1 THEN q - 1 - 1 + 1 ELSE 0)
        /\ \A i \in 1 .. q - 1 - 1 + 1 : u[i] = s[1 + i - 1]
    BY <1>1, <2>1, SubSeqProperties
  <2> HIDE DEF u
  <2>3. \A i \in 1 .. q - 1 : 1 + i - 1 = i /\ i \in 1 .. q - 1 - 1 + 1
    BY <1>1
  <2>4. Len(u) = q - 1
    BY <1>1, <2>2
  <2> QED BY <2>2, <2>3, <2>4
<1>3. v \in Seq(S) /\ Len(v) = Len(s) - q /\ \A i \in 1 .. Len(s) - q : v[i] = s[q + i]
  <2>1. \A i \in q + 1 .. Len(s) : s[i] \in S
    BY <1>1, ElementOfSeq
  <2>2. v \in Seq(S) /\ Len(v) = (IF q + 1 <= Len(s) THEN Len(s) - (q + 1) + 1 ELSE 0)
        /\ \A i \in 1 .. Len(s) - (q + 1) + 1 : v[i] = s[(q + 1) + i - 1]
    <3>1. q + 1 \in Int /\ Len(s) \in Int
      BY <1>1
    <3> QED BY <2>1, <3>1, SubSeqProperties
  <2> HIDE DEF v
  <2>3. \A i \in 1 .. Len(s) - q : (q + 1) + i - 1 = q + i /\ i \in 1 .. Len(s) - (q + 1) + 1
    BY <1>1
  <2>4. Len(v) = Len(s) - q
    BY <1>1, <2>2
  <2> QED BY <2>2, <2>3, <2>4
<1>4. RemoveAt(s, q) = u \o v
  BY DEF RemoveAt
<1> HIDE DEF u, v
<1>5. /\ u \o v \in Seq(S) /\ Len(u \o v) = Len(u) + Len(v)
      /\ \A i \in 1 .. Len(u) + Len(v) :
           (u \o v)[i] = IF i <= Len(u) THEN u[i] ELSE v[i - Len(u)]
  BY <1>2, <1>3, ConcatProperties
<1>6. ASSUME NEW i \in 1 .. Len(s) - 1
      PROVE  (u \o v)[i] = IF i < q THEN s[i] ELSE s[i + 1]
  <2>1. CASE i < q
    BY <1>1, <1>2, <1>3, <1>5, <2>1
  <2>2. CASE ~ (i < q)
    <3>1. i - (q - 1) \in 1 .. Len(s) - q /\ q + (i - (q - 1)) = i + 1
      BY <1>1, <2>2
    <3>2. v[i - (q - 1)] = s[i + 1]
      BY <1>3, <3>1
    <3> QED BY <1>1, <1>2, <1>3, <1>5, <2>2, <3>2
  <2> QED BY <2>1, <2>2
<1> QED BY <1>1, <1>2, <1>3, <1>4, <1>5, <1>6

LEMMA RemoveThenAppend ==
  ASSUME NEW S, NEW s \in Seq(S), NEW y \in S, NEW q \in 1 .. Len(s)
  PROVE  RemoveAt(Append(s, y), q) = Append(RemoveAt(s, q), y)
<1> DEFINE a == Append(s, y)
           r == RemoveAt(s, q)
           u == RemoveAt(a, q)
           v == Append(r, y)
<1>1. Len(s) \in Nat /\ q \in Nat
  OBVIOUS
<1>2. /\ a \in Seq(S) /\ Len(a) = Len(s) + 1
      /\ \A i \in 1 .. Len(s) : a[i] = s[i]
      /\ a[Len(s) + 1] = y
  BY AppendKeeps
<1>3. /\ r \in Seq(S) /\ Len(r) = Len(s) - 1
      /\ \A i \in 1 .. Len(s) - 1 : r[i] = IF i < q THEN s[i] ELSE s[i + 1]
  BY RemoveAtPlaces
<1> HIDE DEF a, r
<1>4. /\ u \in Seq(S) /\ Len(u) = Len(a) - 1
      /\ \A i \in 1 .. Len(a) - 1 : u[i] = IF i < q THEN a[i] ELSE a[i + 1]
  <2>1. q \in 1 .. Len(a)
    BY <1>1, <1>2
  <2> QED BY <1>2, <2>1, RemoveAtPlaces
<1>5. /\ v \in Seq(S) /\ Len(v) = Len(r) + 1
      /\ \A i \in 1 .. Len(r) : v[i] = r[i]
      /\ v[Len(r) + 1] = y
  BY <1>3, AppendKeeps
<1> HIDE DEF u, v
<1>6. Len(u) = Len(s) /\ Len(v) = Len(s)
  BY <1>1, <1>2, <1>3, <1>4, <1>5
<1>7. ASSUME NEW i \in 1 .. Len(s) PROVE u[i] = v[i]
  <2>1. CASE i = Len(s)
    BY <1>1, <1>2, <1>3, <1>4, <1>5, <2>1
  <2>2. CASE i \in 1 .. Len(s) - 1
    <3>1. i + 1 \in 1 .. Len(s) /\ i \in 1 .. Len(s)
      BY <1>1, <2>2
    <3> QED BY <1>2, <1>3, <1>4, <1>5, <2>2, <3>1
  <2> QED BY <1>1, <2>1, <2>2
<1>8. u = v
  BY <1>4, <1>5, <1>6, <1>7, SeqEqual
<1> QED BY <1>8 DEF u, v, a, r

LEMMA RemoveLast ==
  ASSUME NEW S, NEW s \in Seq(S), NEW y \in S
  PROVE  RemoveAt(Append(s, y), Len(s) + 1) = s
<1> DEFINE a == Append(s, y)
           q == Len(s) + 1
           u == RemoveAt(a, q)
<1>1. Len(s) \in Nat
  OBVIOUS
<1>2. /\ a \in Seq(S) /\ Len(a) = Len(s) + 1
      /\ \A i \in 1 .. Len(s) : a[i] = s[i]
  BY AppendKeeps
<1> HIDE DEF a
<1>3. /\ u \in Seq(S) /\ Len(u) = Len(a) - 1
      /\ \A i \in 1 .. Len(a) - 1 : u[i] = IF i < q THEN a[i] ELSE a[i + 1]
  <2>1. q \in 1 .. Len(a)
    BY <1>1, <1>2
  <2> QED BY <1>2, <2>1, RemoveAtPlaces
<1> HIDE DEF u
<1>4. Len(u) = Len(s) /\ \A i \in 1 .. Len(s) : u[i] = s[i]
  BY <1>1, <1>2, <1>3
<1>5. u = s
  BY <1>3, <1>4, SeqEqual
<1> QED BY <1>5 DEF u, a

\* Where the element pos of b is among those that are kept.
LEMMA KeptAt ==
  ASSUME NEW b \in Seq(Stored), NEW s, Kept(s, b), NEW pos \in 1 .. Len(b), b[pos].key # NIL
  PROVE  \A n \in pos .. Len(b) : Len(s[pos]) \in 1 .. Len(s[n]) /\ s[n][Len(s[pos])] = b[pos]
<1> TAKE n \in pos .. Len(b)
<1>1. n \in 0 .. Len(b) /\ pos \in 1 .. n
  OBVIOUS
<1>2. Numbered(s, b, n)
  BY <1>1, KeptIsNumbered
<1> QED BY <1>1, <1>2 DEF Numbered

\* What is replaced in b is replaced in what is kept of it.
LEMMA KeptUpdated ==
  ASSUME NEW b \in Seq(Stored), NEW s, Kept(s, b), NEW pos \in 1 .. Len(b), b[pos].key # NIL,
         NEW x \in Stored, x.key # NIL, NEW t, Kept(t, [b EXCEPT ![pos] = x])
  PROVE  t[Len(b)] = [s[Len(b)] EXCEPT ![Len(s[pos])] = x]
<1> DEFINE d == [b EXCEPT ![pos] = x]
           q == Len(s[pos])
           L == Len(b)
           S == {n \in 0 .. L : IF n < pos THEN t[n] = s[n] ELSE t[n] = Put(s[n], q, x)}
<1>1. d \in Seq(Stored) /\ Len(d) = L /\ \A j \in 1 .. L : d[j] = IF j = pos THEN x ELSE b[j]
  BY ExceptSeq
<1>2. L \in Nat /\ pos \in 1 .. L /\ pos \in Nat /\ Kept(t, d)
  OBVIOUS
<1> HIDE DEF d
<1>3. s[0] = <<>> /\ t[0] = <<>> /\ \A n \in 0 .. L : s[n] \in Seq(Stored)
  BY DEF Kept, d
<1>4. 0 \in S
  BY <1>2, <1>3
<1>5. ASSUME NEW n \in 0 .. L - 1, n \in S PROVE n + 1 \in S
  <2>1. /\ n + 1 \in 0 .. L /\ n + 1 \in 1 .. L /\ n \in 0 .. L /\ n \in Nat
        /\ s[n] \in Seq(Stored) /\ b[n + 1] \in Stored
    BY <1>2, <1>3, ElementOfSeq
  <2>2. /\ s[n + 1] = IF b[n + 1].key = NIL THEN s[n] ELSE Append(s[n], b[n + 1])
        /\ t[n + 1] = IF d[n + 1].key = NIL THEN t[n] ELSE Append(t[n], d[n + 1])
    BY <1>1, <1>2, <1>5 DEF Kept
  <2>3. CASE n + 1 < pos
    <3>1. t[n] = s[n] /\ d[n + 1] = b[n + 1]
      BY <1>1, <1>2, <1>5, <2>1, <2>3
    <3> QED BY <2>1, <2>2, <2>3, <3>1
  <2>4. CASE n + 1 = pos
    <3>1. t[n] = s[n] /\ d[n + 1] = x /\ ~ (n + 1 < pos)
      BY <1>1, <1>2, <1>5, <2>1, <2>4
    <3>2. s[n + 1] = Append(s[n], b[n + 1]) /\ t[n + 1] = Append(s[n], x)
      BY <2>2, <2>4, <3>1
    <3>3. q = Len(s[n]) + 1
      BY <2>1, <2>4, <3>2, AppendKeeps
    <3>4. Put(Append(s[n], b[n + 1]), q, x) = Append(s[n], x)
      BY <2>1, <3>3, ExceptLast
    <3> HIDE DEF q
    <3> QED BY <2>1, <3>1, <3>2, <3>4
  <2>5. CASE pos < n + 1
    <3>1. t[n] = Put(s[n], q, x) /\ d[n + 1] = b[n + 1] /\ ~ (n + 1 < pos)
      BY <1>1, <1>2, <1>5, <2>1, <2>5
    <3>2. n \in pos .. L
      BY <1>2, <2>1, <2>5
    <3>3. q \in 1 .. Len(s[n])
      BY <3>2, KeptAt
    <3>4. ASSUME NEW u \in Seq(Stored), NEW y \in Stored, NEW c \in 1 .. Len(u)
          PROVE  Put(Append(u, y), c, x) = Append(Put(u, c, x), y)
      BY ExceptThenAppend
    <3> HIDE DEF q
    <3>5. Put(Append(s[n], b[n + 1]), q, x) = Append(Put(s[n], q, x), b[n + 1])
      BY <2>1, <3>3, <3>4
    <3> QED BY <2>1, <2>2, <3>1, <3>5
  <2> QED BY <1>2, <2>1, <2>3, <2>4, <2>5
<1> HIDE DEF S
<1>6. 0 .. L \subseteq S
  BY <1>2, <1>4, <1>5, IntervalInduction
<1>7. L \in S /\ ~ (L < pos)
  BY <1>2, <1>6
<1> QED BY <1>7 DEF S, Put

\* What is buried in b is removed from what is kept of it.
LEMMA KeptBuried ==
  ASSUME NEW b \in Seq(Stored), NEW s, Kept(s, b), NEW pos \in 1 .. Len(b), b[pos].key # NIL,
         NEW x \in Stored, x.key = NIL, NEW t, Kept(t, [b EXCEPT ![pos] = x])
  PROVE  t[Len(b)] = RemoveAt(s[Len(b)], Len(s[pos]))
<1> DEFINE d == [b EXCEPT ![pos] = x]
           q == Len(s[pos])
           L == Len(b)
           S == {n \in 0 .. L : IF n < pos THEN t[n] = s[n] ELSE t[n] = RemoveAt(s[n], q)}
<1>1. d \in Seq(Stored) /\ Len(d) = L /\ \A j \in 1 .. L : d[j] = IF j = pos THEN x ELSE b[j]
  BY ExceptSeq
<1>2. L \in Nat /\ pos \in 1 .. L /\ pos \in Nat /\ Kept(t, d)
  OBVIOUS
<1> HIDE DEF d
<1>3. s[0] = <<>> /\ t[0] = <<>> /\ \A n \in 0 .. L : s[n] \in Seq(Stored)
  BY DEF Kept, d
<1>4. 0 \in S
  BY <1>2, <1>3
<1>5. ASSUME NEW n \in 0 .. L - 1, n \in S PROVE n + 1 \in S
  <2>1. /\ n + 1 \in 0 .. L /\ n + 1 \in 1 .. L /\ n \in 0 .. L /\ n \in Nat
        /\ s[n] \in Seq(Stored) /\ b[n + 1] \in Stored
    BY <1>2, <1>3, ElementOfSeq
  <2>2. /\ s[n + 1] = IF b[n + 1].key = NIL THEN s[n] ELSE Append(s[n], b[n + 1])
        /\ t[n + 1] = IF d[n + 1].key = NIL THEN t[n] ELSE Append(t[n], d[n + 1])
    BY <1>1, <1>2, <1>5 DEF Kept
  <2>3. CASE n + 1 < pos
    <3>1. t[n] = s[n] /\ d[n + 1] = b[n + 1]
      BY <1>1, <1>2, <1>5, <2>1, <2>3
    <3> QED BY <2>1, <2>2, <2>3, <3>1
  <2>4. CASE n + 1 = pos
    <3>1. t[n] = s[n] /\ d[n + 1] = x /\ ~ (n + 1 < pos)
      BY <1>1, <1>2, <1>5, <2>1, <2>4
    <3>2. s[n + 1] = Append(s[n], b[n + 1]) /\ t[n + 1] = s[n]
      BY <2>2, <2>4, <3>1
    <3>3. q = Len(s[n]) + 1
      BY <2>1, <2>4, <3>2, AppendKeeps
    <3>4. RemoveAt(Append(s[n], b[n + 1]), q) = s[n]
      BY <2>1, <3>3, RemoveLast
    <3> HIDE DEF q
    <3> QED BY <2>1, <3>1, <3>2, <3>4
  <2>5. CASE pos < n + 1
    <3>1. t[n] = RemoveAt(s[n], q) /\ d[n + 1] = b[n + 1] /\ ~ (n + 1 < pos)
      BY <1>1, <1>2, <1>5, <2>1, <2>5
    <3>2. n \in pos .. L
      BY <1>2, <2>1, <2>5
    <3>3. q \in 1 .. Len(s[n])
      BY <3>2, KeptAt
    <3>4. RemoveAt(Append(s[n], b[n + 1]), q) = Append(RemoveAt(s[n], q), b[n + 1])
      BY <2>1, <3>3, RemoveThenAppend
    <3> HIDE DEF q
    <3> QED BY <2>1, <2>2, <3>1, <3>4
  <2> QED BY <1>2, <2>1, <2>3, <2>4, <2>5
<1> HIDE DEF S
<1>6. 0 .. L \subseteq S
  BY <1>2, <1>4, <1>5, IntervalInduction
<1>7. L \in S /\ ~ (L < pos)
  BY <1>2, <1>6
<1> QED BY <1>7 DEF S

\* The place of a key among the entries, 0 when it has none.
Where(es, k) == SelectInSeq(es, LAMBDA e : e.key = k)

LEMMA PlaceOfKey ==
  ASSUME NEW es \in Seq(Stored), NEW k, NEW q \in 1 .. Len(es), es[q].key = k,
         \A i \in 1 .. Len(es) : es[i].key = k => i = q
  PROVE  Where(es, k) = q
<1> DEFINE I == {i \in 1 .. Len(es) : es[i].key = k}
<1>1. I = {q} /\ I # {} /\ I \in SUBSET Nat
  OBVIOUS
<1>2. Min(I) \in I
  BY <1>1, MinIsLeast
<1>3. Where(es, k) = Min(I)
  BY <1>1 DEF SelectInSeq, Where
<1> QED BY <1>1, <1>2, <1>3

LEMMA NoPlaceOfKey ==
  ASSUME NEW es \in Seq(Stored), NEW k, \A i \in 1 .. Len(es) : es[i].key # k
  PROVE  Where(es, k) = 0
BY DEF SelectInSeq, Where

-----------------------------------------------------------------------------
(* The list and the entries of a table                                     *)

\* A list without repetitions is no longer than the table, and leaves a bucket out
\* when it is shorter.
LEMMA ListFits ==
  ASSUME NEW c \in Nat, NEW l \in Seq(0 .. c - 1),
         \A i, j \in 1 .. Len(l) : l[i] = l[j] => i = j
  PROVE  /\ Len(l) <= c
         /\ Len(l) < c => \E i \in 0 .. c - 1 : \A n \in 1 .. Len(l) : l[n] # i
<1> DEFINE I == 1 .. Len(l)
           T == 0 .. c - 1
<1>1. Len(l) \in Nat /\ l \in [I -> T]
  BY LenProperties
<1>2. /\ IsFiniteSet(I) /\ Cardinality(I) = Len(l)
      /\ IsFiniteSet(T) /\ Cardinality(T) = c
  <2>1. IsFiniteSet(I) /\ Cardinality(I) = IF 1 > Len(l) THEN 0 ELSE Len(l) - 1 + 1
    BY <1>1, FS_Interval
  <2>2. IsFiniteSet(T) /\ Cardinality(T) = IF 0 > c - 1 THEN 0 ELSE c - 1 - 0 + 1
    BY FS_Interval
  <2> HIDE DEF I, T
  <2> QED BY <1>1, <2>1, <2>2
<1> HIDE DEF T
<1>3. l \in Injection(I, T)
  BY <1>1 DEF Injection, IsInjective
<1> HIDE DEF I
<1>4. Cardinality(I) <= Cardinality(T) /\ (Cardinality(I) = Cardinality(T) <=> l \in Surjection(I, T))
  BY <1>2, <1>3, FS_Injection
<1>5. (\A i \in T : \E n \in I : l[n] = i) => l \in Surjection(I, T)
  BY <1>1 DEF Surjection
<1> QED BY <1>1, <1>2, <1>4, <1>5 DEF I, T

Contents(h, l) == [n \in 1 .. Len(l) |-> h.buckets[l[n]]]

\* A table that has room has an empty bucket.
LEMMA RoomIsEmpty ==
  ASSUME NEW h, NEW l, Typed(h), Chained(h, l)
  PROVE  /\ Len(l) <= h.capacity
         /\ Len(l) < h.capacity => \E i \in Slots(h) : h.buckets[i] = Empty
<1>1. /\ h.capacity \in Nat /\ l \in Seq(0 .. h.capacity - 1)
      /\ \A i, j \in 1 .. Len(l) : l[i] = l[j] => i = j
  BY DEF Typed, Chained, Slots
<1>2. /\ Len(l) <= h.capacity
      /\ Len(l) < h.capacity => \E i \in 0 .. h.capacity - 1 : \A n \in 1 .. Len(l) : l[n] # i
  BY <1>1, ListFits
<1> QED BY <1>2 DEF Chained, Slots

LEMMA ContentsType ==
  ASSUME NEW h, NEW l, Typed(h), Chained(h, l)
  PROVE  /\ Contents(h, l) \in Seq(Stored) /\ Len(Contents(h, l)) = Len(l) /\ Len(l) \in Nat
         /\ \A n \in 1 .. Len(l) : l[n] \in Slots(h) /\ Contents(h, l)[n] = h.buckets[l[n]]
<1>1. /\ l \in Seq(Slots(h)) /\ h.buckets \in [Slots(h) -> Stored]
  BY DEF Typed, Chained, Tables, Slots
<1>2. Len(l) \in Nat /\ \A n \in 1 .. Len(l) : l[n] \in Slots(h)
  BY <1>1, LenProperties, ElementOfSeq
<1>3. \A n \in 1 .. Len(l) : h.buckets[l[n]] \in Stored
  BY <1>1, <1>2
<1> HIDE DEF Stored, Slots
<1>4. Contents(h, l) \in [1 .. Len(l) -> Stored]
  BY <1>3 DEF Contents
<1>5. Contents(h, l) \in Seq(Stored) /\ Len(Contents(h, l)) = Len(l)
  BY <1>2, <1>4
<1> QED BY <1>2, <1>5 DEF Contents

\* The pointers lead along the list, and to nothing behind it.
LEMMA ListOf ==
  ASSUME NEW h, NEW l, Typed(h), Chained(h, l)
  PROVE  List(h) = [n \in 1 .. h.capacity |-> IF n <= Len(l) THEN l[n] ELSE NIL]
<1> DEFINE c == h.capacity
           L == Len(l)
           w == [n \in 1 .. c |-> IF n <= L THEN l[n] ELSE NIL]
           Is(f) == f = [n \in 1 .. c |-> h.next[IF n = 1 THEN HEAD ELSE f[n - 1]]]
           at == CHOOSE f : Is(f)
<1>1. c \in Nat \ {0} /\ L \in Nat /\ L <= c /\ \A n \in 1 .. L : l[n] \in 0 .. c - 1
  BY ContentsType, RoomIsEmpty DEF Typed, Slots
<1>2. /\ \A n \in 1 .. L : h.next[Before(l, n)] = l[n]
      /\ h.next[Before(l, L + 1)] = NIL /\ h.next[NIL] = NIL
  BY DEF Chained
<1> HIDE DEF c, L
<1>3. ASSUME NEW f, Is(f), NEW n \in 1 .. c, n > 1 => f[n - 1] = w[n - 1] PROVE f[n] = w[n]
  <2>1. f[n] = h.next[IF n = 1 THEN HEAD ELSE f[n - 1]]
    BY <1>3
  <2>2. n > 1 => n - 1 \in 1 .. c /\ w[n - 1] = IF n - 1 <= L THEN l[n - 1] ELSE NIL
    BY <1>1
  <2>3. CASE n <= L + 1
    <3>1. (IF n = 1 THEN HEAD ELSE f[n - 1]) = Before(l, n)
      BY <1>1, <1>3, <2>2, <2>3 DEF Before
    <3>2. n <= L => h.next[Before(l, n)] = l[n]
      BY <1>1, <1>2
    <3>3. n > L => n = L + 1
      BY <1>1, <2>3
    <3> QED BY <1>1, <1>2, <2>1, <3>1, <3>2, <3>3
  <2>4. CASE n > L + 1
    <3>1. n > 1 /\ ~ (n - 1 <= L) /\ ~ (n <= L)
      BY <1>1, <2>4
    <3> QED BY <1>2, <1>3, <2>1, <2>2, <3>1
  <2> QED BY <1>1, <2>3, <2>4
<1>4. Is(w)
  <2> SUFFICES ASSUME NEW n \in 1 .. c PROVE w[n] = h.next[IF n = 1 THEN HEAD ELSE w[n - 1]]
    OBVIOUS
  <2>1. n > 1 => n - 1 \in 1 .. c /\ w[n - 1] = IF n - 1 <= L THEN l[n - 1] ELSE NIL
    BY <1>1
  <2>2. w[n] = IF n <= L THEN l[n] ELSE NIL
    OBVIOUS
  <2> HIDE DEF w
  <2>3. CASE n <= L + 1
    <3>1. (IF n = 1 THEN HEAD ELSE w[n - 1]) = Before(l, n)
      BY <1>1, <2>1, <2>3 DEF Before
    <3>2. n <= L => h.next[Before(l, n)] = l[n]
      BY <1>1, <1>2
    <3>3. n > L => n = L + 1
      BY <1>1, <2>3
    <3> QED BY <1>1, <1>2, <2>2, <3>1, <3>2, <3>3
  <2>4. CASE n > L + 1
    <3>1. n > 1 /\ n # 1 /\ ~ (n - 1 <= L) /\ ~ (n <= L)
      BY <1>1, <2>4
    <3> QED BY <1>2, <2>1, <2>2, <3>1
  <2> QED BY <1>1, <2>3, <2>4
<1>5. Is(at)
  BY <1>4
<1>6. List(h) = at
  BY DEF List, c
<1> DEFINE S == {n \in 0 .. c : n = 0 \/ at[n] = w[n]}
<1> HIDE DEF at
<1>7. ASSUME NEW n \in 0 .. c - 1, n \in S PROVE n + 1 \in S
  <2>1. n + 1 \in 1 .. c /\ (n + 1) - 1 = n /\ (n + 1 > 1 => n # 0)
    BY <1>1
  <2>2. n + 1 > 1 => at[(n + 1) - 1] = w[(n + 1) - 1]
    BY <1>7, <2>1
  <2> HIDE DEF w, Is
  <2>3. at[n + 1] = w[n + 1]
    BY <1>3, <1>5, <2>1, <2>2
  <2> QED BY <2>1, <2>3
<1> HIDE DEF S, w
<1>8. 0 .. c \subseteq S
  <2>1. 0 \in S
    BY <1>1 DEF S
  <2> QED BY <1>1, <1>7, <2>1, IntervalInduction
<1>9. \A n \in 1 .. c : at[n] = w[n]
  <2> TAKE n \in 1 .. c
  <2>1. n \in 0 .. c /\ n # 0
    BY <1>1
  <2> QED BY <1>8, <2>1 DEF S
<1>10. at = w
  <2>1. at = [n \in 1 .. c |-> at[n]]
    BY <1>5
  <2>2. w = [n \in 1 .. c |-> w[n]]
    BY DEF w
  <2> QED BY <1>9, <2>1, <2>2
<1> QED BY <1>6, <1>10 DEF w, c, L

\* f[n] is the first n of the sequences in g, one after the other.
Joins(f, g, c) == \A n \in 0 .. c : f[n] = IF n = 0 THEN <<>> ELSE f[n - 1] \o g[n]

LEMMA JoinsExist ==
  ASSUME NEW S, NEW c \in Nat, NEW g, \A n \in 1 .. c : g[n] \in Seq(S)
  PROVE  \E f \in [0 .. c -> Seq(S)] : Joins(f, g, c)
<1> DEFINE V == Seq(S)
           step == [x \in Nat \X V |-> IF x[1] + 1 \in 1 .. c THEN x[2] \o g[x[1] + 1] ELSE x[2]]
<1>1. \A x \in Nat \X V : x[1] + 1 \in 1 .. c => x[2] \o g[x[1] + 1] \in V
  OBVIOUS
<1>2. step \in [Nat \X V -> V]
  BY <1>1
<1>3. \A i \in 0 .. c - 1, w \in V : step[<<i, w>>] = w \o g[i + 1]
  <2> SUFFICES ASSUME NEW i \in 0 .. c - 1, NEW w \in V PROVE step[<<i, w>>] = w \o g[i + 1]
    OBVIOUS
  <2>1. <<i, w>> \in Nat \X V /\ <<i, w>>[1] = i /\ <<i, w>>[2] = w /\ i + 1 \in 1 .. c
    OBVIOUS
  <2> HIDE DEF V
  <2> QED BY <2>1
<1>4. <<>> \in V
  OBVIOUS
<1> HIDE DEF step, V
<1>5. PICK f \in [0 .. c -> V] : Run(f, <<>>, step, c)
  BY <1>2, <1>4, RunsExist
<1>6. ASSUME NEW n \in 0 .. c PROVE f[n] = IF n = 0 THEN <<>> ELSE f[n - 1] \o g[n]
  <2>1. CASE n = 0
    BY <1>5, <2>1 DEF Run
  <2>2. CASE n # 0
    <3>1. n - 1 \in 0 .. c - 1 /\ n - 1 \in 0 .. c /\ (n - 1) + 1 = n
      BY <2>2
    <3>2. f[n] = step[<<n - 1, f[n - 1]>>]
      BY <1>5, <3>1 DEF Run
    <3> QED BY <1>3, <1>5, <2>2, <3>1, <3>2
  <2> QED BY <2>1, <2>2
<1> QED BY <1>5, <1>6 DEF V, Joins

\* The entries are what the contents of the list leave.
LEMMA EntriesOf ==
  ASSUME NEW h, NEW l, Typed(h), Chained(h, l)
  PROVE  \E s : Kept(s, Contents(h, l)) /\ Entries(h) = s[Len(l)]
<1> DEFINE c == h.capacity
           L == Len(l)
           V == Seq(Stored)
           b == Contents(h, l)
           Held(e) == IF e = NIL \/ h.buckets[e].key = NIL THEN <<>> ELSE <<h.buckets[e]>>
           Is(f) == f = [n \in 0 .. c |-> IF n = 0 THEN <<>> ELSE f[n - 1] \o Held(List(h)[n])]
           seen == CHOOSE f : Is(f)
           g == [n \in 1 .. c |-> Held(List(h)[n])]
<1>1. /\ c \in Nat /\ L \in 0 .. c /\ b \in V /\ Len(b) = L
      /\ \A n \in 1 .. L : l[n] \in 0 .. c - 1 /\ b[n] = h.buckets[l[n]] /\ b[n] \in Stored
  <2>1. c \in Nat
    BY DEF Typed
  <2>2. L <= c
    BY RoomIsEmpty
  <2>3. /\ b \in Seq(Stored) /\ Len(b) = L /\ L \in Nat
        /\ \A n \in 1 .. L : l[n] \in Slots(h) /\ b[n] = h.buckets[l[n]]
    BY ContentsType
  <2> HIDE DEF b
  <2>4. \A n \in 1 .. L : b[n] \in Stored
    BY <2>3, ElementOfSeq
  <2> QED BY <2>1, <2>2, <2>3, <2>4 DEF Slots
<1>2. \A n \in 1 .. c : List(h)[n] = IF n <= L THEN l[n] ELSE NIL
  BY ListOf
<1> HIDE DEF b, L, c
<1>3. ASSUME NEW n \in 1 .. c
      PROVE  Held(List(h)[n]) = IF n <= L /\ b[n].key # NIL THEN <<b[n]>> ELSE <<>>
  <2>1. CASE n <= L
    <3>1. n \in 1 .. L /\ List(h)[n] = l[n] /\ l[n] # NIL
      BY <1>1, <1>2, <2>1, PointerAssumption
    <3> QED BY <1>1, <2>1, <3>1
  <2>2. CASE ~ (n <= L)
    BY <1>2, <2>2
  <2> QED BY <2>1, <2>2
<1>4. \A n \in 1 .. c : g[n] \in V
  <2> TAKE n \in 1 .. c
  <2>1. g[n] = IF n <= L /\ b[n].key # NIL THEN <<b[n]>> ELSE <<>>
    BY <1>3
  <2>2. n <= L => n \in 1 .. L
    BY <1>1
  <2> HIDE DEF g
  <2> QED BY <1>1, <2>1, <2>2
<1>5. PICK f \in [0 .. c -> V] : Joins(f, g, c)
  <2> HIDE DEF g
  <2>1. c \in Nat /\ \A n \in 1 .. c : g[n] \in Seq(Stored)
    BY <1>1, <1>4
  <2> QED BY <2>1, JoinsExist
<1>6. Is(f)
  <2>1. \A n \in 0 .. c : f[n] = IF n = 0 THEN <<>> ELSE f[n - 1] \o Held(List(h)[n])
    <3> TAKE n \in 0 .. c
    <3>1. n # 0 => n \in 1 .. c
      BY <1>1
    <3>2. n # 0 => g[n] = Held(List(h)[n])
      BY <3>1
    <3> HIDE DEF g, Held
    <3> QED BY <1>5, <3>2 DEF Joins
  <2>2. f = [n \in 0 .. c |-> f[n]]
    BY <1>5
  <2> HIDE DEF Held
  <2> QED BY <2>1, <2>2
<1>7. Is(seen)
  BY <1>6
<1>8. Entries(h) = seen[c]
  BY DEF Entries, c
<1>9. seen[0] = <<>>
  <2>1. 0 \in 0 .. c
    BY <1>1
  <2> HIDE DEF seen, Held
  <2> QED BY <1>7, <2>1
<1>10. ASSUME NEW n \in 0 .. c - 1
       PROVE  seen[n + 1] = seen[n] \o Held(List(h)[n + 1])
  <2>1. n + 1 \in 0 .. c /\ n + 1 # 0 /\ (n + 1) - 1 = n
    BY <1>1
  <2> HIDE DEF seen, Held
  <2> QED BY <1>7, <2>1
<1> HIDE DEF seen, g
<1> DEFINE S == {n \in 0 .. c : seen[n] \in V /\ (n >= L => seen[n] = seen[L])}
<1>11. ASSUME NEW n \in 0 .. c - 1, seen[n] \in V
       PROVE  seen[n + 1] = IF n + 1 <= L /\ b[n + 1].key # NIL THEN Append(seen[n], b[n + 1])
                            ELSE seen[n]
  <2>1. n + 1 \in 1 .. c /\ (n + 1 <= L => n + 1 \in 1 .. L)
    BY <1>1
  <2>2. Held(List(h)[n + 1]) = IF n + 1 <= L /\ b[n + 1].key # NIL THEN <<b[n + 1]>> ELSE <<>>
    BY <1>3, <2>1
  <2>3. seen[n + 1] = seen[n] \o Held(List(h)[n + 1])
    BY <1>10
  <2> HIDE DEF Held
  <2>4. seen[n] \o <<>> = seen[n]
    BY <1>11, ConcatEmptySeq
  <2>5. n + 1 <= L => seen[n] \o <<b[n + 1]>> = Append(seen[n], b[n + 1])
    BY <1>1, <1>11, <2>1
  <2> QED BY <2>2, <2>3, <2>4, <2>5
<1>12. ASSUME NEW n \in 0 .. c - 1, n \in S PROVE n + 1 \in S
  <2>1. n + 1 \in 0 .. c /\ n \in 0 .. c /\ seen[n] \in V
    BY <1>1, <1>12
  <2>2. CASE n + 1 <= L
    <3>1. n + 1 \in 1 .. L /\ (n + 1 >= L => n + 1 = L)
      BY <1>1, <2>2
    <3>2. b[n + 1] \in Stored
      BY <1>1, <3>1
    <3>3. seen[n + 1] \in V
      <4>1. Append(seen[n], b[n + 1]) \in V
        BY <2>1, <3>2, AppendKeeps
      <4> HIDE DEF V
      <4> QED BY <1>11, <2>1, <4>1
    <3> QED BY <2>1, <3>1, <3>3
  <2>3. CASE ~ (n + 1 <= L)
    <3>1. n >= L
      BY <1>1, <2>3
    <3> QED BY <1>11, <1>12, <2>1, <2>3, <3>1
  <2> QED BY <2>2, <2>3
<1>13. 0 \in S
  <2>1. 0 \in 0 .. c /\ (0 >= L => L = 0)
    BY <1>1
  <2>2. <<>> \in V
    OBVIOUS
  <2> HIDE DEF V
  <2> QED BY <1>9, <2>1, <2>2
<1> HIDE DEF S
<1>14. 0 .. c \subseteq S
  BY <1>1, <1>12, <1>13, IntervalInduction
<1>15. \A n \in 0 .. c : seen[n] \in V /\ (n >= L => seen[n] = seen[L])
  BY <1>14 DEF S
<1>16. Kept(seen, b)
  <2>1. \A n \in 0 .. Len(b) : seen[n] \in V
    BY <1>1, <1>15
  <2>2. ASSUME NEW n \in 0 .. Len(b) - 1
        PROVE  seen[n + 1] = IF b[n + 1].key = NIL THEN seen[n] ELSE Append(seen[n], b[n + 1])
    <3>1. n \in 0 .. c - 1 /\ n \in 0 .. c /\ n + 1 <= L
      BY <1>1
    <3> QED BY <1>11, <1>15, <3>1
  <2> QED BY <1>9, <2>1, <2>2 DEF Kept
<1>17. Entries(h) = seen[L]
  <2>1. c \in 0 .. c /\ c >= L
    BY <1>1
  <2> QED BY <1>8, <1>15, <2>1
<1> QED BY <1>16, <1>17 DEF b, L

-----------------------------------------------------------------------------
(* Entries that are replaced                                               *)

\* A search goes the same way through every table of the same capacity.
LEMMA SameWay ==
  ASSUME NEW h, NEW g, g.capacity = h.capacity, NEW k, NEW n
  PROVE  At(g, k, n) = At(h, k, n)
BY Zenon DEF At

\* g is h with x in the bucket e.
Replaced(g, h, e, x) ==
  /\ g.capacity = h.capacity /\ g \in Tables(g.capacity)
  /\ g.buckets = [h.buckets EXCEPT ![e] = x]
  /\ g.next = h.next /\ g.last = h.last

\* What takes the place of an entry has the same key or is a tombstone.
LEMMA ReplacedIsSound ==
  ASSUME NEW h, NEW l, Sound(h, l), NEW pos \in 1 .. Len(l), h.buckets[l[pos]].key # NIL,
         NEW x \in Stored, x.key = h.buckets[l[pos]].key \/ x = Tombstone,
         NEW g, Replaced(g, h, l[pos], x)
  PROVE  Sound(g, l) /\ Contents(g, l) = [Contents(h, l) EXCEPT ![pos] = x]
<1> DEFINE e == l[pos]
           P == Slots(h)
<1>1. /\ h.buckets \in [P -> Stored] /\ Slots(g) = P /\ e \in P
      /\ h.capacity \in Nat \ {0, 1} /\ g.capacity = h.capacity
  BY ContentsType DEF Sound, Typed, Tables, Slots, Replaced
<1>2. \A i \in P : g.buckets[i] = IF i = e THEN x ELSE h.buckets[i]
  BY <1>1 DEF Replaced
<1>3. x # Empty /\ h.buckets[e] # Empty /\ (x.key = NIL => x = Tombstone)
  BY KeyAssumption DEF Empty, Tombstone, Bucket, DEAD
<1>4. \A i \in P : g.buckets[i] = Empty <=> h.buckets[i] = Empty
  BY <1>2, <1>3
<1>5. \A i \in P : g.buckets[i].key # NIL => g.buckets[i].key = h.buckets[i].key
  BY <1>2, <1>3 DEF Tombstone, Bucket
<1>6. Typed(g)
  <2>1. \A i \in P : g.buckets[i].key = NIL => g.buckets[i] \in {Empty, Tombstone}
    BY <1>2, <1>3 DEF Sound, Typed
  <2> QED BY <1>1, <2>1 DEF Typed, Replaced
<1>7. Chained(g, l)
  BY <1>1, <1>4 DEF Sound, Chained, Replaced
<1>8. Reachable(g)
  <2>1. ASSUME NEW i \in P, NEW j \in P, g.buckets[i].key = g.buckets[j].key, g.buckets[i].key # NIL
        PROVE  i = j
    BY <1>5, <2>1 DEF Sound, Reachable
  <2>2. ASSUME NEW i \in P, g.buckets[i].key # NIL
        PROVE  \E n \in P : At(g, g.buckets[i].key, n) = i /\ Passes(g, g.buckets[i].key, n)
    <3>1. g.buckets[i].key = h.buckets[i].key
      BY <1>5, <2>2
    <3> DEFINE k == h.buckets[i].key
    <3>2. k \in Key
      <4>1. h.buckets[i] \in Stored
        BY <1>1
      <4> QED BY <2>2, <3>1, <4>1 DEF Stored
    <3> HIDE DEF k
    <3>3. PICK n \in P : At(h, k, n) = i /\ Passes(h, k, n)
      BY <2>2, <3>1 DEF Sound, Reachable, k
    <3>4. \A j \in 0 .. n - 1 : At(h, k, j) \in P
      <4>1. h.capacity \in Nat \ {0} /\ \A j \in 0 .. n - 1 : j \in P
        BY <1>1 DEF Slots
      <4> QED BY <3>2, <4>1, StepsVisitAll
    <3>5. \A j : At(g, k, j) = At(h, k, j)
      BY <1>1, SameWay
    <3>6. Passes(g, k, n)
      BY <1>4, <3>3, <3>4, <3>5 DEF Passes
    <3> QED BY <3>1, <3>3, <3>5, <3>6 DEF k
  <2> QED BY <1>1, <2>1, <2>2 DEF Reachable
<1>9. Sound(g, l)
  BY <1>6, <1>7, <1>8 DEF Sound
<1>10. Contents(g, l) = [Contents(h, l) EXCEPT ![pos] = x]
  <2>1. \A n \in 1 .. Len(l) : l[n] \in P /\ (l[n] = e <=> n = pos)
    BY ContentsType DEF Sound, Chained
  <2>2. \A n \in 1 .. Len(l) : g.buckets[l[n]] = IF n = pos THEN x ELSE h.buckets[l[n]]
    BY <1>2, <2>1
  <2> QED BY <2>2 DEF Contents
<1> QED BY <1>9, <1>10

-----------------------------------------------------------------------------
(* Entries that are added                                                  *)

\* g is h with a new entry in the bucket e.
Added(g, h, e, k, v) ==
  /\ g.capacity = h.capacity /\ g \in Tables(g.capacity)
  /\ g.buckets = [h.buckets EXCEPT ![e] = Bucket(k, v)]
  /\ g.next = [h.next EXCEPT ![h.last] = e, ![e] = NIL] /\ g.last = e

LEMMA AddedIsSound ==
  ASSUME NEW h, NEW l, Sound(h, l), NEW k \in Key, Absent(h, k), NEW v \in Value \cup {DEAD},
         NEW n \in Slots(h), h.buckets[At(h, k, n)] = Empty, Passes(h, k, n),
         NEW g, Added(g, h, At(h, k, n), k, v)
  PROVE  /\ Sound(g, Append(l, At(h, k, n)))
         /\ Contents(g, Append(l, At(h, k, n))) = Append(Contents(h, l), Bucket(k, v))
<1> DEFINE e == At(h, k, n)
           P == Slots(h)
           L == Len(l)
           d == Append(l, e)
           x == Bucket(k, v)
<1>1. /\ h.buckets \in [P -> Stored] /\ h.next \in [P \cup {HEAD, NIL} -> P \cup {NIL}]
      /\ h.last \in P \cup {HEAD} /\ h.capacity \in Nat \ {0, 1}
      /\ Slots(g) = P /\ g.capacity = h.capacity
  BY DEF Sound, Typed, Tables, Slots, Added
<1>2. e \in P
  BY <1>1, StepsVisitAll
<1>3. /\ l \in Seq(P) /\ L \in Nat /\ \A i \in 1 .. L : l[i] \in P
      /\ \A i, j \in 1 .. L : l[i] = l[j] => i = j
      /\ \A i \in P : h.buckets[i] # Empty <=> \E t \in 1 .. L : l[t] = i
      /\ \A t \in 1 .. L : h.next[Before(l, t)] = l[t]
      /\ h.last = Before(l, L + 1) /\ h.next[NIL] = NIL
  BY ContentsType DEF Sound, Chained
<1>4. /\ d \in Seq(P) /\ Len(d) = L + 1 /\ d[L + 1] = e
      /\ \A i \in 1 .. L : d[i] = l[i]
  BY <1>2, <1>3, AppendKeeps
<1>5. x.key = k /\ x # Empty /\ k # NIL /\ x \in Stored
  BY KeyAssumption DEF Bucket, Empty, Stored
<1>6. h.buckets[e] = Empty /\ \A t \in 1 .. L : l[t] # e
  BY <1>2, <1>3
<1>7. \A i \in P : g.buckets[i] = IF i = e THEN x ELSE h.buckets[i]
  BY <1>1 DEF Added
<1>8. /\ \A i \in P \cup {HEAD, NIL} :
           g.next[i] = IF i = e THEN NIL ELSE IF i = h.last THEN e ELSE h.next[i]
      /\ g.last = e
  BY <1>1 DEF Added
<1>9. P \subseteq Nat /\ HEAD \notin P /\ NIL \notin P /\ HEAD # NIL
  BY <1>1, PointerAssumption DEF Slots
<1> HIDE DEF P, d, x
<1>10. Typed(g)
  <2>1. \A i \in P : g.buckets[i].key = NIL => g.buckets[i] \in {Empty, Tombstone}
    BY <1>5, <1>7 DEF Sound, Typed, P
  <2> QED BY <1>1, <2>1 DEF Typed, Added, P
<1>11. \A t \in 1 .. L + 1 : Before(d, t) = Before(l, t)
  <2> TAKE t \in 1 .. L + 1
  <2>1. CASE t = 1
    BY <2>1 DEF Before
  <2>2. CASE t # 1
    <3>1. t - 1 \in 1 .. L
      BY <1>3, <2>2
    <3> QED BY <1>4, <2>2, <3>1 DEF Before
  <2> QED BY <2>1, <2>2
<1>12. \A t \in 1 .. L : /\ Before(l, t) \in P \cup {HEAD} /\ Before(l, t) # e
                         /\ Before(l, t) # Before(l, L + 1)
  <2> TAKE t \in 1 .. L
  <2>1. L + 1 # 1 /\ (L + 1) - 1 = L /\ L \in 1 .. L
    BY <1>3
  <2>2. Before(l, L + 1) = l[L]
    BY <2>1 DEF Before
  <2>3. CASE t = 1
    BY <1>2, <1>3, <1>9, <2>1, <2>2, <2>3 DEF Before, P
  <2>4. CASE t # 1
    <3>1. t - 1 \in 1 .. L /\ t - 1 # L
      BY <1>3, <2>4
    <3> QED BY <1>3, <1>6, <2>1, <2>2, <2>4, <3>1 DEF Before
  <2> QED BY <2>3, <2>4
<1>13. Chained(g, d)
  <2>1. \A i, j \in 1 .. Len(d) : d[i] = d[j] => i = j
    BY <1>3, <1>4, <1>6
  <2>2. ASSUME NEW i \in P
        PROVE  g.buckets[i] # Empty <=> \E t \in 1 .. Len(d) : d[t] = i
    <3>1. CASE i = e
      <4>1. L + 1 \in 1 .. Len(d)
        BY <1>3, <1>4
      <4> QED BY <1>4, <1>5, <1>7, <3>1, <4>1
    <3>2. CASE i # e
      <4>1. g.buckets[i] = h.buckets[i]
        BY <1>7, <3>2
      <4>2. (\E t \in 1 .. Len(d) : d[t] = i) <=> (\E t \in 1 .. L : l[t] = i)
        BY <1>3, <1>4, <3>2
      <4> QED BY <1>3, <4>1, <4>2
    <3> QED BY <3>1, <3>2
  <2>3. ASSUME NEW t \in 1 .. Len(d) PROVE g.next[Before(d, t)] = d[t]
    <3>1. t \in 1 .. L + 1 /\ Before(d, t) = Before(l, t)
      BY <1>4, <1>11
    <3>2. CASE t = L + 1
      <4>1. Before(d, t) = h.last /\ d[t] = e
        BY <1>3, <1>4, <3>1, <3>2
      <4>2. h.last # e
        <5>1. CASE L = 0
          BY <1>2, <1>3, <1>9, <5>1 DEF Before, P
        <5>2. CASE L # 0
          <6>1. L + 1 # 1 /\ (L + 1) - 1 = L /\ L \in 1 .. L
            BY <1>3, <5>2
          <6> QED BY <1>3, <1>6, <6>1 DEF Before
        <5> QED BY <5>1, <5>2
      <4> HIDE DEF e
      <4> QED BY <1>1, <1>8, <4>1, <4>2
    <3>3. CASE t \in 1 .. L
      <4>1. /\ Before(l, t) \in P \cup {HEAD} /\ Before(l, t) # e
            /\ Before(l, t) # h.last
        BY <1>3, <1>12, <3>3
      <4> HIDE DEF e
      <4>2. g.next[Before(l, t)] = h.next[Before(l, t)]
        BY <1>8, <4>1
      <4> QED BY <1>3, <1>4, <3>1, <3>3, <4>2
    <3> QED BY <1>3, <3>1, <3>2, <3>3
  <2>4. g.last = Before(d, Len(d) + 1)
    <3>1. Len(d) + 1 # 1 /\ (Len(d) + 1) - 1 = L + 1
      BY <1>3, <1>4
    <3> QED BY <1>4, <1>8, <3>1 DEF Before
  <2>5. g.next[g.last] = NIL
    BY <1>2, <1>8 DEF P
  <2>6. g.next[NIL] = NIL
    <3>1. h.last # NIL /\ e # NIL
      BY <1>1, <1>2, <1>9 DEF P
    <3> HIDE DEF e
    <3> QED BY <1>3, <1>8, <3>1
  <2> QED BY <1>1, <1>4, <2>1, <2>2, <2>3, <2>4, <2>5, <2>6 DEF Chained, P
<1>14. Reachable(g)
  <2>1. ASSUME NEW i \in P, NEW j \in P, g.buckets[i].key = g.buckets[j].key, g.buckets[i].key # NIL
        PROVE  i = j
    <3>1. \A t \in P : h.buckets[t].key # k
      BY DEF Absent, P
    <3> HIDE DEF e
    <3> QED BY <1>5, <1>7, <2>1, <3>1 DEF Sound, Reachable, P
  <2>2. \A j : \A y : At(g, y, j) = At(h, y, j)
    BY <1>1, SameWay
  <2>3. ASSUME NEW y \in Key, NEW t \in P, Passes(h, y, t) PROVE Passes(g, y, t)
    <3>1. \A j \in 0 .. t - 1 : At(h, y, j) \in P
      <4>1. h.capacity \in Nat \ {0} /\ \A j \in 0 .. t - 1 : j \in Slots(h)
        BY <1>1 DEF Slots, P
      <4> QED BY <4>1, StepsVisitAll DEF P
    <3> HIDE DEF e
    <3> QED BY <1>5, <1>7, <2>2, <2>3, <3>1 DEF Passes
  <2>4. ASSUME NEW i \in P, g.buckets[i].key # NIL
        PROVE  \E t \in P : At(g, g.buckets[i].key, t) = i /\ Passes(g, g.buckets[i].key, t)
    <3>1. CASE i = e
      <4>1. g.buckets[i].key = k
        BY <1>5, <1>7, <3>1
      <4>2. n \in P /\ Passes(g, k, n)
        BY <2>3 DEF P
      <4> QED BY <2>2, <3>1, <4>1, <4>2
    <3>2. CASE i # e
      <4>1. g.buckets[i] = h.buckets[i]
        BY <1>7, <3>2
      <4>2. PICK t \in P : At(h, h.buckets[i].key, t) = i /\ Passes(h, h.buckets[i].key, t)
        BY <2>4, <4>1 DEF Sound, Reachable, P
      <4>3. h.buckets[i].key \in Key
        <5>1. h.buckets[i] \in Stored
          BY <1>1
        <5> QED BY <2>4, <4>1, <5>1 DEF Stored
      <4> QED BY <2>2, <2>3, <4>1, <4>2, <4>3
    <3> QED BY <3>1, <3>2
  <2> QED BY <1>1, <2>1, <2>4 DEF Reachable, P
<1>15. Sound(g, d)
  BY <1>10, <1>13, <1>14 DEF Sound
<1>16. Contents(g, d) = Append(Contents(h, l), x)
  <2> DEFINE b == Contents(h, l)
             a == Contents(g, d)
  <2>1. b \in Seq(Stored) /\ Len(b) = L /\ \A t \in 1 .. L : b[t] = h.buckets[l[t]]
    BY ContentsType DEF Sound
  <2>2. a \in Seq(Stored) /\ Len(a) = L + 1 /\ \A t \in 1 .. L + 1 : a[t] = g.buckets[d[t]]
    BY <1>4, <1>15, ContentsType DEF Sound
  <2> HIDE DEF a, b
  <2>3. /\ Append(b, x) \in Seq(Stored) /\ Len(Append(b, x)) = L + 1
        /\ \A t \in 1 .. L : Append(b, x)[t] = b[t]
        /\ Append(b, x)[L + 1] = x
    BY <1>5, <2>1, AppendKeeps
  <2>4. ASSUME NEW t \in 1 .. L + 1 PROVE a[t] = Append(b, x)[t]
    <3>1. CASE t = L + 1
      BY <1>2, <1>4, <1>7, <2>2, <2>3, <3>1 DEF P
    <3>2. CASE t \in 1 .. L
      <4>1. l[t] \in P /\ l[t] # e /\ d[t] = l[t]
        BY <1>3, <1>4, <1>6, <3>2
      <4>2. g.buckets[l[t]] = h.buckets[l[t]]
        BY <1>7, <4>1
      <4>3. a[t] = g.buckets[d[t]] /\ b[t] = h.buckets[l[t]] /\ Append(b, x)[t] = b[t]
        BY <2>1, <2>2, <2>3, <3>2
      <4> QED BY <4>1, <4>2, <4>3
    <3>3. t = L + 1 \/ t \in 1 .. L
      BY <1>3
    <3> QED BY <3>1, <3>2, <3>3, Zenon
  <2>5. a = Append(b, x)
    BY <2>2, <2>3, <2>4, SeqEqual
  <2> QED BY <2>5 DEF a, b
<1> QED BY <1>15, <1>16 DEF d, x

-----------------------------------------------------------------------------
(* What an operation does to the entries                                   *)

\* A bucket with a key is the entry at the place of the key.
LEMMA EntryOfKey ==
  ASSUME NEW h, NEW l, Sound(h, l), NEW s, Kept(s, Contents(h, l)),
         NEW pos \in 1 .. Len(l), h.buckets[l[pos]].key # NIL
  PROVE  /\ s[Len(l)] \in Seq(Stored)
         /\ Where(s[Len(l)], h.buckets[l[pos]].key) = Len(s[pos])
         /\ Len(s[pos]) \in 1 .. Len(s[Len(l)]) /\ s[Len(l)][Len(s[pos])] = h.buckets[l[pos]]
<1> DEFINE b == Contents(h, l)
           k == h.buckets[l[pos]].key
           L == Len(l)
           es == s[L]
           q == Len(s[pos])
<1>1. /\ b \in Seq(Stored) /\ Len(b) = L /\ L \in Nat
      /\ \A n \in 1 .. L : l[n] \in Slots(h) /\ b[n] = h.buckets[l[n]]
  BY ContentsType DEF Sound
<1>2. Kept(s, b) /\ b[pos].key = k /\ k # NIL /\ L \in 0 .. L
  BY <1>1
<1> HIDE DEF b, L
<1>3. es \in Seq(Stored) /\ Numbered(s, b, L)
  BY <1>1, <1>2, KeptIsNumbered DEF Kept
<1>4. q \in 1 .. Len(es) /\ es[q] = b[pos]
  BY <1>2, <1>3 DEF Numbered, L
<1>5. ASSUME NEW i \in 1 .. Len(es), es[i].key = k PROVE i = q
  <2>1. PICK j \in 1 .. L : b[j].key # NIL /\ Len(s[j]) = i
    BY <1>3 DEF Numbered
  <2>2. es[i] = b[j]
    BY <1>3, <2>1 DEF Numbered
  <2>3. l[j] = l[pos]
    BY <1>1, <1>2, <1>5, <2>2 DEF Sound, Reachable, L
  <2>4. j = pos
    BY <2>3 DEF Sound, Chained, L
  <2> QED BY <2>1, <2>4
<1> HIDE DEF es, q, k
<1>6. Where(es, k) = q
  BY <1>2, <1>3, <1>4, <1>5, PlaceOfKey
<1> QED BY <1>1, <1>3, <1>4, <1>6 DEF es, q, k, L

LEMMA NoEntryOfKey ==
  ASSUME NEW h, NEW l, Sound(h, l), NEW s, Kept(s, Contents(h, l)), NEW k, Absent(h, k)
  PROVE  s[Len(l)] \in Seq(Stored) /\ Where(s[Len(l)], k) = 0
<1> DEFINE b == Contents(h, l)
           L == Len(l)
           es == s[L]
<1>1. /\ b \in Seq(Stored) /\ Len(b) = L /\ L \in Nat
      /\ \A n \in 1 .. L : l[n] \in Slots(h) /\ b[n] = h.buckets[l[n]]
  BY ContentsType DEF Sound
<1>2. Kept(s, b) /\ L \in 0 .. L
  BY <1>1
<1> HIDE DEF b, L
<1>3. es \in Seq(Stored) /\ Numbered(s, b, L)
  BY <1>1, <1>2, KeptIsNumbered DEF Kept
<1>4. ASSUME NEW i \in 1 .. Len(es) PROVE es[i].key # k
  <2>1. PICK j \in 1 .. L : b[j].key # NIL /\ Len(s[j]) = i
    BY <1>3 DEF Numbered
  <2>2. es[i] = b[j]
    BY <1>3, <2>1 DEF Numbered
  <2> QED BY <1>1, <2>1, <2>2 DEF Absent
<1> HIDE DEF es
<1>5. Where(es, k) = 0
  BY <1>3, <1>4, NoPlaceOfKey
<1> QED BY <1>3, <1>5 DEF es, L

LEMMA AddedEntry ==
  ASSUME NEW h, NEW l, Sound(h, l), NEW k \in Key, Absent(h, k), NEW v \in Value \cup {DEAD},
         NEW n \in Slots(h), h.buckets[At(h, k, n)] = Empty, Passes(h, k, n),
         NEW g, Added(g, h, At(h, k, n), k, v)
  PROVE  Entries(g) = Append(Entries(h), Bucket(k, v))
<1> DEFINE e == At(h, k, n)
           d == Append(l, e)
           b == Contents(h, l)
           x == Bucket(k, v)
<1>1. Sound(g, d) /\ Contents(g, d) = Append(b, x)
  BY AddedIsSound
<1>2. e \in Slots(h)
  BY StepsVisitAll DEF Sound, Typed
<1>3. Len(d) = Len(l) + 1 /\ b \in Seq(Stored) /\ Len(b) = Len(l)
  <2>1. l \in Seq(Slots(h))
    BY DEF Sound, Chained
  <2> HIDE DEF e
  <2> QED BY <1>2, <2>1, AppendKeeps, ContentsType DEF Sound
<1>4. PICK s : Kept(s, b) /\ Entries(h) = s[Len(l)]
  BY EntriesOf DEF Sound
<1> HIDE DEF b, d
<1>5. PICK t : Kept(t, Contents(g, d)) /\ Entries(g) = t[Len(d)]
  BY <1>1, EntriesOf DEF Sound
<1>6. x \in Stored /\ x.key # NIL
  BY KeyAssumption DEF Bucket, Stored
<1> HIDE DEF x
<1>7. Kept(t, Append(b, x))
  BY <1>1, <1>5
<1>8. t[Len(b) + 1] = Append(s[Len(b)], x)
  BY <1>3, <1>4, <1>6, <1>7, KeptLonger
<1> QED BY <1>3, <1>4, <1>5, <1>8 DEF x

\* An entry that is overwritten keeps its place, one that is buried leaves it.
LEMMA ReplacedEntry ==
  ASSUME NEW h, NEW l, Sound(h, l), NEW pos \in 1 .. Len(l), h.buckets[l[pos]].key # NIL,
         NEW x \in Stored, x.key = h.buckets[l[pos]].key \/ x = Tombstone,
         NEW g, Replaced(g, h, l[pos], x)
  PROVE  LET q == Where(Entries(h), h.buckets[l[pos]].key)
         IN  Entries(g) = IF x = Tombstone THEN RemoveAt(Entries(h), q)
                          ELSE [Entries(h) EXCEPT ![q] = x]
<1> DEFINE b == Contents(h, l)
           q == Where(Entries(h), h.buckets[l[pos]].key)
<1>1. Sound(g, l) /\ Contents(g, l) = [b EXCEPT ![pos] = x]
  BY ReplacedIsSound
<1>2. PICK s : Kept(s, b) /\ Entries(h) = s[Len(l)]
  BY EntriesOf DEF Sound
<1>3. PICK t : Kept(t, Contents(g, l)) /\ Entries(g) = t[Len(l)]
  BY <1>1, EntriesOf DEF Sound
<1>4. q = Len(s[pos])
  BY <1>2, EntryOfKey
<1>5. b \in Seq(Stored) /\ pos \in 1 .. Len(b) /\ Len(b) = Len(l) /\ b[pos].key # NIL
  BY ContentsType DEF Sound
<1>6. Kept(t, [b EXCEPT ![pos] = x])
  BY <1>1, <1>3
<1> HIDE DEF b, q
<1>7. CASE x = Tombstone
  <2>1. x.key = NIL
    BY <1>7 DEF Tombstone, Bucket
  <2>2. t[Len(b)] = RemoveAt(s[Len(b)], Len(s[pos]))
    BY <1>2, <1>5, <1>6, <2>1, KeptBuried
  <2>3. Entries(g) = RemoveAt(Entries(h), q)
    BY <1>2, <1>3, <1>4, <1>5, <2>2
  <2> QED BY <1>7, <2>3 DEF q
<1>8. CASE x # Tombstone
  <2>1. x.key # NIL
    BY <1>8
  <2>2. t[Len(b)] = [s[Len(b)] EXCEPT ![Len(s[pos])] = x]
    BY <1>2, <1>5, <1>6, <2>1, KeptUpdated
  <2>3. Entries(g) = [Entries(h) EXCEPT ![q] = x]
    BY <1>2, <1>3, <1>4, <1>5, <2>2
  <2> QED BY <1>8, <2>3 DEF q
<1> QED BY <1>7, <1>8

-----------------------------------------------------------------------------
(* The invariant of a table, kept by every operation                       *)

Tombstones(h) == {i \in Slots(h) : h.buckets[i] = Tombstone}

\* The counters of a table whose buckets in use are those of l.
Counted(h, l) ==
  /\ h.count = Len(l) /\ 4 * h.count <= 3 * h.capacity
  /\ h.tombstone_count = Cardinality(Tombstones(h))
  /\ Len(Entries(h)) = h.count - h.tombstone_count

Good(h) == \E l : Sound(h, l) /\ Counted(h, l)

\* Every search ends: at the entry of its key, or at an empty bucket that its way
\* through buckets in use leads to.
LEMMA SearchFinds ==
  ASSUME NEW h, NEW l, Sound(h, l), Counted(h, l), NEW k \in Key
  PROVE  \E e \in Slots(h) :
           /\ find_entry(h, k) = {e}
           /\ IF h.buckets[e].key = NIL
              THEN /\ Absent(h, k) /\ Where(Entries(h), k) = 0
                   /\ \E n \in Slots(h) : /\ e = At(h, k, n) /\ h.buckets[At(h, k, n)] = Empty
                                          /\ Passes(h, k, n)
              ELSE /\ h.buckets[e].key = k
                   /\ Entries(h) \in Seq(Stored) /\ Where(Entries(h), k) \in 1 .. Len(Entries(h))
                   /\ Entries(h)[Where(Entries(h), k)] = h.buckets[e]
<1>1. PICK s : Kept(s, Contents(h, l)) /\ Entries(h) = s[Len(l)]
  BY EntriesOf DEF Sound
<1>2. k # NIL
  BY KeyAssumption
<1>3. CASE Absent(h, k)
  <2>1. h.capacity \in Nat \ {0, 1} /\ Len(l) < h.capacity
    BY ContentsType DEF Counted, Sound, Typed
  <2>2. PICK i \in Slots(h) : h.buckets[i] = Empty
    BY <2>1, RoomIsEmpty DEF Sound
  <2>3. PICK n \in Slots(h) : /\ find_entry(h, k) = {At(h, k, n)}
                              /\ h.buckets[At(h, k, n)] = Empty /\ Passes(h, k, n)
    BY <1>3, <2>2, FindsEmpty DEF Sound
  <2>4. At(h, k, n) \in Slots(h)
    BY <2>1, StepsVisitAll
  <2>5. Where(Entries(h), k) = 0
    BY <1>1, <1>3, NoEntryOfKey
  <2> QED BY <1>3, <2>3, <2>4, <2>5 DEF Empty, Bucket
<1>4. CASE ~ Absent(h, k)
  <2>1. PICK e \in Slots(h) : h.buckets[e].key = k
    BY <1>4 DEF Absent
  <2>2. find_entry(h, k) = {e}
    BY <2>1, FindsKey DEF Sound
  <2>3. h.buckets[e] # Empty
    BY <1>2, <2>1 DEF Empty, Bucket
  <2>4. PICK pos \in 1 .. Len(l) : l[pos] = e
    BY <2>3 DEF Sound, Chained
  <2>5. /\ Entries(h) \in Seq(Stored) /\ Where(Entries(h), k) = Len(s[pos])
        /\ Len(s[pos]) \in 1 .. Len(Entries(h)) /\ Entries(h)[Len(s[pos])] = h.buckets[e]
    BY <1>1, <1>2, <2>1, <2>4, EntryOfKey
  <2> QED BY <1>2, <2>1, <2>2, <2>5
<1> QED BY <1>3, <1>4

\* Link fills an empty bucket.
LEMMA LinkAdds ==
  ASSUME NEW h, Typed(h), NEW e \in Slots(h), NEW k \in Key, NEW v \in Value \cup {DEAD}
  PROVE  LET f == Link(h, e, k, v)
         IN  /\ Added(f, h, e, k, v) /\ f.count = h.count
             /\ f.tombstone_count = h.tombstone_count
<1> DEFINE next == [h.next EXCEPT ![h.last] = e, ![e] = NIL]
           buckets == [h.buckets EXCEPT ![e] = Bucket(k, v)]
           f == Link(h, e, k, v)
<1>1. h \in Tables(h.capacity)
  BY DEF Typed
<1>2. f = [h EXCEPT !.next = next, !.last = e, !.buckets = buckets]
  BY <1>1 DEF Link, Tables
<1>3. next \in [(0 .. h.capacity - 1) \cup {HEAD, NIL} -> (0 .. h.capacity - 1) \cup {NIL}]
  <2>1. /\ h.next \in [(0 .. h.capacity - 1) \cup {HEAD, NIL} -> (0 .. h.capacity - 1) \cup {NIL}]
        /\ e \in 0 .. h.capacity - 1
    BY <1>1 DEF Tables, Slots
  <2> QED BY <2>1
<1>4. buckets \in [0 .. h.capacity - 1 -> Stored]
  <2>1. Bucket(k, v) \in Stored
    BY DEF Bucket, Stored
  <2>2. h.buckets \in [0 .. h.capacity - 1 -> Stored]
    BY <1>1 DEF Tables
  <2> HIDE DEF Stored
  <2> QED BY <2>1, <2>2
<1> HIDE DEF next, buckets, f
<1>5. /\ f.capacity = h.capacity /\ f.next = next /\ f.buckets = buckets /\ f.last = e
      /\ f.count = h.count /\ f.tombstone_count = h.tombstone_count
      /\ f \in Tables(h.capacity)
  BY <1>1, <1>2, <1>3, <1>4 DEF Tables, Slots
<1> QED BY <1>5 DEF Added, next, buckets, f

\* Counted, it is the new entry.
LEMMA CountAdds ==
  ASSUME NEW h, NEW f, NEW e, NEW k, NEW v, Added(f, h, e, k, v), NEW c \in Nat
  PROVE  LET g == [f EXCEPT !.count = c]
         IN  /\ Added(g, h, e, k, v) /\ g.capacity = h.capacity /\ g.count = c
             /\ g.tombstone_count = f.tombstone_count
<1> DEFINE g == [f EXCEPT !.count = c]
<1>1. /\ g.capacity = f.capacity /\ g.next = f.next /\ g.buckets = f.buckets /\ g.last = f.last
      /\ g.count = c /\ g.tombstone_count = f.tombstone_count
      /\ g \in Tables(f.capacity)
  BY DEF Added, Tables
<1> QED BY <1>1 DEF Added

LEMMA TombstonesFinite ==
  ASSUME NEW h, h.capacity \in Nat
  PROVE  IsFiniteSet(Tombstones(h))
<1>1. IsFiniteSet(Slots(h))
  BY FS_Interval DEF Slots
<1> QED BY <1>1, FS_Subset DEF Tombstones

\* What hashmap_set and the others do when the key is new.
LEMMA AddKeepsGood ==
  ASSUME NEW h, NEW l, Sound(h, l), Counted(h, l), 4 * (h.count + 1) <= 3 * h.capacity,
         NEW k \in Key, Absent(h, k), NEW v \in Value \cup {DEAD}, NEW n \in Slots(h),
         h.buckets[At(h, k, n)] = Empty, Passes(h, k, n)
  PROVE  LET g == [Link(h, At(h, k, n), k, v) EXCEPT !.count = h.count + 1]
         IN  Good(g) /\ g.capacity = h.capacity /\ Entries(g) = Append(Entries(h), Bucket(k, v))
<1> DEFINE e == At(h, k, n)
           g == [Link(h, e, k, v) EXCEPT !.count = h.count + 1]
           d == Append(l, e)
<1>1. Typed(h) /\ h.capacity \in Nat \ {0, 1} /\ h.count \in Nat /\ Len(l) \in Nat
  BY ContentsType DEF Sound, Typed, Tables
<1>2. e \in Slots(h)
  BY <1>1, StepsVisitAll
<1>3. /\ Added(g, h, e, k, v) /\ g.capacity = h.capacity /\ g.count = h.count + 1
      /\ g.tombstone_count = h.tombstone_count
  <2> HIDE DEF e
  <2> DEFINE f == Link(h, e, k, v)
  <2>1. h.count + 1 \in Nat
    BY <1>1
  <2>2. Added(f, h, e, k, v) /\ f.tombstone_count = h.tombstone_count
    BY <1>1, <1>2, LinkAdds
  <2> HIDE DEF f
  <2>3. LET w == [f EXCEPT !.count = h.count + 1]
        IN  /\ Added(w, h, e, k, v) /\ w.capacity = h.capacity /\ w.count = h.count + 1
            /\ w.tombstone_count = f.tombstone_count
    BY <2>1, <2>2, CountAdds
  <2> QED BY <2>2, <2>3 DEF f
<1> HIDE DEF g
<1>4. Sound(g, d)
  BY <1>3, AddedIsSound
<1>5. Entries(g) = Append(Entries(h), Bucket(k, v))
  BY <1>3, AddedEntry
<1>6. Len(d) = Len(l) + 1
  <2>1. l \in Seq(Slots(h))
    BY DEF Sound, Chained
  <2> HIDE DEF e
  <2> QED BY <1>2, <2>1, AppendKeeps
<1>7. Tombstones(g) = Tombstones(h)
  <2>1. Bucket(k, v) # Tombstone /\ Empty # Tombstone
    BY KeyAssumption DEF Bucket, Tombstone, Empty, DEAD
  <2>2. Slots(g) = Slots(h) /\ h.buckets[e] = Empty /\ h.buckets \in [Slots(h) -> Stored]
    BY <1>1, <1>3 DEF Slots, Typed, Tables
  <2>3. \A i \in Slots(h) : g.buckets[i] = IF i = e THEN Bucket(k, v) ELSE h.buckets[i]
    BY <1>3, <2>2 DEF Added
  <2> HIDE DEF e
  <2> QED BY <2>1, <2>2, <2>3 DEF Tombstones
<1>8. Len(Entries(g)) = Len(Entries(h)) + 1
  <2>1. PICK s : Kept(s, Contents(h, l)) /\ Entries(h) = s[Len(l)]
    BY EntriesOf DEF Sound
  <2>2. Entries(h) \in Seq(Stored)
    <3>1. Len(l) \in 0 .. Len(Contents(h, l))
      BY ContentsType DEF Sound
    <3> QED BY <2>1, <3>1 DEF Kept
  <2>3. Bucket(k, v) \in Stored
    BY DEF Bucket, Stored
  <2> QED BY <1>5, <2>2, <2>3, AppendKeeps
<1>9. Counted(g, d)
  <2>1. h.tombstone_count \in Nat
    BY DEF Sound, Typed, Tables
  <2> HIDE DEF d
  <2> QED BY <1>1, <1>3, <1>6, <1>7, <1>8, <2>1 DEF Counted
<1> QED BY <1>3, <1>4, <1>5, <1>9 DEF Good, g

LEMMA EntriesType ==
  ASSUME NEW h, NEW l, Sound(h, l)
  PROVE  Entries(h) \in Seq(Stored)
<1>1. PICK s : Kept(s, Contents(h, l)) /\ Entries(h) = s[Len(l)]
  BY EntriesOf DEF Sound
<1>2. Len(l) \in 0 .. Len(Contents(h, l))
  BY ContentsType DEF Sound
<1> QED BY <1>1, <1>2 DEF Kept

\* What they do when the key is there.
Updated(h, e, v) == [h EXCEPT !.buckets[e].value = v]

LEMMA UpdateKeepsGood ==
  ASSUME NEW h, NEW l, Sound(h, l), Counted(h, l), NEW e \in Slots(h), NEW k \in Key,
         h.buckets[e].key = k, NEW v \in Value
  PROVE  LET g == Updated(h, e, v)
         IN  /\ Good(g) /\ g.capacity = h.capacity
             /\ Entries(g) = [Entries(h) EXCEPT ![Where(Entries(h), k)] = Bucket(k, v)]
<1> DEFINE x == Bucket(k, v)
           buckets == [h.buckets EXCEPT ![e] = x]
           g == Updated(h, e, v)
<1>1. /\ h \in Tables(h.capacity) /\ h.buckets \in [Slots(h) -> Stored] /\ k # NIL
      /\ h.capacity \in Nat
  BY KeyAssumption DEF Sound, Typed, Tables, Slots
<1>2. g = [h EXCEPT !.buckets = buckets]
  <2>1. h.buckets[e] \in Stored
    BY <1>1
  <2>2. [h.buckets[e] EXCEPT !.value = v] = x
    BY <2>1 DEF Stored, Bucket
  <2>3. g = [h EXCEPT !.buckets = [h.buckets EXCEPT ![e] = [h.buckets[e] EXCEPT !.value = v]]]
    BY <1>1 DEF Tables, Updated
  <2> HIDE DEF g, x
  <2> QED BY <2>2, <2>3
<1>3. x \in Stored /\ x.key = k /\ x # Tombstone /\ x # Empty /\ h.buckets[e] # Tombstone
  BY <1>1 DEF Stored, Bucket, Tombstone, Empty
<1>4. buckets \in [0 .. h.capacity - 1 -> Stored]
  <2> HIDE DEF x
  <2> QED BY <1>1, <1>3 DEF Slots
<1> HIDE DEF x, buckets, g
<1>5. /\ g.capacity = h.capacity /\ g.buckets = buckets /\ g.next = h.next /\ g.last = h.last
      /\ g.count = h.count /\ g.tombstone_count = h.tombstone_count /\ g \in Tables(h.capacity)
  BY <1>1, <1>2, <1>4 DEF Tables
<1>6. Replaced(g, h, e, x)
  BY <1>5 DEF Replaced, buckets
<1>7. PICK pos \in 1 .. Len(l) : l[pos] = e
  <2>1. h.buckets[e] # Empty
    BY <1>1 DEF Empty, Bucket
  <2> QED BY <2>1 DEF Sound, Chained
<1>8. Sound(g, l)
  BY <1>1, <1>3, <1>6, <1>7, ReplacedIsSound
<1>9. Entries(g) = [Entries(h) EXCEPT ![Where(Entries(h), k)] = x]
  BY <1>1, <1>3, <1>6, <1>7, ReplacedEntry
<1>10. Tombstones(g) = Tombstones(h)
  <2>1. Slots(g) = Slots(h)
    BY <1>5 DEF Slots
  <2>2. \A i \in Slots(h) : g.buckets[i] = IF i = e THEN x ELSE h.buckets[i]
    BY <1>1, <1>5 DEF buckets
  <2> QED BY <1>3, <2>1, <2>2 DEF Tombstones
<1>11. Len(Entries(g)) = Len(Entries(h))
  <2>1. PICK e2 \in Slots(h) : /\ find_entry(h, k) = {e2}
                               /\ h.buckets[e2].key # NIL =>
                                    Where(Entries(h), k) \in 1 .. Len(Entries(h))
    BY SearchFinds
  <2>2. find_entry(h, k) = {e}
    BY FindsKey DEF Sound
  <2>3. e \in find_entry(h, k) /\ \A i \in find_entry(h, k) : i = e2
    BY <2>1, <2>2
  <2>4. Where(Entries(h), k) \in 1 .. Len(Entries(h))
    BY <1>1, <2>1, <2>3
  <2>5. Entries(h) \in Seq(Stored)
    BY EntriesType
  <2> QED BY <1>3, <1>9, <2>4, <2>5, ExceptSeq
<1>12. Counted(g, l)
  BY <1>5, <1>10, <1>11 DEF Counted
<1> QED BY <1>5, <1>8, <1>9, <1>12 DEF Good, g, x

\* hashmap_remove and hashmap_remove_free leave a tombstone.
LEMMA BuryKeepsGood ==
  ASSUME NEW h, NEW l, Sound(h, l), Counted(h, l), NEW e \in Slots(h), NEW k \in Key,
         h.buckets[e].key = k
  PROVE  LET g == [h EXCEPT !.buckets[e] = Tombstone, !.tombstone_count = @ + 1]
         IN  /\ Good(g) /\ g.capacity = h.capacity
             /\ Entries(g) = RemoveAt(Entries(h), Where(Entries(h), k))
<1> DEFINE x == Tombstone
           buckets == [h.buckets EXCEPT ![e] = x]
           g == [h EXCEPT !.buckets[e] = Tombstone, !.tombstone_count = @ + 1]
<1>1. /\ h \in Tables(h.capacity) /\ h.buckets \in [Slots(h) -> Stored] /\ k # NIL
      /\ h.capacity \in Nat /\ h.tombstone_count \in Nat /\ h.count \in Nat
  BY KeyAssumption DEF Sound, Typed, Tables, Slots
<1>2. g = [h EXCEPT !.buckets = buckets, !.tombstone_count = h.tombstone_count + 1]
  BY <1>1 DEF Tables
<1>3. x \in Stored /\ h.buckets[e] # Tombstone
  BY <1>1 DEF Stored, Bucket, Tombstone
<1>4. buckets \in [0 .. h.capacity - 1 -> Stored]
  <2> HIDE DEF x
  <2> QED BY <1>1, <1>3 DEF Slots
<1> HIDE DEF buckets, g
<1>5. /\ g.capacity = h.capacity /\ g.buckets = buckets /\ g.next = h.next /\ g.last = h.last
      /\ g.count = h.count /\ g.tombstone_count = h.tombstone_count + 1
      /\ g \in Tables(h.capacity)
  <2> DEFINE t == h.tombstone_count + 1
  <2>1. t \in Nat
    BY <1>1
  <2>2. g = [h EXCEPT !.buckets = buckets, !.tombstone_count = t]
    BY <1>2
  <2> HIDE DEF t
  <2>3. /\ g.capacity = h.capacity /\ g.buckets = buckets /\ g.next = h.next /\ g.last = h.last
        /\ g.count = h.count /\ g.tombstone_count = t /\ g \in Tables(h.capacity)
    BY <1>1, <1>4, <2>1, <2>2 DEF Tables
  <2> QED BY <2>3 DEF t
<1>6. Replaced(g, h, e, x)
  BY <1>5 DEF Replaced, buckets
<1>7. PICK pos \in 1 .. Len(l) : l[pos] = e
  <2>1. h.buckets[e] # Empty
    BY <1>1 DEF Empty, Bucket
  <2> QED BY <2>1 DEF Sound, Chained
<1>8. Sound(g, l)
  BY <1>1, <1>3, <1>6, <1>7, ReplacedIsSound
<1>9. Entries(g) = RemoveAt(Entries(h), Where(Entries(h), k))
  BY <1>1, <1>3, <1>6, <1>7, ReplacedEntry
<1>10. /\ Tombstones(g) = Tombstones(h) \cup {e} /\ e \notin Tombstones(h)
       /\ Cardinality(Tombstones(g)) = Cardinality(Tombstones(h)) + 1
  <2>1. Slots(g) = Slots(h)
    BY <1>5 DEF Slots
  <2>2. \A i \in Slots(h) : g.buckets[i] = IF i = e THEN x ELSE h.buckets[i]
    BY <1>1, <1>5 DEF buckets
  <2>3. Tombstones(g) = Tombstones(h) \cup {e} /\ e \notin Tombstones(h)
    BY <1>3, <2>1, <2>2 DEF Tombstones
  <2> QED BY <1>1, <2>3, TombstonesFinite, FS_AddElement
<1>11. Len(Entries(g)) = Len(Entries(h)) - 1
  <2>1. PICK e2 \in Slots(h) : /\ find_entry(h, k) = {e2}
                               /\ h.buckets[e2].key # NIL =>
                                    Where(Entries(h), k) \in 1 .. Len(Entries(h))
    BY SearchFinds
  <2>2. find_entry(h, k) = {e}
    BY FindsKey DEF Sound
  <2>3. e \in find_entry(h, k) /\ \A i \in find_entry(h, k) : i = e2
    BY <2>1, <2>2
  <2>4. Where(Entries(h), k) \in 1 .. Len(Entries(h))
    BY <1>1, <2>1, <2>3
  <2>5. Entries(h) \in Seq(Stored)
    BY EntriesType
  <2> QED BY <1>9, <2>4, <2>5, RemoveAtPlaces
<1>12. Counted(g, l)
  BY <1>1, <1>5, <1>10, <1>11 DEF Counted
<1> QED BY <1>5, <1>8, <1>9, <1>12 DEF Good, g

-----------------------------------------------------------------------------
(* Moving to a larger table                                                *)

\* No two entries have the same key.
LEMMA EntriesDistinct ==
  ASSUME NEW h, NEW l, Sound(h, l)
  PROVE  /\ Entries(h) \in Seq(Stored)
         /\ \A i \in 1 .. Len(Entries(h)) : Entries(h)[i].key # NIL
         /\ \A i, j \in 1 .. Len(Entries(h)) : Entries(h)[i].key = Entries(h)[j].key => i = j
<1> DEFINE b == Contents(h, l)
           L == Len(l)
           es == Entries(h)
<1>1. /\ b \in Seq(Stored) /\ Len(b) = L /\ L \in Nat
      /\ \A n \in 1 .. L : l[n] \in Slots(h) /\ b[n] = h.buckets[l[n]]
  BY ContentsType DEF Sound
<1>2. PICK s : Kept(s, b) /\ es = s[L]
  BY EntriesOf DEF Sound
<1>3. es \in Seq(Stored)
  BY EntriesType
<1> HIDE DEF b, es
<1>4. Numbered(s, b, L)
  BY <1>1, <1>2, KeptIsNumbered
<1>5. \A i \in 1 .. Len(es) : \E j \in 1 .. L : b[j].key # NIL /\ Len(s[j]) = i /\ es[i] = b[j]
  BY <1>2, <1>4 DEF Numbered
<1>6. ASSUME NEW i \in 1 .. Len(es), NEW j \in 1 .. Len(es), es[i].key = es[j].key
      PROVE  i = j
  <2>1. PICK x \in 1 .. L : b[x].key # NIL /\ Len(s[x]) = i /\ es[i] = b[x]
    BY <1>5
  <2>2. PICK y \in 1 .. L : b[y].key # NIL /\ Len(s[y]) = j /\ es[j] = b[y]
    BY <1>5
  <2>3. l[x] = l[y]
    BY <1>1, <1>6, <2>1, <2>2 DEF Sound, Reachable
  <2>4. x = y
    BY <2>3 DEF Sound, Chained
  <2> QED BY <2>1, <2>2, <2>4
<1> QED BY <1>3, <1>5, <1>6 DEF es

\* Nothing is left out where everything has a key.
LEMMA KeptWhole ==
  ASSUME NEW b \in Seq(Stored), NEW s, Kept(s, b), \A i \in 1 .. Len(b) : b[i].key # NIL
  PROVE  s[Len(b)] = b
<1> DEFINE L == Len(b)
           S == {n \in 0 .. L : Len(s[n]) = n /\ \A i \in 1 .. n : s[n][i] = b[i]}
<1>1. L \in Nat
  OBVIOUS
<1>2. 0 \in S
  BY <1>1 DEF Kept
<1>3. ASSUME NEW n \in 0 .. L - 1, n \in S PROVE n + 1 \in S
  <2>1. /\ n + 1 \in 1 .. L /\ n + 1 \in 0 .. L /\ n \in 0 .. L /\ n \in Nat
        /\ b[n + 1] \in Stored
    BY <1>1, ElementOfSeq
  <2>2. s[n + 1] = Append(s[n], b[n + 1]) /\ s[n] \in Seq(Stored)
    BY <2>1 DEF Kept
  <2>3. Len(s[n]) = n /\ \A i \in 1 .. n : s[n][i] = b[i]
    BY <1>3
  <2>4. /\ Len(s[n + 1]) = n + 1 /\ s[n + 1][n + 1] = b[n + 1]
        /\ \A i \in 1 .. n : s[n + 1][i] = s[n][i]
    BY <2>1, <2>2, <2>3, AppendKeeps
  <2>5. \A i \in 1 .. n + 1 : i \in 1 .. n \/ i = n + 1
    BY <2>1
  <2>6. \A i \in 1 .. n + 1 : s[n + 1][i] = b[i]
    BY <2>3, <2>4, <2>5
  <2> QED BY <2>1, <2>4, <2>6
<1> HIDE DEF S
<1>4. 0 .. L \subseteq S
  BY <1>1, <1>2, <1>3, IntervalInduction
<1>5. L \in S /\ s[L] \in Seq(Stored)
  BY <1>1, <1>4 DEF Kept
<1>6. Len(s[L]) = L /\ \A i \in 1 .. L : s[L][i] = b[i]
  BY <1>5 DEF S
<1> HIDE DEF L
<1>7. s[L] = b
  BY <1>5, <1>6, SeqEqual DEF L
<1> QED BY <1>7 DEF L

\* The first n of es are in the larger table h, and nothing else.
Moved(h, es, c, n) ==
  /\ \E l : Sound(h, l) /\ Len(l) = n /\ \A i \in 1 .. n : h.buckets[l[i]] = es[i]
  /\ h.capacity = c /\ h.count = Len(es) /\ h.tombstone_count = 0

LEMMA RelinkMoves ==
  ASSUME NEW es \in Seq(Stored), \A i \in 1 .. Len(es) : es[i].key # NIL,
         \A i, j \in 1 .. Len(es) : es[i].key = es[j].key => i = j,
         NEW c \in Nat, Len(es) < c, NEW n \in 0 .. Len(es) - 1, NEW h, Moved(h, es, c, n)
  PROVE  Moved(Relink(h, es[n + 1]), es, c, n + 1)
<1> DEFINE k == es[n + 1].key
           v == es[n + 1].value
           P == Slots(h)
           stops == {i \in DOMAIN h.buckets : h.buckets[i].key = NIL}
<1>1. PICK l : Sound(h, l) /\ Len(l) = n /\ \A i \in 1 .. n : h.buckets[l[i]] = es[i]
  BY DEF Moved
<1>2. /\ n \in Nat /\ n + 1 \in 1 .. Len(es) /\ n < c /\ h.capacity = c
      /\ \A i \in 1 .. n : i \in 1 .. Len(es) /\ i # n + 1
  BY DEF Moved
<1>3. es[n + 1] \in Stored
  BY <1>2, ElementOfSeq
<1>4. k \in Key /\ v \in Value \cup {DEAD} /\ es[n + 1] = Bucket(k, v)
  BY <1>2, <1>3 DEF Stored, Bucket
<1>5. /\ DOMAIN h.buckets = P /\ h.capacity \in Nat \ {0}
      /\ \A i \in P : h.buckets[i] # Empty <=> \E j \in 1 .. n : l[j] = i
  BY <1>1 DEF Sound, Typed, Tables, Slots, Chained
<1>6. \A i \in P : h.buckets[i] # Empty => \E j \in 1 .. n : h.buckets[i] = es[j]
  BY <1>1, <1>5
<1>7. k # NIL /\ Empty.key = NIL
  BY <1>2 DEF Empty, Bucket
<1>8. Absent(h, k)
  BY <1>2, <1>6, <1>7 DEF Absent
<1>9. stops = {i \in P : h.buckets[i] = Empty}
  BY <1>2, <1>5, <1>6, <1>7
<1>10. PICK r \in P : h.buckets[r] = Empty
  BY <1>1, <1>2, RoomIsEmpty DEF Sound
<1> HIDE DEF stops
<1>11. PICK t \in P : At(h, k, t) \in stops /\ Probe(h, k, stops) = {At(h, k, t)}
                      /\ \A j \in 0 .. t - 1 : At(h, k, j) \notin stops
  BY <1>4, <1>5, <1>9, <1>10, ProbeStops
<1> DEFINE e == At(h, k, t)
           g == Link(h, e, k, v)
<1>12. e \in P /\ h.buckets[e] = Empty
  BY <1>9, <1>11
<1>13. Passes(h, k, t)
  <2>1. \A j \in 0 .. t - 1 : j \in P
    BY <1>5 DEF Slots
  <2>2. \A j \in 0 .. t - 1 : At(h, k, j) \in P
    BY <1>4, <1>5, <2>1, StepsVisitAll
  <2> QED BY <1>9, <1>11, <2>2 DEF Passes
<1>14. Relink(h, es[n + 1]) = g
  <2>1. (CHOOSE i \in Probe(h, k, stops) : TRUE) = e
    BY <1>11
  <2> QED BY <2>1 DEF Relink, stops
<1> HIDE DEF k, v
<1>15. /\ Added(g, h, e, k, v) /\ g.count = h.count /\ g.tombstone_count = h.tombstone_count
  <2>1. Typed(h)
    BY <1>1 DEF Sound
  <2> HIDE DEF e
  <2> QED BY <1>4, <1>12, <2>1, LinkAdds
<1> HIDE DEF g
<1> DEFINE d == Append(l, e)
<1>16. Sound(g, d) /\ Contents(g, d) = Append(Contents(h, l), Bucket(k, v))
  BY <1>1, <1>4, <1>8, <1>11, <1>12, <1>13, <1>15, AddedIsSound
<1>17. /\ Len(d) = n + 1
       /\ \A i \in 1 .. n + 1 : g.buckets[d[i]] = es[i]
  <2> DEFINE b == Contents(h, l)
             x == Bucket(k, v)
  <2>1. b \in Seq(Stored) /\ Len(b) = n /\ \A i \in 1 .. n : b[i] = es[i]
    BY <1>1, ContentsType DEF Sound
  <2> HIDE DEF d
  <2>2. /\ Contents(g, d) \in Seq(Stored) /\ Len(Contents(g, d)) = Len(d)
        /\ \A i \in 1 .. Len(d) : Contents(g, d)[i] = g.buckets[d[i]]
    <3>1. Typed(g) /\ Chained(g, d)
      BY <1>16 DEF Sound
    <3> QED BY <3>1, ContentsType
  <2> HIDE DEF b, x
  <2>3. x \in Stored /\ x = es[n + 1]
    BY <1>3, <1>4 DEF x
  <2>4. /\ Len(Append(b, x)) = n + 1 /\ Append(b, x)[n + 1] = x
        /\ \A i \in 1 .. n : Append(b, x)[i] = b[i]
    BY <2>1, <2>3, AppendKeeps
  <2>5. Contents(g, d) = Append(b, x)
    BY <1>16 DEF b, x
  <2>6. \A i \in 1 .. n + 1 : i \in 1 .. n \/ i = n + 1
    BY <1>2
  <2> QED BY <2>1, <2>2, <2>3, <2>4, <2>5, <2>6
<1>18. g.capacity = c /\ g.count = Len(es) /\ g.tombstone_count = 0
  BY <1>2, <1>15 DEF Moved, Added
<1>19. Moved(g, es, c, n + 1)
  BY <1>16, <1>17, <1>18 DEF Moved
<1> QED BY <1>14, <1>19

\* The table h has c buckets, all empty, and its count stands at n.
New(h, c, n) ==
  h = [capacity |-> c, count |-> n, tombstone_count |-> 0, buckets |-> Table(c),
       next |-> Pointers(c), last |-> HEAD]

LEMMA NewIsSound ==
  ASSUME NEW c \in Nat \ {0, 1}, NEW n \in Nat, NEW h, New(h, c, n)
  PROVE  /\ Sound(h, <<>>) /\ h.capacity = c /\ h.count = n /\ h.tombstone_count = 0
<1>1. /\ h.capacity = c /\ h.buckets = Table(c) /\ h.next = Pointers(c) /\ h.last = HEAD
      /\ h.count = n /\ h.tombstone_count = 0
  BY DEF New
<1>2. Table(c) \in [0 .. c - 1 -> Stored]
  <2>1. Empty \in Stored
    BY KeyAssumption DEF Empty, Bucket, Stored
  <2> QED BY <2>1 DEF Table
<1>3. Pointers(c) \in [(0 .. c - 1) \cup {HEAD, NIL} -> (0 .. c - 1) \cup {NIL}]
  BY DEF Pointers
<1>4. /\ \A i \in Slots(h) : h.buckets[i] = Empty
      /\ h.next[HEAD] = NIL /\ h.next[NIL] = NIL
  BY <1>1 DEF Table, Pointers, Slots
<1>5. h \in Tables(c)
  BY <1>2, <1>3 DEF Tables, New
<1>6. Typed(h)
  BY <1>1, <1>4, <1>5 DEF Typed
<1>7. Chained(h, <<>>)
  <2>1. Before(<<>>, Len(<<>>) + 1) = HEAD
    BY DEF Before
  <2> QED BY <1>1, <1>4, <2>1 DEF Chained
<1>8. Reachable(h)
  BY <1>4 DEF Reachable, Empty, Bucket
<1> QED BY <1>1, <1>6, <1>7, <1>8 DEF Sound

\* Nothing has moved to the larger table yet.
LEMMA LargerIsEmpty ==
  ASSUME NEW l, Sound(m, l), Counted(m, l)
  PROVE  Moved(Larger, Entries(m), RESIZE_FACTOR * m.capacity, 0)
<1> DEFINE c == RESIZE_FACTOR * m.capacity
           n == m.count - m.tombstone_count
<1>1. m \in Tables(m.capacity) /\ m.capacity \in Nat \ {0, 1}
  BY DEF Sound, Typed
<1>2. c \in Nat \ {0, 1}
  BY <1>1 DEF RESIZE_FACTOR
<1>3. n = Len(Entries(m)) /\ n \in Nat
  <2>1. Entries(m) \in Seq(Stored)
    BY EntriesType
  <2> QED BY <2>1 DEF Counted
<1>4. Larger = [m EXCEPT !.capacity = c, !.buckets = Table(c), !.next = Pointers(c),
                         !.last = HEAD, !.count = n, !.tombstone_count = 0]
  BY DEF Larger
<1> HIDE DEF c, n
<1>5. New(Larger, c, n)
  BY <1>1, <1>4 DEF Tables, New
<1>6. /\ Sound(Larger, <<>>) /\ Larger.capacity = c
      /\ Larger.count = n /\ Larger.tombstone_count = 0
  BY <1>2, <1>3, <1>5, NewIsSound
<1>7. Len(<<>>) = 0 /\ \A i \in 1 .. 0 : Larger.buckets[<<>>[i]] = Entries(m)[i]
  OBVIOUS
<1>8. Moved(Larger, Entries(m), c, 0)
  BY <1>3, <1>6, <1>7 DEF Moved
<1> QED BY <1>8 DEF c

\* One entry after the other moves.
LEMMA AllMove ==
  ASSUME NEW es \in Seq(Stored), \A i \in 1 .. Len(es) : es[i].key # NIL,
         \A i, j \in 1 .. Len(es) : es[i].key = es[j].key => i = j,
         NEW c \in Nat, Len(es) < c, NEW f, Moved(f[0], es, c, 0),
         \A n \in 0 .. Len(es) - 1 :
           Moved(f[n], es, c, n) => f[n + 1] = Relink(f[n], es[n + 1])
  PROVE  \A n \in 0 .. Len(es) : Moved(f[n], es, c, n)
<1> DEFINE S == {n \in 0 .. Len(es) : Moved(f[n], es, c, n)}
<1>1. Len(es) \in Nat /\ 0 \in S
  OBVIOUS
<1>2. ASSUME NEW n \in 0 .. Len(es) - 1, n \in S PROVE n + 1 \in S
  <2>1. Moved(f[n], es, c, n) /\ n + 1 \in 0 .. Len(es)
    BY <1>1, <1>2
  <2>2. f[n + 1] = Relink(f[n], es[n + 1])
    BY <2>1
  <2>3. Moved(Relink(f[n], es[n + 1]), es, c, n + 1)
    BY <2>1, RelinkMoves
  <2> QED BY <2>1, <2>2, <2>3
<1> HIDE DEF S
<1>3. 0 .. Len(es) \subseteq S
  BY <1>1, <1>2, IntervalInduction
<1> QED BY <1>3 DEF S

\* The moves from table to table exist.
LEMMA MovesExist ==
  ASSUME NEW es \in Seq(Stored), \A i \in 1 .. Len(es) : es[i].key # NIL,
         \A i, j \in 1 .. Len(es) : es[i].key = es[j].key => i = j,
         NEW c \in Nat, Len(es) < c, NEW h, Moved(h, es, c, 0)
  PROVE  \E f : f = [n \in 0 .. Len(es) |-> IF n = 0 THEN h ELSE Relink(f[n - 1], es[n])]
<1> DEFINE L == Len(es)
           V == Tables(c)
           step == [x \in Nat \X V |->
                      IF x[1] < L /\ Relink(x[2], es[x[1] + 1]) \in V
                      THEN Relink(x[2], es[x[1] + 1]) ELSE x[2]]
<1>1. \A g, n : Moved(g, es, c, n) => g \in V
  BY DEF Moved, Sound, Typed
<1>2. h \in V /\ L \in Nat
  BY <1>1
<1> HIDE DEF V
<1>3. step \in [Nat \X V -> V]
  <2>1. \A x \in Nat \X V : (IF x[1] < L /\ Relink(x[2], es[x[1] + 1]) \in V
                             THEN Relink(x[2], es[x[1] + 1]) ELSE x[2]) \in V
    OBVIOUS
  <2> QED BY <2>1
<1>4. \A i \in 0 .. L - 1, w \in V :
        Relink(w, es[i + 1]) \in V => step[<<i, w>>] = Relink(w, es[i + 1])
  <2> SUFFICES ASSUME NEW i \in 0 .. L - 1, NEW w \in V, Relink(w, es[i + 1]) \in V
               PROVE  step[<<i, w>>] = Relink(w, es[i + 1])
    OBVIOUS
  <2>1. <<i, w>> \in Nat \X V /\ <<i, w>>[1] = i /\ <<i, w>>[2] = w /\ i < L
    BY <1>2
  <2> HIDE DEF L
  <2> QED BY <2>1
<1> HIDE DEF step
<1>5. PICK f \in [0 .. L -> V] : Run(f, h, step, L)
  BY <1>2, <1>3, RunsExist
<1>6. ASSUME NEW n \in 0 .. L - 1, Moved(f[n], es, c, n) PROVE f[n + 1] = Relink(f[n], es[n + 1])
  <2>1. Moved(Relink(f[n], es[n + 1]), es, c, n + 1)
    BY <1>6, RelinkMoves
  <2>2. Relink(f[n], es[n + 1]) \in V /\ f[n] \in V
    BY <1>1, <1>6, <2>1
  <2>3. f[n + 1] = step[<<n, f[n]>>]
    BY <1>5 DEF Run
  <2> QED BY <1>4, <2>2, <2>3
<1>7. Moved(f[0], es, c, 0) /\ f[0] = h
  BY <1>5 DEF Run
<1>8. \A n \in 0 .. L : Moved(f[n], es, c, n)
  BY <1>6, <1>7, AllMove
<1>9. \A n \in 0 .. L : f[n] = IF n = 0 THEN h ELSE Relink(f[n - 1], es[n])
  <2> TAKE n \in 0 .. L
  <2>1. CASE n = 0
    BY <1>7, <2>1
  <2>2. CASE n # 0
    <3>1. n - 1 \in 0 .. L - 1 /\ n - 1 \in 0 .. L /\ (n - 1) + 1 = n
      BY <1>2, <2>2
    <3>2. f[(n - 1) + 1] = Relink(f[n - 1], es[(n - 1) + 1])
      BY <1>6, <1>8, <3>1
    <3> QED BY <2>2, <3>1, <3>2
  <2> QED BY <2>1, <2>2
<1>10. f = [n \in 0 .. L |-> f[n]]
  BY <1>5
<1>11. f = [n \in 0 .. L |-> IF n = 0 THEN h ELSE Relink(f[n - 1], es[n])]
  BY <1>9, <1>10
<1> QED BY <1>11

\* When all have moved the table is as good as the old one.
LEMMA MovedIsGood ==
  ASSUME NEW es \in Seq(Stored), \A i \in 1 .. Len(es) : es[i].key # NIL,
         NEW c \in Nat, 4 * Len(es) <= 3 * c, NEW h, Moved(h, es, c, Len(es))
  PROVE  Good(h) /\ Entries(h) = es /\ h.capacity = c /\ h.count = Len(es)
<1>1. PICK l : Sound(h, l) /\ Len(l) = Len(es) /\ \A i \in 1 .. Len(es) : h.buckets[l[i]] = es[i]
  BY DEF Moved
<1>2. h.capacity = c /\ h.count = Len(es) /\ h.tombstone_count = 0 /\ Len(es) \in Nat
  BY DEF Moved
<1> DEFINE b == Contents(h, l)
<1>3. b \in Seq(Stored) /\ Len(b) = Len(l) /\ \A i \in 1 .. Len(l) : b[i] = h.buckets[l[i]]
  BY <1>1, ContentsType DEF Sound
<1>4. PICK s : Kept(s, b) /\ Entries(h) = s[Len(l)]
  BY <1>1, EntriesOf DEF Sound
<1> HIDE DEF b
<1>5. b = es
  BY <1>1, <1>3, SeqEqual
<1>6. Entries(h) = es
  BY <1>1, <1>3, <1>4, <1>5, KeptWhole
<1>7. Tombstones(h) = {}
  <2>1. ASSUME NEW i \in Slots(h), h.buckets[i] = Tombstone PROVE FALSE
    <3>1. Tombstone # Empty /\ Tombstone.key = NIL
      BY KeyAssumption DEF Tombstone, Empty, Bucket, DEAD
    <3>2. PICK j \in 1 .. Len(l) : l[j] = i
      BY <1>1, <2>1, <3>1 DEF Sound, Chained
    <3> QED BY <1>1, <2>1, <3>1, <3>2
  <2> QED BY <2>1 DEF Tombstones
<1>8. Counted(h, l)
  BY <1>1, <1>2, <1>6, <1>7, FS_EmptySet DEF Counted
<1> QED BY <1>1, <1>2, <1>6, <1>8 DEF Good

\* hashmap_resize keeps the entries, and makes room for one more.
LEMMA ResizeKeepsGood ==
  ASSUME NEW l, Sound(m, l), Counted(m, l)
  PROVE  /\ Good(hashmap_resize) /\ Entries(hashmap_resize) = Entries(m)
         /\ hashmap_resize.capacity = RESIZE_FACTOR * m.capacity
         /\ 4 * (hashmap_resize.count + 1) <= 3 * hashmap_resize.capacity
<1> DEFINE es == Entries(m)
           c == RESIZE_FACTOR * m.capacity
           Is(f) == f = [n \in 0 .. Len(es) |-> IF n = 0 THEN Larger ELSE Relink(f[n - 1], es[n])]
           moved == CHOOSE f : Is(f)
<1>1. /\ es \in Seq(Stored) /\ Len(es) \in Nat
      /\ \A i \in 1 .. Len(es) : es[i].key # NIL
      /\ \A i, j \in 1 .. Len(es) : es[i].key = es[j].key => i = j
  BY EntriesDistinct
<1>2. c \in Nat /\ Len(es) < c /\ 4 * (Len(es) + 1) <= 3 * c
  <2>1. /\ m.capacity \in Nat /\ m.capacity >= 2 /\ 4 * m.count <= 3 * m.capacity
        /\ m.count \in Nat /\ m.tombstone_count \in Nat /\ Len(es) = m.count - m.tombstone_count
    BY DEF Sound, Typed, Tables, Counted
  <2>2. c = 2 * m.capacity
    BY DEF RESIZE_FACTOR
  <2> HIDE DEF c, es
  <2>3. c \in Nat /\ Len(es) <= m.count
    BY <1>1, <2>1, <2>2
  <2> QED BY <1>1, <2>1, <2>2, <2>3
<1>3. Moved(Larger, es, c, 0)
  BY LargerIsEmpty
<1>4. hashmap_resize = moved[Len(es)]
  BY DEF hashmap_resize
<1> HIDE DEF es, c
<1>5. \E f : Is(f)
  BY <1>1, <1>2, <1>3, MovesExist
<1>6. Is(moved)
  BY <1>5
<1> HIDE DEF moved
<1>7. moved[0] = Larger
  <2>1. 0 \in 0 .. Len(es)
    BY <1>1
  <2> QED BY <1>6, <2>1
<1>8. \A n \in 0 .. Len(es) - 1 : moved[n + 1] = Relink(moved[n], es[n + 1])
  <2> TAKE n \in 0 .. Len(es) - 1
  <2>1. n + 1 \in 0 .. Len(es) /\ n + 1 # 0 /\ (n + 1) - 1 = n
    BY <1>1
  <2> QED BY <1>6, <2>1
<1>9. \A n \in 0 .. Len(es) : Moved(moved[n], es, c, n)
  <2>1. Moved(moved[0], es, c, 0)
    BY <1>3, <1>7
  <2> QED BY <1>1, <1>2, <1>8, <2>1, AllMove
<1>10. Moved(hashmap_resize, es, c, Len(es))
  BY <1>1, <1>4, <1>9
<1>11. 4 * Len(es) <= 3 * c
  BY <1>1, <1>2
<1>12. /\ Good(hashmap_resize) /\ Entries(hashmap_resize) = es
       /\ hashmap_resize.capacity = c /\ hashmap_resize.count = Len(es)
  BY <1>1, <1>2, <1>10, <1>11, MovedIsGood
<1> QED BY <1>2, <1>12 DEF es, c

-----------------------------------------------------------------------------
(* The invariant                                                           *)

\* The buckets in use form one list, the counters count them, and a search for a key
\* gets to its bucket.
HInv == m.capacity \in CAPACITY .. MAX_CAPACITY /\ Good(m)

\* The map that is worked on after the load test has the entries of the map, and
\* room for one more.
LEMMA LoadedIsGood ==
  ASSUME HInv, MemoryForLoad
  PROVE  /\ Good(Loaded) /\ Loaded.capacity \in CAPACITY .. MAX_CAPACITY
         /\ Entries(Loaded) = Entries(m) /\ 4 * (Loaded.count + 1) <= 3 * Loaded.capacity
<1>1. PICK l : Sound(m, l) /\ Counted(m, l)
  BY DEF HInv, Good
<1>2. CASE Overloaded
  <2>1. /\ Good(hashmap_resize) /\ Entries(hashmap_resize) = Entries(m)
        /\ hashmap_resize.capacity = RESIZE_FACTOR * m.capacity
        /\ 4 * (hashmap_resize.count + 1) <= 3 * hashmap_resize.capacity
    BY <1>1, ResizeKeepsGood
  <2>2. RESIZE_FACTOR * m.capacity \in CAPACITY .. MAX_CAPACITY
    BY <1>2, CapacityAssumption DEF HInv, MemoryForLoad, RESIZE_FACTOR
  <2>3. Loaded = hashmap_resize
    BY <1>2 DEF Loaded
  <2> QED BY <2>1, <2>2, <2>3
<1>3. CASE ~ Overloaded
  <2>1. Loaded = m
    BY <1>3 DEF Loaded
  <2>2. m.capacity \in Nat /\ m.count \in Nat
    BY <1>1 DEF Sound, Typed, Tables
  <2>3. 4 * (m.count + 1) <= 3 * m.capacity
    BY <1>3, <2>2 DEF Overloaded
  <2> QED BY <2>1, <2>3 DEF HInv
<1> QED BY <1>2, <1>3

\* An empty map is good.
LEMMA CreateIsGood == Good(Create) /\ Entries(Create) = <<>> /\ Create.capacity = CAPACITY
<1>1. CAPACITY \in Nat \ {0, 1}
  BY CapacityAssumption
<1>2. New(Create, CAPACITY, 0)
  BY DEF Create, New
<1>3. Sound(Create, <<>>) /\ Create.capacity = CAPACITY /\ Create.count = 0 /\ Create.tombstone_count = 0
  BY <1>1, <1>2, NewIsSound
<1>4. Len(<<>>) = 0 /\ \A i \in 1 .. 0 : Create.buckets[<<>>[i]] = <<>>[i]
  OBVIOUS
<1>5. Moved(Create, <<>>, CAPACITY, Len(<<>>))
  BY <1>3, <1>4 DEF Moved
<1>6. <<>> \in Seq(Stored) /\ \A i \in 1 .. Len(<<>>) : <<>>[i].key # NIL
  OBVIOUS
<1>7. CAPACITY \in Nat /\ 4 * Len(<<>>) <= 3 * CAPACITY
  BY <1>1
<1> QED BY <1>5, <1>6, <1>7, MovedIsGood

\* The table g is good, as large as h, and es are its entries.
Becomes(g, h, es) == Good(g) /\ g.capacity = h.capacity /\ Entries(g) = es

\* What happens to a table with room when k is searched and then mapped to v.
LEMMA PutKeepsGood ==
  ASSUME NEW h, Good(h), 4 * (h.count + 1) <= 3 * h.capacity, NEW k \in Key, NEW v \in Value
  PROVE  \E e : /\ find_entry(h, k) = {e}
                /\ IF h.buckets[e].key = NIL
                   THEN /\ Where(Entries(h), k) = 0
                        /\ Becomes([Link(h, e, k, v) EXCEPT !.count = @ + 1], h,
                                   Append(Entries(h), Bucket(k, v)))
                   ELSE /\ h.buckets[e].key = k
                        /\ Where(Entries(h), k) \in 1 .. Len(Entries(h))
                        /\ Entries(h)[Where(Entries(h), k)] = h.buckets[e]
                        /\ Becomes(Updated(h, e, v), h,
                                   [Entries(h) EXCEPT ![Where(Entries(h), k)] = Bucket(k, v)])
<1>1. PICK l : Sound(h, l) /\ Counted(h, l)
  BY DEF Good
<1>2. PICK e \in Slots(h) :
        /\ find_entry(h, k) = {e}
        /\ IF h.buckets[e].key = NIL
           THEN /\ Absent(h, k) /\ Where(Entries(h), k) = 0
                /\ \E n \in Slots(h) : /\ e = At(h, k, n) /\ h.buckets[At(h, k, n)] = Empty
                                       /\ Passes(h, k, n)
           ELSE /\ h.buckets[e].key = k
                /\ Entries(h) \in Seq(Stored) /\ Where(Entries(h), k) \in 1 .. Len(Entries(h))
                /\ Entries(h)[Where(Entries(h), k)] = h.buckets[e]
  BY <1>1, SearchFinds
<1>3. CASE h.buckets[e].key = NIL
  <2>1. PICK n \in Slots(h) : e = At(h, k, n) /\ h.buckets[At(h, k, n)] = Empty /\ Passes(h, k, n)
    BY <1>2, <1>3
  <2> DEFINE g == [Link(h, At(h, k, n), k, v) EXCEPT !.count = h.count + 1]
  <2>2. Good(g) /\ g.capacity = h.capacity /\ Entries(g) = Append(Entries(h), Bucket(k, v))
    BY <1>1, <1>2, <1>3, <2>1, AddKeepsGood
  <2>3. [Link(h, e, k, v) EXCEPT !.count = @ + 1] = g
    <3> DEFINE f == Link(h, e, k, v)
    <3>1. Typed(h)
      BY <1>1 DEF Sound
    <3>2. Added(f, h, e, k, v) /\ f.count = h.count
      BY <3>1, LinkAdds
    <3> HIDE DEF f
    <3>3. [f EXCEPT !.count = @ + 1] = [f EXCEPT !.count = h.count + 1]
      BY <3>2 DEF Added, Tables
    <3> QED BY <2>1, <3>3 DEF f
  <2> HIDE DEF g
  <2> QED BY <1>2, <1>3, <2>2, <2>3 DEF Becomes
<1>4. CASE h.buckets[e].key # NIL
  <2> DEFINE g == Updated(h, e, v)
  <2>1. /\ Good(g) /\ g.capacity = h.capacity
        /\ Entries(g) = [Entries(h) EXCEPT ![Where(Entries(h), k)] = Bucket(k, v)]
    <3>1. h.buckets[e].key = k
      BY <1>2, <1>4
    <3> QED BY <1>1, <3>1, UpdateKeepsGood
  <2> HIDE DEF g
  <2> QED BY <1>2, <1>4, <2>1 DEF Becomes, g
<1> QED BY <1>3, <1>4

\* The same for a key that is searched, or removed.
LEMMA SearchKeepsGood ==
  ASSUME NEW h, Good(h), NEW k \in Key
  PROVE  \E e : /\ find_entry(h, k) = {e}
                /\ IF h.buckets[e].key = NIL THEN Where(Entries(h), k) = 0
                   ELSE /\ Where(Entries(h), k) \in 1 .. Len(Entries(h))
                        /\ Entries(h)[Where(Entries(h), k)] = h.buckets[e]
                        /\ Becomes([h EXCEPT !.buckets[e] = Tombstone, !.tombstone_count = @ + 1],
                                   h, RemoveAt(Entries(h), Where(Entries(h), k)))
<1>1. PICK l : Sound(h, l) /\ Counted(h, l)
  BY DEF Good
<1>2. PICK e \in Slots(h) :
        /\ find_entry(h, k) = {e}
        /\ IF h.buckets[e].key = NIL
           THEN Where(Entries(h), k) = 0
           ELSE /\ h.buckets[e].key = k
                /\ Where(Entries(h), k) \in 1 .. Len(Entries(h))
                /\ Entries(h)[Where(Entries(h), k)] = h.buckets[e]
  BY <1>1, SearchFinds
<1>3. CASE h.buckets[e].key = NIL
  BY <1>2, <1>3
<1>4. CASE h.buckets[e].key # NIL
  <2> DEFINE g == [h EXCEPT !.buckets[e] = Tombstone, !.tombstone_count = @ + 1]
  <2>1. /\ Good(g) /\ g.capacity = h.capacity
        /\ Entries(g) = RemoveAt(Entries(h), Where(Entries(h), k))
    BY <1>1, <1>2, <1>4, BuryKeepsGood
  <2> HIDE DEF g
  <2> QED BY <1>2, <1>4, <2>1 DEF Becomes, g
<1> QED BY <1>3, <1>4

-----------------------------------------------------------------------------
(* Every operation, and what it is for the user of the map                 *)

\* The abstract map finds its entries by the same search.
LEMMA PlaceIsWhere == ASSUME NEW k PROVE Abstract!Place(k) = Where(Entries(m), k)
BY DEF Abstract!Place, Where, SelectInSeq, Abstract!SelectInSeq, Abstract!Min, Min

\* The abstract map when k is mapped to v.
LEMMA WithNew ==
  ASSUME NEW k, NEW v, Where(Entries(m), k) = 0
  PROVE  ~ Abstract!Holds(k) /\ Abstract!With(k, v) = Append(Entries(m), Bucket(k, v))
BY PlaceIsWhere DEF Abstract!Holds, Abstract!With, Abstract!Pair, Bucket

LEMMA WithOld ==
  ASSUME NEW k, NEW v, Entries(m) \in Seq(Stored),
         Where(Entries(m), k) \in 1 .. Len(Entries(m)), Entries(m)[Where(Entries(m), k)].key = k
  PROVE  /\ Abstract!Holds(k)
         /\ Abstract!With(k, v) = [Entries(m) EXCEPT ![Where(Entries(m), k)] = Bucket(k, v)]
<1> DEFINE es == Entries(m)
           q == Where(es, k)
<1>1. es \in Seq(Stored) /\ q \in 1 .. Len(es) /\ es[q] \in Stored
  BY ElementOfSeq
<1>2. Abstract!Place(k) = q /\ q # 0 /\ es[q].key = k
  BY PlaceIsWhere
<1>3. [es[q] EXCEPT !.value = v] = Bucket(k, v)
  <2> HIDE DEF q, es
  <2> QED BY <1>1, <1>2 DEF Stored, Bucket
<1>4. [es EXCEPT ![q].value = v] = [es EXCEPT ![q] = [es[q] EXCEPT !.value = v]]
  OBVIOUS
<1> HIDE DEF q
<1>5. Abstract!With(k, v) = [es EXCEPT ![q].value = v]
  BY <1>2 DEF Abstract!With, Abstract!Holds
<1> QED BY <1>2, <1>3, <1>4, <1>5 DEF Abstract!Holds, q

LEMMA BecomesKeeps ==
  ASSUME NEW h, h.capacity \in CAPACITY .. MAX_CAPACITY, NEW es, Becomes(m', h, es)
  PROVE  HInv' /\ Entries(m)' = es
BY DEF Becomes, HInv

LEMMA HeldEntries ==
  ASSUME HInv
  PROVE  Entries(m) \in Seq(Stored)
BY EntriesType DEF HInv, Good

\* hashmap_set, hashmap_get_set and hashmap_set_free search the map that is loaded.
LEMMA PutSteps ==
  ASSUME HInv, MemoryForLoad, NEW k \in Key, NEW v \in Value
  PROVE  \E e : /\ find_entry(Loaded, k) = {e}
                /\ Loaded.buckets[e].key = NIL =>
                     /\ ~ Abstract!Holds(k)
                     /\ Add(Loaded, e, k, v) => HInv' /\ Entries(m)' = Abstract!With(k, v)
                /\ Loaded.buckets[e].key # NIL =>
                     /\ Abstract!Holds(k) /\ Entries(m)[Abstract!Place(k)] = Loaded.buckets[e]
                     /\ m' = Updated(Loaded, e, v) => HInv' /\ Entries(m)' = Abstract!With(k, v)
                     /\ m' = Loaded => HInv' /\ Entries(m)' = Entries(m)
<1> DEFINE h == Loaded
           es == Entries(m)
           q == Where(es, k)
<1>1. /\ Good(h) /\ h.capacity \in CAPACITY .. MAX_CAPACITY
      /\ Entries(h) = es /\ 4 * (h.count + 1) <= 3 * h.capacity
  BY LoadedIsGood
<1> HIDE DEF h
<1>2. PICK e : /\ find_entry(h, k) = {e}
               /\ IF h.buckets[e].key = NIL
                  THEN /\ Where(Entries(h), k) = 0
                       /\ Becomes([Link(h, e, k, v) EXCEPT !.count = @ + 1], h,
                                  Append(Entries(h), Bucket(k, v)))
                  ELSE /\ h.buckets[e].key = k
                       /\ Where(Entries(h), k) \in 1 .. Len(Entries(h))
                       /\ Entries(h)[Where(Entries(h), k)] = h.buckets[e]
                       /\ Becomes(Updated(h, e, v), h,
                                  [Entries(h) EXCEPT ![Where(Entries(h), k)] = Bucket(k, v)])
  BY <1>1, PutKeepsGood
<1> HIDE DEF es
<1>3. ASSUME h.buckets[e].key = NIL
      PROVE  /\ ~ Abstract!Holds(k)
             /\ Add(h, e, k, v) => HInv' /\ Entries(m)' = Abstract!With(k, v)
  <2> DEFINE g == [Link(h, e, k, v) EXCEPT !.count = @ + 1]
  <2>1. q = 0 /\ Becomes(g, h, Append(es, Bucket(k, v)))
    BY <1>1, <1>2, <1>3
  <2>2. ~ Abstract!Holds(k) /\ Abstract!With(k, v) = Append(es, Bucket(k, v))
    BY <2>1, WithNew DEF es
  <2>3. ASSUME Add(h, e, k, v) PROVE HInv' /\ Entries(m)' = Abstract!With(k, v)
    <3>1. m' = g
      BY <2>3 DEF Add
    <3> HIDE DEF g
    <3> QED BY <1>1, <2>1, <2>2, <3>1, BecomesKeeps
  <2> QED BY <2>2, <2>3
<1>4. ASSUME h.buckets[e].key # NIL
      PROVE  /\ Abstract!Holds(k) /\ es[Abstract!Place(k)] = h.buckets[e]
             /\ m' = Updated(h, e, v) => HInv' /\ Entries(m)' = Abstract!With(k, v)
             /\ m' = h => HInv' /\ Entries(m)' = es
  <2>1. /\ q \in 1 .. Len(es) /\ es[q] = h.buckets[e] /\ es[q].key = k
        /\ Becomes(Updated(h, e, v), h, [es EXCEPT ![q] = Bucket(k, v)])
    BY <1>1, <1>2, <1>4
  <2>2. Abstract!Holds(k) /\ Abstract!With(k, v) = [es EXCEPT ![q] = Bucket(k, v)]
    BY <2>1, HeldEntries, WithOld DEF es
  <2>3. Abstract!Place(k) = q
    BY PlaceIsWhere DEF es
  <2>4. ASSUME m' = Updated(h, e, v) PROVE HInv' /\ Entries(m)' = Abstract!With(k, v)
    BY <1>1, <2>1, <2>2, <2>4, BecomesKeeps
  <2>5. ASSUME m' = h PROVE HInv' /\ Entries(m)' = es
    BY <1>1, <2>5 DEF HInv
  <2> QED BY <2>1, <2>2, <2>3, <2>4, <2>5
<1> QED BY <1>2, <1>3, <1>4 DEF h, es

LEMMA SetSteps ==
  ASSUME HInv, NEW k \in Key, NEW v \in Value, hashmap_set(k, v)
  PROVE  HInv' /\ Abstract!Set(k, v)
<1>1. MemoryForLoad /\ out' = Result(0, <<>>)
  BY DEF hashmap_set
<1>2. PICK e : /\ find_entry(Loaded, k) = {e}
               /\ Loaded.buckets[e].key = NIL /\ Add(Loaded, e, k, v) =>
                    HInv' /\ Entries(m)' = Abstract!With(k, v)
               /\ Loaded.buckets[e].key # NIL /\ m' = Updated(Loaded, e, v) =>
                    HInv' /\ Entries(m)' = Abstract!With(k, v)
  BY <1>1, PutSteps
<1>3. IF Loaded.buckets[e].key = NIL THEN Add(Loaded, e, k, v) ELSE m' = Updated(Loaded, e, v)
  BY <1>2 DEF hashmap_set, Updated
<1>4. HInv' /\ Entries(m)' = Abstract!With(k, v)
  BY <1>2, <1>3
<1> QED BY <1>1, <1>4 DEF Abstract!Set, Abstract!Result, Result

LEMMA GetSetSteps ==
  ASSUME HInv, NEW k \in Key, NEW v \in Value, hashmap_get_set(k, v)
  PROVE  HInv' /\ Abstract!GetSet(k, v)
<1>1. MemoryForLoad
  BY DEF hashmap_get_set
<1>2. PICK e : /\ find_entry(Loaded, k) = {e}
               /\ Loaded.buckets[e].key = NIL =>
                    /\ ~ Abstract!Holds(k)
                    /\ Add(Loaded, e, k, v) => HInv' /\ Entries(m)' = Abstract!With(k, v)
               /\ Loaded.buckets[e].key # NIL =>
                    /\ Abstract!Holds(k) /\ Entries(m)[Abstract!Place(k)] = Loaded.buckets[e]
                    /\ m' = Loaded => HInv' /\ Entries(m)' = Entries(m)
  BY <1>1, PutSteps
<1>3. CASE Loaded.buckets[e].key = NIL
  <2>1. Add(Loaded, e, k, v) /\ out' = Result(0, <<Bucket(k, v)>>)
    BY <1>2, <1>3 DEF hashmap_get_set
  <2> QED BY <1>2, <1>3, <2>1
          DEF Abstract!GetSet, Abstract!Result, Abstract!Pair, Result, Bucket
<1>4. CASE Loaded.buckets[e].key # NIL
  <2>1. m' = Loaded /\ out' = Result(1, <<Loaded.buckets[e]>>)
    BY <1>2, <1>4 DEF hashmap_get_set
  <2> QED BY <1>2, <1>4, <2>1 DEF Abstract!GetSet, Abstract!Result, Result
<1> QED BY <1>3, <1>4

LEMMA SetFreeSteps ==
  ASSUME HInv, NEW k \in Key, NEW v \in Value, hashmap_set_free(k, v)
  PROVE  HInv' /\ (Abstract!Set(k, v) \/ \E error \in {-1, 0} : Abstract!SetFree(k, v, error))
<1>1. MemoryForLoad
  BY DEF hashmap_set_free
<1>2. PICK e : /\ find_entry(Loaded, k) = {e}
               /\ Loaded.buckets[e].key = NIL /\ Add(Loaded, e, k, v) =>
                    HInv' /\ Entries(m)' = Abstract!With(k, v)
               /\ Loaded.buckets[e].key # NIL =>
                    /\ Abstract!Holds(k) /\ Entries(m)[Abstract!Place(k)] = Loaded.buckets[e]
                    /\ m' = Updated(Loaded, e, v) => HInv' /\ Entries(m)' = Abstract!With(k, v)
  BY <1>1, PutSteps
<1>3. CASE Loaded.buckets[e].key = NIL
  <2>1. Add(Loaded, e, k, v) /\ out' = Result(0, <<>>)
    BY <1>2, <1>3 DEF hashmap_set_free
  <2> QED BY <1>2, <1>3, <2>1 DEF Abstract!Set, Abstract!Result, Result
<1>4. CASE Loaded.buckets[e].key # NIL
  <2>1. m' = Updated(Loaded, e, v) /\ \E error \in {-1, 0} : out' = Result(error, <<Loaded.buckets[e]>>)
    BY <1>2, <1>4 DEF hashmap_set_free, Updated
  <2> QED BY <1>2, <1>4, <2>1 DEF Abstract!SetFree, Abstract!Result, Result
<1> QED BY <1>3, <1>4

LEMMA SearchSteps ==
  ASSUME HInv, NEW k \in Key
  PROVE  \E e : /\ find_entry(m, k) = {e}
                /\ m.buckets[e].key = NIL => ~ Abstract!Holds(k)
                /\ m.buckets[e].key # NIL =>
                     /\ Abstract!Holds(k) /\ Abstract!Place(k) # 0
                     /\ Entries(m)[Abstract!Place(k)] = m.buckets[e]
                /\ Bury(e) => /\ HInv'
                              /\ Entries(m)' = IF Abstract!Holds(k)
                                               THEN RemoveAt(Entries(m), Abstract!Place(k))
                                               ELSE Entries(m)
<1> DEFINE es == Entries(m)
           q == Where(es, k)
<1>1. Good(m) /\ m.capacity \in CAPACITY .. MAX_CAPACITY
  BY DEF HInv
<1>2. PICK e : /\ find_entry(m, k) = {e}
               /\ IF m.buckets[e].key = NIL THEN q = 0
                  ELSE /\ q \in 1 .. Len(es) /\ es[q] = m.buckets[e]
                       /\ Becomes([m EXCEPT !.buckets[e] = Tombstone, !.tombstone_count = @ + 1],
                                  m, RemoveAt(es, q))
  BY <1>1, SearchKeepsGood
<1>3. Abstract!Place(k) = q /\ (Abstract!Holds(k) <=> q # 0)
  BY PlaceIsWhere DEF Abstract!Holds
<1> HIDE DEF q, es
<1>4. CASE m.buckets[e].key = NIL
  <2>1. ASSUME Bury(e) PROVE HInv' /\ Entries(m)' = es
    <3>1. m' = m
      BY <1>4, <2>1 DEF Bury
    <3> QED BY <1>1, <3>1 DEF HInv, es
  <2> QED BY <1>2, <1>3, <1>4, <2>1 DEF es
<1>5. CASE m.buckets[e].key # NIL
  <2> DEFINE h == [m EXCEPT !.buckets[e] = Tombstone, !.tombstone_count = @ + 1]
  <2>1. q \in 1 .. Len(es) /\ es[q] = m.buckets[e] /\ Becomes(h, m, RemoveAt(es, q))
    BY <1>2, <1>5
  <2>2. ASSUME Bury(e) PROVE HInv' /\ Entries(m)' = RemoveAt(es, q)
    <3>1. m' = h
      BY <1>5, <2>2 DEF Bury
    <3> HIDE DEF h
    <3> QED BY <1>1, <2>1, <3>1, BecomesKeeps
  <2>3. q # 0
    BY <2>1
  <2> QED BY <1>2, <1>3, <1>5, <2>1, <2>2, <2>3 DEF es
<1> QED BY <1>4, <1>5

LEMMA GetSteps ==
  ASSUME HInv, NEW k \in Key, hashmap_get(k)
  PROVE  HInv' /\ Abstract!Get(k)
<1>1. PICK e : /\ find_entry(m, k) = {e}
               /\ m.buckets[e].key = NIL => ~ Abstract!Holds(k)
               /\ m.buckets[e].key # NIL =>
                    Abstract!Holds(k) /\ Entries(m)[Abstract!Place(k)] = m.buckets[e]
  BY SearchSteps
<1>2. /\ out' = IF m.buckets[e].key = NIL THEN Result(0, <<>>) ELSE Result(1, <<m.buckets[e]>>)
      /\ m' = m
  BY <1>1 DEF hashmap_get
<1>3. HInv' /\ Entries(m)' = Entries(m)
  BY <1>2 DEF HInv
<1> QED BY <1>1, <1>2, <1>3 DEF Abstract!Get, Abstract!Result, Result

LEMMA RemoveSteps ==
  ASSUME HInv, NEW k \in Key, hashmap_remove(k) \/ hashmap_remove_free(k)
  PROVE  HInv' /\ Abstract!Delete(k)
<1>1. PICK e : /\ find_entry(m, k) = {e}
               /\ m.buckets[e].key = NIL => ~ Abstract!Holds(k)
               /\ m.buckets[e].key # NIL =>
                    /\ Abstract!Holds(k) /\ Abstract!Place(k) # 0
                    /\ Entries(m)[Abstract!Place(k)] = m.buckets[e]
               /\ Bury(e) => /\ HInv'
                             /\ Entries(m)' = IF Abstract!Holds(k)
                                              THEN RemoveAt(Entries(m), Abstract!Place(k))
                                              ELSE Entries(m)
  BY SearchSteps
<1>2. Bury(e) /\ \/ out' = Result(0, <<>>)
                 \/ m.buckets[e].key # NIL /\ out' = Result(0, <<m.buckets[e]>>)
  <2>1. CASE hashmap_remove(k)
    BY <1>1, <2>1 DEF hashmap_remove
  <2>2. CASE hashmap_remove_free(k)
    BY <1>1, <2>2 DEF hashmap_remove_free
  <2> QED BY <2>1, <2>2
<1>3. Entries(m)' = IF Abstract!Holds(k) THEN Abstract!RemoveAt(Entries(m), Abstract!Place(k))
                    ELSE Entries(m)
  BY <1>1, <1>2 DEF RemoveAt, Abstract!RemoveAt
<1>4. out' \in {Abstract!Result(0, <<>>)}
               \cup {Abstract!Result(0, <<Entries(m)[n]>>) : n \in {Abstract!Place(k)} \ {0}}
  BY <1>1, <1>2 DEF Abstract!Result, Result
<1> QED BY <1>1, <1>2, <1>3, <1>4 DEF Abstract!Delete

LEMMA IterateSteps ==
  ASSUME HInv, hashmap_iterate
  PROVE  HInv' /\ Abstract!Iterate
<1>1. /\ m' = m
      /\ \/ out' = Result(0, Entries(m))
         \/ \E n \in DOMAIN Entries(m) : out' = Result(-1, SubSeq(Entries(m), 1, n))
  BY DEF hashmap_iterate
<1>2. HInv' /\ Entries(m)' = Entries(m)
  BY <1>1 DEF HInv
<1>3. DOMAIN Entries(m) = 1 .. Len(Entries(m))
  BY HeldEntries, LenProperties
<1> QED BY <1>1, <1>2, <1>3 DEF Abstract!Iterate, Abstract!Result, Result

LEMMA SizeSteps ==
  ASSUME HInv, hashmap_size
  PROVE  HInv' /\ Abstract!Size
<1>1. m' = m /\ out' = Result(m.count - m.tombstone_count, <<>>)
  BY DEF hashmap_size
<1>2. HInv' /\ Entries(m)' = Entries(m)
  BY <1>1 DEF HInv
<1>3. Len(Entries(m)) = m.count - m.tombstone_count
  BY DEF HInv, Good, Counted
<1> QED BY <1>1, <1>2, <1>3 DEF Abstract!Size, Abstract!Result, Result

LEMMA FailSteps ==
  ASSUME HInv, ResizeFails
  PROVE  HInv' /\ Abstract!Fail
<1>1. m' = m /\ out' = Result(-1, <<>>)
  BY DEF ResizeFails
<1>2. HInv' /\ Entries(m)' = Entries(m)
  BY <1>1 DEF HInv
<1> QED BY <1>1, <1>2 DEF Abstract!Fail, Abstract!Result, Result

LEMMA InitH == MapInit => HInv /\ Abstract!Init
<1> SUFFICES ASSUME MapInit PROVE HInv /\ Abstract!Init
  OBVIOUS
<1>1. m = Create /\ out = Result(0, <<>>)
  BY DEF MapInit
<1>2. Good(m) /\ m.capacity = CAPACITY /\ Entries(m) = <<>>
  BY <1>1, CreateIsGood
<1>3. HInv
  BY <1>2, CapacityAssumption DEF HInv
<1> QED BY <1>1, <1>2, <1>3 DEF Abstract!Init, Abstract!Result, Result

\* Every operation keeps the invariant and is a step of the abstract map.
LEMMA NextH == HInv /\ [MapNext]_mapVars => HInv' /\ [Abstract!Next]_<<Entries(m), out>>
<1> SUFFICES ASSUME HInv, [MapNext]_mapVars
             PROVE  HInv' /\ [Abstract!Next]_<<Entries(m), out>>
  OBVIOUS
<1> USE DEF Abstract!Next
<1>1. CASE ResizeFails
  BY <1>1, FailSteps
<1>2. ASSUME NEW k \in Key, NEW v \in Value, hashmap_set(k, v) PROVE HInv' /\ Abstract!Next
  BY <1>2, SetSteps
<1>3. ASSUME NEW k \in Key, NEW v \in Value, hashmap_get_set(k, v) PROVE HInv' /\ Abstract!Next
  BY <1>3, GetSetSteps
<1>4. ASSUME NEW k \in Key, NEW v \in Value, hashmap_set_free(k, v) PROVE HInv' /\ Abstract!Next
  BY <1>4, SetFreeSteps
<1>5. ASSUME NEW k \in Key, hashmap_get(k) PROVE HInv' /\ Abstract!Next
  BY <1>5, GetSteps
<1>6. ASSUME NEW k \in Key, hashmap_remove(k) \/ hashmap_remove_free(k) PROVE HInv' /\ Abstract!Next
  BY <1>6, RemoveSteps
<1>7. CASE hashmap_size
  BY <1>7, SizeSteps
<1>8. CASE hashmap_iterate
  BY <1>8, IterateSteps
<1>9. CASE UNCHANGED mapVars
  <2>1. m' = m /\ out' = out
    BY <1>9 DEF mapVars
  <2> QED BY <2>1 DEF HInv
<1> QED BY <1>1, <1>2, <1>3, <1>4, <1>5, <1>6, <1>7, <1>8, <1>9 DEF MapNext

-----------------------------------------------------------------------------
(* The properties                                                          *)

\* The fields of the map keep their types, and the counters their bounds, however
\* often entries are added, removed and moved to a larger table.
THEOREM MapTyped == MapSpec => []MapTypeOK
<1>1. HInv => MapTypeOK
  <2> SUFFICES ASSUME HInv PROVE MapTypeOK
    OBVIOUS
  <2>1. PICK l : Sound(m, l) /\ Counted(m, l)
    BY DEF HInv, Good
  <2>2. /\ m.capacity \in CAPACITY .. MAX_CAPACITY /\ m.capacity \in Nat
        /\ m.buckets \in [Index -> Stored]
        /\ m.next \in [Index \cup {HEAD, NIL} -> Index \cup {NIL}]
        /\ m.last \in Index \cup {HEAD}
    BY <2>1 DEF HInv, Sound, Typed, Tables, Index
  <2>3. m.count \in Nat /\ m.tombstone_count \in Nat
    BY <2>1 DEF Sound, Typed, Tables
  <2>4. Len(Entries(m)) \in Nat
    BY HeldEntries, LenProperties
  <2>5. m.count \in 0 .. m.capacity /\ m.tombstone_count \in 0 .. m.count
    BY <2>1, <2>2, <2>3, <2>4 DEF Counted
  <2> QED BY <2>2, <2>5 DEF MapTypeOK, Stored
<1> QED BY <1>1, InitH, NextH, PTL DEF MapSpec

\* find_entry finds a bucket for every key, in the map or not, after every sequence of
\* operations: there is always an empty bucket for the search to stop at.
THEOREM SearchesEnd == MapSpec => []SearchEnds
<1>1. HInv => SearchEnds
  <2> SUFFICES ASSUME HInv, NEW k \in Key PROVE find_entry(m, k) # {}
    BY DEF SearchEnds
  <2>1. \E e : find_entry(m, k) = {e}
    BY SearchKeepsGood DEF HInv
  <2> QED BY <2>1
<1> QED BY <1>1, InitH, NextH, PTL DEF MapSpec

\* What the list of the map is.
LEMMA LinkedIs ==
  ASSUME NEW l, Sound(m, l)
  PROVE  Linked = l
<1> DEFINE c == m.capacity
           L == Len(l)
<1>1. /\ c \in Nat /\ L \in Nat /\ L <= c /\ l \in Seq(Slots(m))
      /\ \A n \in 1 .. L : l[n] \in Slots(m)
  BY ContentsType, RoomIsEmpty DEF Sound, Typed, Chained
<1>2. NIL \notin Slots(m)
  BY <1>1, PointerAssumption DEF Slots
<1>3. /\ DOMAIN List(m) = 1 .. c
      /\ \A n \in 1 .. c : List(m)[n] = IF n <= L THEN l[n] ELSE NIL
  BY ListOf DEF Sound
<1> HIDE DEF c, L
<1>4. {n \in DOMAIN List(m) : List(m)[n] # NIL} = 1 .. L
  BY <1>1, <1>2, <1>3
<1>5. Cardinality(1 .. L) = L
  BY <1>1, FS_Interval
<1>6. Linked = SubSeq(List(m), 1, L)
  BY <1>4, <1>5 DEF Linked
<1>7. \A n \in 1 .. L : List(m)[n] = l[n]
  BY <1>1, <1>3
<1> DEFINE u == SubSeq(List(m), 1, L)
<1>8. u \in Seq(Slots(m)) /\ Len(u) = L /\ \A n \in 1 .. L : u[n] = l[n]
  <2>1. \A n \in 1 .. L : List(m)[n] \in Slots(m)
    BY <1>1, <1>7
  <2>2. /\ u \in Seq(Slots(m)) /\ Len(u) = IF 1 <= L THEN L - 1 + 1 ELSE 0
        /\ \A n \in 1 .. L - 1 + 1 : u[n] = List(m)[1 + n - 1]
    BY <1>1, <2>1, SubSeqProperties
  <2> HIDE DEF u
  <2>3. \A n \in 1 .. L : n \in 1 .. L - 1 + 1 /\ 1 + n - 1 = n
    BY <1>1
  <2> QED BY <1>1, <1>7, <2>2, <2>3
<1> HIDE DEF u
<1>9. u = l
  BY <1>1, <1>8, SeqEqual DEF L
<1> QED BY <1>6, <1>9 DEF u

\* The list goes through every bucket in use once, tombstones included, and ends at
\* m->last; the counters agree with the table.
THEOREM ListStaysWhole == MapSpec => []ListIsWhole
<1>1. HInv => ListIsWhole
  <2> SUFFICES ASSUME HInv PROVE ListIsWhole
    OBVIOUS
  <2>1. PICK l : Sound(m, l) /\ Counted(m, l)
    BY DEF HInv, Good
  <2>2. Linked = l
    BY <2>1, LinkedIs
  <2>3. /\ l \in Seq(Slots(m)) /\ Len(l) \in Nat /\ DOMAIN l = 1 .. Len(l)
        /\ \A n \in 1 .. Len(l) : l[n] \in Slots(m)
    <3>1. l \in Seq(Slots(m))
      BY <2>1 DEF Sound, Chained
    <3> QED BY <3>1, LenProperties, ElementOfSeq
  <2>4. Index = Slots(m)
    BY DEF Index, Slots
  <2>5. IsInjective(l)
    BY <2>1, <2>3 DEF IsInjective, Sound, Chained
  <2>6. Range(l) = {i \in Index : m.buckets[i] # Empty}
    BY <2>1, <2>3, <2>4 DEF Range, Sound, Chained
  <2>7. m.last = IF l = <<>> THEN HEAD ELSE Last(l)
    <3>1. CASE l = <<>>
      BY <2>1, <3>1 DEF Sound, Chained, Before
    <3>2. CASE l # <<>>
      <4>1. Len(l) + 1 # 1 /\ (Len(l) + 1) - 1 = Len(l)
        BY <2>3, <3>2, EmptySeq
      <4> QED BY <2>1, <3>2, <4>1 DEF Sound, Chained, Before, Last
    <3> QED BY <3>1, <3>2
  <2>8. m.count = Len(l) /\ m.tombstone_count = Cardinality({i \in Index : m.buckets[i] = Tombstone})
    BY <2>1, <2>4 DEF Counted, Tombstones
  <2> QED BY <2>2, <2>5, <2>6, <2>7, <2>8 DEF ListIsWhole
<1> QED BY <1>1, InitH, NextH, PTL DEF MapSpec

\* The hash table is a map in the order of insertion: every step of its operations is a
\* step of OrderedMap or leaves what the user can see as it is.
THEOREM MapRefines == MapSpec => ImplementsOrderedMap
<1> QED BY InitH, NextH, PTL DEF MapSpec, ImplementsOrderedMap, Abstract!Spec

=============================================================================
