--------------------------- MODULE MsgDecodeProofs ---------------------------
(***************************************************************************)
(* Proofs about MsgDecode, for every set of frames and of damaged texts,   *)
(* every number of blocks, every size of a block, and whatever else has    *)
(* been in a block or lies behind it.                                      *)
(***************************************************************************)
EXTENDS MsgDecode, Induction, TLAPS

TextChar == Char \ {NUL}

-----------------------------------------------------------------------------
(* base64 *)

LEMMA FrameParts ==
  ASSUME NEW f \in Frame
  PROVE  /\ Len(f) \in Nat /\ Len(f) >= 2 /\ f[1] = Len(f) /\ f # <<>>
         /\ \A i \in 1 .. Len(f) : f[i] \in Byte
         /\ f \in [1 .. Len(f) -> Byte]
         /\ 4 * ((Len(f) + 2) \div 3) <= SIZE /\ SIZE \in Nat /\ SIZE >= 6
<1> HIDE DEF Byte
<1>1. f \in Seq(Byte) /\ f[1] = Len(f) /\ Len(f) >= 2 /\ 4 * ((Len(f) + 2) \div 3) <= SIZE
  BY FrameAssumption DEF HEADER
<1>2. f # <<>>
  <2> SUFFICES ASSUME f = <<>> PROVE FALSE
    OBVIOUS
  <2> QED BY <1>1
<1> QED BY <1>1, <1>2, SizeAssumption DEF HEADER, STATUS

\* The sextets of three bytes, and the bytes again.
LEMMA GroupParts ==
  ASSUME NEW a \in Byte, NEW b \in Byte, NEW c \in Byte
  PROVE  /\ Group(a, b, c)[1] = a \div 4 /\ a \div 4 \in Sextet
         /\ Group(a, b, c)[2] = (a % 4) * 16 + b \div 16 /\ (a % 4) * 16 + b \div 16 \in Sextet
         /\ Group(a, b, c)[3] = (b % 16) * 4 + c \div 64 /\ (b % 16) * 4 + c \div 64 \in Sextet
         /\ Group(a, b, c)[4] = c % 64 /\ c % 64 \in Sextet
<1>1. a \div 4 \in Sextet /\ c % 64 \in Sextet
  BY DEF Byte, Sextet
<1>2. a % 4 \in 0 .. 3 /\ b \div 16 \in 0 .. 15 /\ b % 16 \in 0 .. 15 /\ c \div 64 \in 0 .. 3
  BY DEF Byte
<1>3. (a % 4) * 16 + b \div 16 \in Sextet /\ (b % 16) * 4 + c \div 64 \in Sextet
  BY <1>2 DEF Sextet
<1> QED BY <1>1, <1>3 DEF Group

LEMMA BytesAgain ==
  ASSUME NEW a \in Byte, NEW b \in Byte, NEW c \in Byte
  PROVE  /\ (a \div 4) * 4 + ((a % 4) * 16 + b \div 16) \div 16 = a
         /\ (((a % 4) * 16 + b \div 16) % 16) * 16 + ((b % 16) * 4 + c \div 64) \div 4 = b
         /\ (((b % 16) * 4 + c \div 64) % 4) * 64 + (c % 64) = c
<1>1. a % 4 \in 0 .. 3 /\ b \div 16 \in 0 .. 15 /\ b % 16 \in 0 .. 15 /\ c \div 64 \in 0 .. 3
      /\ a \div 4 \in Nat /\ c % 64 \in 0 .. 63
      /\ a = (a \div 4) * 4 + (a % 4) /\ b = (b \div 16) * 16 + (b % 16) /\ c = (c \div 64) * 64 + (c % 64)
  BY DEF Byte
<1> DEFINE ah == a \div 4
           al == a % 4
           bh == b \div 16
           bl == b % 16
           ch == c \div 64
           cl == c % 64
<1> HIDE DEF ah, al, bh, bl, ch, cl
<1>2. /\ al \in 0 .. 3 /\ bh \in 0 .. 15 /\ bl \in 0 .. 15 /\ ch \in 0 .. 3 /\ ah \in Nat
      /\ cl \in 0 .. 63 /\ a = ah * 4 + al /\ b = bh * 16 + bl /\ c = ch * 64 + cl
  BY <1>1 DEF ah, al, bh, bl, ch, cl
<1>3. (al * 16 + bh) \div 16 = al /\ (al * 16 + bh) % 16 = bh
  BY <1>2
<1>4. (bl * 4 + ch) \div 4 = bl /\ (bl * 4 + ch) % 4 = ch
  BY <1>2
<1>5. ah * 4 + (al * 16 + bh) \div 16 = a
  BY <1>2, <1>3
<1>6. ((al * 16 + bh) % 16) * 16 + (bl * 4 + ch) \div 4 = b
  BY <1>2, <1>3, <1>4
<1>7. ((bl * 4 + ch) % 4) * 64 + cl = c
  BY <1>2, <1>4
<1> QED BY <1>5, <1>6, <1>7 DEF ah, al, bh, bl, ch, cl

\* Place k is the r-th of group i.
LEMMA Places4 ==
  ASSUME NEW i \in Nat, NEW r \in 1 .. 4
  PROVE  (4 * i + r - 1) \div 4 = i /\ ((4 * i + r - 1) % 4) + 1 = r
OBVIOUS

LEMMA Places3 ==
  ASSUME NEW i \in Nat, NEW r \in 1 .. 3
  PROVE  (3 * i + r - 1) \div 3 = i /\ ((3 * i + r - 1) % 3) + 1 = r
OBVIOUS

\* The groups of a frame, the last of which may be padded.
Groups(f) == (Len(f) + 2) \div 3
ByteAt(f, i) == IF i <= Len(f) THEN f[i] ELSE 0

LEMMA GroupCount ==
  ASSUME NEW f \in Frame
  PROVE  /\ Groups(f) \in Nat \ {0} /\ 4 * Groups(f) \in Nat
         /\ Len(f) <= 3 * Groups(f) /\ 3 * Groups(f) <= Len(f) + 2
<1>1. Len(f) \in Nat /\ Len(f) >= 2
  BY FrameParts
<1> DEFINE n == Len(f)
<1> HIDE DEF n
<1>2. n \in Nat /\ n >= 2
  BY <1>1 DEF n
<1>3. (n + 2) \div 3 \in Nat \ {0} /\ n <= 3 * ((n + 2) \div 3) /\ 3 * ((n + 2) \div 3) <= n + 2
  BY <1>2
<1> QED BY <1>3 DEF n, Groups

LEMMA EncodedPlace ==
  ASSUME NEW f \in Frame, NEW i \in 0 .. Groups(f) - 1, NEW r \in 1 .. 4
  PROVE  /\ 4 * i + r \in DOMAIN encode(f)
         /\ 3 * i + r - 1 <= Len(f) =>
              encode(f)[4 * i + r] =
                Group(ByteAt(f, 3 * i + 1), ByteAt(f, 3 * i + 2), ByteAt(f, 3 * i + 3))[r]
         /\ 3 * i + r - 1 > Len(f) => encode(f)[4 * i + r] = PAD
<1> DEFINE g == Groups(f)
           n == Len(f)
           k == 4 * i + r
           G(j) == Group(ByteAt(f, 3 * j + 1), ByteAt(f, 3 * j + 2), ByteAt(f, 3 * j + 3))
           C(j, s) == IF 3 * j + s - 1 <= n THEN G(j)[s] ELSE PAD
<1>1. g \in Nat \ {0} /\ n \in Nat
  BY GroupCount, FrameParts
<1>2. encode(f) = [l \in 1 .. 4 * g |-> C((l - 1) \div 4, ((l - 1) % 4) + 1)]
  BY DEF encode, Groups, ByteAt
<1>3. i \in Nat /\ (k - 1) \div 4 = i /\ ((k - 1) % 4) + 1 = r
  BY <1>1, Places4
<1>4. k \in 1 .. 4 * g
  BY <1>1
<1> HIDE DEF C, k
<1>5. encode(f)[k] = C((k - 1) \div 4, ((k - 1) % 4) + 1)
  BY <1>2, <1>4
<1>6. encode(f)[k] = C(i, r) /\ k \in DOMAIN encode(f)
  BY <1>2, <1>3, <1>4, <1>5
<1>7. ~ (n < 3 * i + r - 1 /\ 3 * i + r - 1 <= n)
  BY <1>1, <1>3
<1> QED BY <1>6, <1>7, <1>1, <1>3 DEF C, k

\* Group i of a frame, character by character.
LEMMA EncodedGroup ==
  ASSUME NEW f \in Frame, NEW i \in 0 .. Groups(f) - 1
  PROVE  LET e == encode(f)
             a == ByteAt(f, 3 * i + 1)
             b == ByteAt(f, 3 * i + 2)
             c == ByteAt(f, 3 * i + 3)
         IN  /\ a \in Byte /\ b \in Byte /\ c \in Byte /\ 3 * i + 1 <= Len(f)
             /\ e[4 * i + 1] = a \div 4 /\ e[4 * i + 1] \in Sextet
             /\ e[4 * i + 2] = (a % 4) * 16 + b \div 16 /\ e[4 * i + 2] \in Sextet
             /\ 3 * i + 2 <= Len(f) => e[4 * i + 3] = (b % 16) * 4 + c \div 64 /\ e[4 * i + 3] \in Sextet
             /\ 3 * i + 2 > Len(f) => e[4 * i + 3] = PAD
             /\ 3 * i + 3 <= Len(f) => e[4 * i + 4] = c % 64 /\ e[4 * i + 4] \in Sextet
             /\ 3 * i + 3 > Len(f) => e[4 * i + 4] = PAD
<1> DEFINE e == encode(f)
           n == Len(f)
           g == Groups(f)
           a == ByteAt(f, 3 * i + 1)
           b == ByteAt(f, 3 * i + 2)
           c == ByteAt(f, 3 * i + 3)
<1>1. n \in Nat /\ g \in Nat \ {0} /\ 3 * g <= n + 2 /\ \A j \in 1 .. n : f[j] \in Byte
  BY FrameParts, GroupCount
<1> HIDE DEF g
<1>2. i \in Nat /\ i <= g - 1 /\ 3 * i + 1 <= n
  BY <1>1 DEF g
<1>3. 0 \in Byte
  BY DEF Byte
<1>4. \A j \in Nat \ {0} : ByteAt(f, j) \in Byte
  <2> HIDE DEF Byte
  <2> QED BY <1>1, <1>3 DEF ByteAt
<1>5. a \in Byte /\ b \in Byte /\ c \in Byte
  BY <1>2, <1>4
<1> DEFINE G == Group(a, b, c)
<1>6. \A r \in 1 .. 4 :
        /\ (3 * i + r - 1 <= n => e[4 * i + r] = G[r])
        /\ (3 * i + r - 1 > n => e[4 * i + r] = PAD)
  BY EncodedPlace
<1>7. /\ G[1] = a \div 4 /\ G[1] \in Sextet
      /\ G[2] = (a % 4) * 16 + b \div 16 /\ G[2] \in Sextet
      /\ G[3] = (b % 16) * 4 + c \div 64 /\ G[3] \in Sextet
      /\ G[4] = c % 64 /\ G[4] \in Sextet
  BY <1>5, GroupParts
<1> HIDE DEF e, n, a, b, c, G
<1>8. e[4 * i + 1] = G[1]
  BY <1>1, <1>2, <1>6
<1>9. e[4 * i + 2] = G[2]
  BY <1>1, <1>2, <1>6
<1>10. (3 * i + 2 <= n => e[4 * i + 3] = G[3]) /\ (3 * i + 2 > n => e[4 * i + 3] = PAD)
  BY <1>1, <1>2, <1>6
<1>11. (3 * i + 3 <= n => e[4 * i + 4] = G[4]) /\ (3 * i + 3 > n => e[4 * i + 4] = PAD)
  BY <1>1, <1>2, <1>6
<1>12. /\ (3 * i + 2 <= n => e[4 * i + 3] = (b % 16) * 4 + c \div 64 /\ e[4 * i + 3] \in Sextet)
       /\ (3 * i + 3 <= n => e[4 * i + 4] = c % 64 /\ e[4 * i + 4] \in Sextet)
  BY <1>7, <1>10, <1>11
<1>13. /\ e[4 * i + 1] = a \div 4 /\ e[4 * i + 1] \in Sextet
       /\ e[4 * i + 2] = (a % 4) * 16 + b \div 16 /\ e[4 * i + 2] \in Sextet
  BY <1>7, <1>8, <1>9
<1> QED BY <1>2, <1>5, <1>10, <1>11, <1>12, <1>13 DEF e, n, a, b, c

\* The text of a frame is one without a terminator that fits a block.
LEMMA EncodedText ==
  ASSUME NEW f \in Frame
  PROVE  /\ encode(f) \in Seq(TextChar) /\ Len(encode(f)) = 4 * Groups(f)
         /\ 4 * Groups(f) <= SIZE
<1> DEFINE e == encode(f)
           g == Groups(f)
           m == 4 * g
<1>1. g \in Nat \ {0} /\ m \in Nat /\ m <= SIZE
  BY GroupCount, FrameParts DEF Groups
<1>2. DOMAIN e = 1 .. m /\ e = [k \in 1 .. m |-> e[k]]
  BY DEF encode, Groups
<1>3. Sextet \subseteq TextChar /\ PAD \in TextChar
  BY DEF Sextet, TextChar, Char, PAD, NUL, NOT_BASE64
<1> HIDE DEF e, g, m
<1>4. ASSUME NEW k \in 1 .. m PROVE e[k] \in TextChar
  <2> DEFINE i == (k - 1) \div 4
             r == ((k - 1) % 4) + 1
  <2>1. i \in 0 .. g - 1 /\ r \in {1, 2, 3, 4} /\ k = 4 * i + r /\ i \in Nat
    BY <1>1 DEF m
  <2> HIDE DEF i, r
  <2>2. /\ e[4 * i + 1] \in Sextet /\ e[4 * i + 2] \in Sextet
        /\ (3 * i + 2 <= Len(f) => e[4 * i + 3] \in Sextet) /\ (3 * i + 2 > Len(f) => e[4 * i + 3] = PAD)
        /\ (3 * i + 3 <= Len(f) => e[4 * i + 4] \in Sextet) /\ (3 * i + 3 > Len(f) => e[4 * i + 4] = PAD)
    BY <2>1, EncodedGroup DEF e, g
  <2>3. Len(f) \in Nat
    BY FrameParts
  <2>4. e[4 * i + 3] \in Sextet \cup {PAD} /\ e[4 * i + 4] \in Sextet \cup {PAD}
    BY <2>1, <2>2, <2>3
  <2>5. CASE r = 1
    BY <1>3, <2>1, <2>2, <2>5
  <2>6. CASE r = 2
    BY <1>3, <2>1, <2>2, <2>6
  <2>7. CASE r = 3
    BY <1>3, <2>1, <2>4, <2>7
  <2>8. CASE r = 4
    BY <1>3, <2>1, <2>4, <2>8
  <2> QED BY <2>1, <2>5, <2>6, <2>7, <2>8
<1>5. e \in Seq(TextChar) /\ Len(e) = m
  <2> HIDE DEF TextChar
  <2>1. e \in [1 .. m -> TextChar]
    BY <1>2, <1>4
  <2> QED BY <1>1, <2>1
<1> QED BY <1>1, <1>5 DEF e, m, g

\* What decodes at all is whole groups, of which padding costs two bytes at most.
LEMMA DecodedBytes ==
  ASSUME NEW t \in Seq(TextChar), tb64dec(t) # <<>>
  PROVE  \E h \in Nat \ {0} :
           /\ Len(t) = 4 * h /\ Pads(t) \in 0 .. 2
           /\ tb64dec(t) = [p \in 1 .. 3 * h - Pads(t) |-> Bytes(t, (p - 1) \div 3)[((p - 1) % 3) + 1]]
           /\ Len(tb64dec(t)) = 3 * h - Pads(t) /\ tb64dec(t)[1] = t[1] * 4 + t[2] \div 16
<1> DEFINE n == Len(t)
           h == n \div 4
           z == Pads(t)
           F(p) == Bytes(t, (p - 1) \div 3)[((p - 1) % 3) + 1]
           d == tb64dec(t)
<1>1. n \in Nat /\ n > 0 /\ n % 4 = 0 /\ d = Decode(t)
  BY DEF tb64dec
<1>2. h \in Nat \ {0} /\ n = 4 * h
  BY <1>1
<1>3. z \in 0 .. 2
  BY DEF Pads
<1>4. d = [p \in 1 .. 3 * h - z |-> F(p)]
  BY <1>1 DEF Decode
<1>5. F(1) = t[1] * 4 + t[2] \div 16
  BY DEF Bytes
<1> HIDE DEF n, h, z, F, d
<1>6. 3 * h - z \in Nat /\ 1 \in 1 .. 3 * h - z
  BY <1>2, <1>3
<1> DEFINE l == 3 * h - z
<1>7. d = [p \in 1 .. l |-> F(p)] /\ l \in Nat
  BY <1>4, <1>6
<1> HIDE DEF l
<1>8. Len(d) = l
  BY <1>7
<1>9. d[1] = F(1)
  BY <1>4, <1>6
<1> QED BY <1>2, <1>3, <1>4, <1>5, <1>8, <1>9 DEF n, h, z, d, l, F

LEMMA EncodedPads ==
  ASSUME NEW f \in Frame
  PROVE  Pads(encode(f)) = 3 * Groups(f) - Len(f)
<1> DEFINE e == encode(f)
           g == Groups(f)
           n == Len(f)
           i == g - 1
<1>1. g \in Nat \ {0} /\ n \in Nat /\ n <= 3 * g /\ 3 * g <= n + 2 /\ Len(e) = 4 * g
  BY GroupCount, FrameParts, EncodedText
<1>2. i \in 0 .. g - 1
  BY <1>1
<1>3. /\ (3 * i + 2 <= n => e[4 * i + 3] \in Sextet) /\ (3 * i + 2 > n => e[4 * i + 3] = PAD)
      /\ (3 * i + 3 <= n => e[4 * i + 4] \in Sextet) /\ (3 * i + 3 > n => e[4 * i + 4] = PAD)
  BY <1>2, EncodedGroup
<1>4. 4 * i + 4 = 4 * g /\ 4 * i + 3 = 4 * g - 1 /\ 3 * i + 3 = 3 * g /\ 3 * i + 2 = 3 * g - 1
  BY <1>1
<1>5. PAD \notin Sextet
  BY DEF PAD, Sextet
<1>6. Pads(e) = IF e[4 * g] # PAD THEN 0 ELSE IF e[4 * g - 1] # PAD THEN 1 ELSE 2
  BY <1>1 DEF Pads
<1> HIDE DEF e, g, n, i
<1>7. /\ (3 * g - 1 <= n => e[4 * g - 1] # PAD) /\ (3 * g - 1 > n => e[4 * g - 1] = PAD)
      /\ (3 * g <= n => e[4 * g] # PAD) /\ (3 * g > n => e[4 * g] = PAD)
  BY <1>3, <1>4, <1>5
<1>8. g \in Int /\ n \in Int /\ n <= 3 * g /\ 3 * g <= n + 2
  BY <1>1
<1>9. ASSUME n = 3 * g PROVE Pads(e) = 3 * g - n
  BY <1>6, <1>7, <1>8, <1>9
<1>10. ASSUME n = 3 * g - 1 PROVE Pads(e) = 3 * g - n
  BY <1>6, <1>7, <1>8, <1>10
<1>11. ASSUME n = 3 * g - 2 PROVE Pads(e) = 3 * g - n
  BY <1>6, <1>7, <1>8, <1>11
<1>12. Pads(e) = 3 * g - n
  BY <1>8, <1>9, <1>10, <1>11
<1> QED BY <1>12 DEF e, g, n

LEMMA EncodedDecodes ==
  ASSUME NEW f \in Frame
  PROVE  tb64dec(encode(f)) = f
<1> DEFINE e == encode(f)
           g == Groups(f)
           n == Len(f)
           z == Pads(e)
           F(p) == Bytes(e, (p - 1) \div 3)[((p - 1) % 3) + 1]
<1>1. /\ g \in Nat \ {0} /\ n \in Nat /\ n <= 3 * g /\ 3 * g <= n + 2 /\ f = [p \in 1 .. n |-> f[p]]
      /\ Len(e) = 4 * g /\ e \in Seq(TextChar) /\ z = 3 * g - n
  BY GroupCount, FrameParts, EncodedText, EncodedPads
<1>2. Len(e) > 0 /\ Len(e) % 4 = 0 /\ Len(e) \div 4 = g
  <2> DEFINE m == Len(e)
  <2> HIDE DEF m, g
  <2>1. m = 4 * g /\ g \in Nat \ {0}
    BY <1>1 DEF m
  <2>2. m > 0 /\ m % 4 = 0 /\ m \div 4 = g
    BY <2>1
  <2> QED BY <2>2 DEF m, g
<1>3. ASSUME NEW k \in 1 .. Len(e) - z PROVE e[k] \in Sextet
  <2> DEFINE i == (k - 1) \div 4
             r == ((k - 1) % 4) + 1
  <2> HIDE DEF e, g, n, z
  <2>1. i \in 0 .. g - 1 /\ r \in {1, 2, 3, 4} /\ k = 4 * i + r /\ i \in Nat
    <3>1. g \in Nat \ {0} /\ k \in 1 .. 4 * g
      BY <1>1
    <3> QED BY <3>1
  <2> HIDE DEF i, r
  <2>2. /\ e[4 * i + 1] \in Sextet /\ e[4 * i + 2] \in Sextet
        /\ (3 * i + 2 <= n => e[4 * i + 3] \in Sextet)
        /\ (3 * i + 3 <= n => e[4 * i + 4] \in Sextet)
    BY <2>1, EncodedGroup DEF e, g, n
  <2>3. r > 2 => 3 * i + r - 1 <= n
    BY <1>1, <2>1
  <2>4. CASE r = 1
    BY <2>1, <2>2, <2>4
  <2>5. CASE r = 2
    BY <2>1, <2>2, <2>5
  <2>6. CASE r = 3
    BY <1>1, <2>1, <2>2, <2>3, <2>6
  <2>7. CASE r = 4
    BY <1>1, <2>1, <2>2, <2>3, <2>7
  <2> QED BY <2>1, <2>4, <2>5, <2>6, <2>7
<1>4. tb64dec(e) = [p \in 1 .. 3 * g - z |-> F(p)]
  BY <1>2, <1>3 DEF tb64dec, Decode
<1>5. tb64dec(e) = [p \in 1 .. n |-> F(p)]
  <2>1. 3 * g - z = n
    BY <1>1
  <2> QED BY <1>4, <2>1
<1>6. ASSUME NEW p \in 1 .. n PROVE F(p) = f[p]
  <2> DEFINE i == (p - 1) \div 3
             r == ((p - 1) % 3) + 1
             a == ByteAt(f, 3 * i + 1)
             b == ByteAt(f, 3 * i + 2)
             c == ByteAt(f, 3 * i + 3)
             e1 == e[4 * i + 1]
             e2 == e[4 * i + 2]
             e3 == e[4 * i + 3]
             e4 == e[4 * i + 4]
             B == Bytes(e, i)
  <2>1. i \in 0 .. g - 1 /\ r \in {1, 2, 3} /\ p = 3 * i + r /\ i \in Nat
    <3> HIDE DEF g, n
    <3>1. g \in Nat \ {0} /\ p \in 1 .. 3 * g
      BY <1>1
    <3> QED BY <3>1
  <2>2. F(p) = B[r] /\ B = <<e1 * 4 + e2 \div 16, (e2 % 16) * 16 + e3 \div 4, (e3 % 4) * 64 + e4>>
    BY DEF Bytes
  <2> HIDE DEF i, r, B, F
  <2>3. /\ a \in Byte /\ b \in Byte /\ c \in Byte
        /\ e1 = a \div 4 /\ e2 = (a % 4) * 16 + b \div 16
        /\ (3 * i + 2 <= n => e3 = (b % 16) * 4 + c \div 64)
        /\ (3 * i + 3 <= n => e4 = c % 64)
        /\ (3 * i + 3 <= n => 3 * i + 2 <= n)
    <3>1. 3 * i + 3 <= n => 3 * i + 2 <= n
      BY <1>1, <2>1
    <3> QED BY <2>1, <3>1, EncodedGroup
  <2>4. f[p] = ByteAt(f, 3 * i + r)
    BY <1>1, <2>1 DEF ByteAt
  <2> HIDE DEF a, b, c, e1, e2, e3, e4
  <2>5. CASE r = 1
    <3>1. B[1] = a
      BY <2>2, <2>3, BytesAgain
    <3> QED BY <2>2, <2>4, <2>5, <3>1 DEF a
  <2>6. CASE r = 2
    <3>1. 3 * i + 2 <= n
      BY <1>1, <2>1, <2>6
    <3>2. B[2] = b
      BY <2>2, <2>3, <3>1, BytesAgain
    <3> QED BY <2>2, <2>4, <2>6, <3>2 DEF b
  <2>7. CASE r = 3
    <3>1. 3 * i + 3 <= n
      BY <1>1, <2>1, <2>7
    <3>2. B[3] = c
      BY <2>2, <2>3, <3>1, BytesAgain
    <3> QED BY <2>2, <2>4, <2>7, <3>2 DEF c
  <2> QED BY <2>1, <2>5, <2>6, <2>7
<1> HIDE DEF F, e, n
<1>7. [p \in 1 .. n |-> F(p)] = [p \in 1 .. n |-> f[p]]
  BY <1>6
<1> QED BY <1>1, <1>5, <1>7 DEF e

\* Characters behind the text of a frame make more bytes than its length byte says.
LEMMA LongerThanFrame ==
  ASSUME NEW f \in Frame, NEW t \in Seq(TextChar), Len(t) > Len(encode(f)),
         \A k \in 1 .. Len(encode(f)) : t[k] = encode(f)[k]
  PROVE  ~ Accepts(tb64dec(t))
<1> SUFFICES ASSUME tb64dec(t) # <<>>, tb64dec(t)[1] = Len(tb64dec(t)) PROVE FALSE
  BY DEF Accepts
<1> DEFINE e == encode(f)
           g == Groups(f)
           n == Len(f)
           z == Pads(t)
<1>1. /\ g \in Nat \ {0} /\ n \in Nat /\ n <= 3 * g /\ Len(e) = 4 * g /\ f[1] = n /\ 1 <= n
  BY GroupCount, FrameParts, EncodedText
<1>2. PICK h \in Nat \ {0} : /\ Len(t) = 4 * h /\ z \in 0 .. 2 /\ Len(tb64dec(t)) = 3 * h - z
                             /\ tb64dec(t)[1] = t[1] * 4 + t[2] \div 16
  BY DecodedBytes
<1>3. h >= g + 1
  <2> HIDE DEF g, z, e
  <2> QED BY <1>1, <1>2 DEF e
<1>4. /\ ByteAt(f, 1) \in Byte /\ ByteAt(f, 2) \in Byte /\ ByteAt(f, 3) \in Byte /\ f[1] = ByteAt(f, 1)
      /\ e[1] = ByteAt(f, 1) \div 4 /\ e[2] = (ByteAt(f, 1) % 4) * 16 + ByteAt(f, 2) \div 16
  <2>1. 0 \in 0 .. g - 1
    BY <1>1
  <2>2. 3 * 0 + 1 = 1 /\ 3 * 0 + 2 = 2 /\ 3 * 0 + 3 = 3 /\ 4 * 0 + 1 = 1 /\ 4 * 0 + 2 = 2
    OBVIOUS
  <2>3. f[1] = ByteAt(f, 1)
    BY <1>1 DEF ByteAt
  <2> HIDE DEF e
  <2> QED BY <2>1, <2>2, <2>3, EncodedGroup DEF e
<1>5. e[1] * 4 + e[2] \div 16 = f[1]
  BY <1>4, BytesAgain
<1>6. t[1] = e[1] /\ t[2] = e[2]
  <2>1. 1 \in 1 .. Len(e) /\ 2 \in 1 .. Len(e)
    BY <1>1
  <2> QED BY <2>1
<1> HIDE DEF e, g, n, z
<1>7. n = 3 * h - z
  BY <1>1, <1>2, <1>5, <1>6
<1> QED BY <1>1, <1>2, <1>3, <1>7

-----------------------------------------------------------------------------
(* The inductive invariant *)

QueueEntry == {q \in [block : Block, text : Seq(TextChar)] : Len(q.text) <= SIZE}

MemoryOK == memory \in [Block -> [1 .. SIZE -> Char]]
QueueOK == queue \in Seq(QueueEntry)
HeldOK == held \in [Block -> 0 .. SIZE]

\* A block is in the queue once.
OncePerBlock ==
  \A i, j \in DOMAIN queue : queue[i].block = queue[j].block => i = j

\* A block in the queue begins with its text, and has held as much.
HoldsText ==
  \A i \in DOMAIN queue :
    /\ held[queue[i].block] >= Len(queue[i].text)
    /\ \A k \in 1 .. Len(queue[i].text) : memory[queue[i].block][k] = queue[i].text[k]

\* Nobody has written behind what a block has held.
ZeroBehind == \A b \in Block : \A k \in held[b] + 1 .. SIZE : memory[b][k] = NUL

MemInv == MemoryOK /\ QueueOK /\ HeldOK /\ OncePerBlock /\ HoldsText /\ ZeroBehind

-----------------------------------------------------------------------------
(* What the user interface reads *)

LEMMA ArrivalType ==
  ASSUME NEW t \in Arrival
  PROVE  t \in Seq(TextChar) /\ Len(t) \in Nat /\ Len(t) <= SIZE
<1>1. t \in Damaged \/ \E f \in Frame : t = encode(f)
  BY DEF Arrival
<1>2. CASE t \in Damaged
  BY <1>2, DamagedAssumption DEF Text, TextChar
<1>3. CASE \E f \in Frame : t = encode(f)
  <2>1. PICK f \in Frame : t = encode(f)
    BY <1>3
  <2>2. encode(f) \in Seq(TextChar) /\ Len(encode(f)) <= SIZE
    BY EncodedText
  <2> HIDE DEF TextChar
  <2> QED BY <2>1, <2>2
<1> QED BY <1>1, <1>2, <1>3

\* The characters that strlen counts begin with a text at the beginning of the block,
\* and are just these when the terminator follows them.
LEMMA StrlenStarts ==
  ASSUME NEW b, memory[b] \in [1 .. SIZE -> Char],
         NEW n \in 0 .. SIZE, \A k \in 1 .. n : memory[b][k] # NUL,
         NEW t \in strlen(b)
  PROVE  /\ t \in Seq(TextChar) /\ Len(t) >= n
         /\ \A k \in 1 .. n : t[k] = memory[b][k]
         /\ n < SIZE /\ memory[b][n + 1] = NUL => Len(t) = n
         /\ (\E k \in 1 .. SIZE : memory[b][k] = NUL) => Len(t) < SIZE
<1> DEFINE w == memory[b]
           I == {i \in 1 .. Len(w) : w[i] = NUL}
           e == IF I # {} THEN Min(I) ELSE 0
           C == TextChar
<1>1. w \in Seq(Char) /\ Len(w) = SIZE /\ SIZE \in Nat /\ n \in Nat /\ n <= SIZE
  <2> HIDE DEF Char
  <2> QED BY SizeAssumption
<1>2. t \in IF e = 0 THEN {w \o v : v \in Behind} ELSE {SubSeq(w, 1, e - 1)}
  BY DEF strlen, SelectInSeq
<1>3. I # {} => Min(I) \in I /\ \A i \in I : Min(I) <= i
  <2>1. I \in SUBSET Nat
    BY <1>1
  <2> HIDE DEF I
  <2> QED BY <2>1, MinIsLeast
<1>4. e = 0 => I = {}
  BY <1>1, <1>3
<1>5. e # 0 => e \in n + 1 .. SIZE /\ w[e] = NUL /\ \A i \in I : e <= i
  <2> SUFFICES ASSUME e # 0 PROVE e \in n + 1 .. SIZE /\ w[e] = NUL /\ \A i \in I : e <= i
    OBVIOUS
  <2>1. e \in I /\ \A i \in I : e <= i
    BY <1>3
  <2> HIDE DEF e
  <2>2. e \in 1 .. SIZE /\ w[e] = NUL /\ e \notin 1 .. n
    BY <1>1, <2>1
  <2> QED BY <1>1, <2>1, <2>2
<1>6. \A k \in 1 .. SIZE : w[k] = NUL => e # 0 /\ e <= k
  BY <1>1, <1>4, <1>5
<1>7. \A k \in 1 .. SIZE : w[k] \in Char /\ (w[k] # NUL => w[k] \in C)
  BY <1>1 DEF TextChar
<1> HIDE DEF w, e, C
<1>8. ASSUME e = 0
      PROVE  /\ t \in Seq(C) /\ Len(t) >= n /\ \A k \in 1 .. n : t[k] = w[k]
  <2>1. PICK v \in Behind : t = w \o v
    BY <1>2, <1>8
  <2>2. v \in Seq(C)
    BY MemoryAssumption DEF Text, C, TextChar
  <2>3. w \in Seq(C)
    <3>1. \A k \in 1 .. Len(w) : w[k] \in C
      BY <1>1, <1>6, <1>7, <1>8
    <3>2. w \in [1 .. Len(w) -> Char] /\ Len(w) \in Nat
      BY <1>1
    <3> HIDE DEF Char
    <3>3. w = [k \in 1 .. Len(w) |-> w[k]]
      BY <3>2
    <3>4. w \in [1 .. Len(w) -> C]
      BY <3>1, <3>3
    <3> QED BY <3>2, <3>4
  <2>4. /\ w \o v \in Seq(C) /\ Len(w \o v) = Len(w) + Len(v)
        /\ \A k \in 1 .. Len(w) + Len(v) : (w \o v)[k] = IF k <= Len(w) THEN w[k] ELSE v[k - Len(w)]
    BY <2>2, <2>3, ConcatProperties
  <2>5. Len(v) \in Nat
    BY <2>2
  <2>6. Len(t) >= n
    BY <1>1, <2>1, <2>4, <2>5
  <2>7. \A k \in 1 .. n : k \in 1 .. Len(w) + Len(v) /\ k <= Len(w)
    BY <1>1, <2>5
  <2> QED BY <2>1, <2>4, <2>6, <2>7
<1>9. ASSUME e # 0
      PROVE  /\ t \in Seq(C) /\ Len(t) = e - 1 /\ e - 1 >= n /\ e - 1 < SIZE
             /\ \A k \in 1 .. n : t[k] = w[k]
  <2> DEFINE l == e - 1
  <2>1. t = SubSeq(w, 1, l)
    BY <1>2, <1>9
  <2>2. l \in Nat /\ l >= n /\ l < SIZE
    BY <1>1, <1>5, <1>9
  <2>3. \A k \in 1 .. l : w[k] \in C
    <3> SUFFICES ASSUME NEW k \in 1 .. l PROVE w[k] \in C
      OBVIOUS
    <3>1. k \in 1 .. SIZE /\ ~ (e <= k)
      BY <1>1, <1>5, <1>9
    <3> QED BY <1>6, <1>7, <3>1
  <2> HIDE DEF l
  <2>4. /\ SubSeq(w, 1, l) \in Seq(C) /\ Len(SubSeq(w, 1, l)) = l
        /\ \A k \in 1 .. l : SubSeq(w, 1, l)[k] = w[k]
    BY <2>2, <2>3, SubSeqProperties
  <2>5. \A k \in 1 .. n : t[k] = w[k]
    BY <1>1, <2>1, <2>2, <2>4
  <2> QED BY <2>1, <2>2, <2>4, <2>5 DEF l
<1>10. ASSUME n < SIZE, w[n + 1] = NUL PROVE Len(t) = n
  <2>1. e # 0 /\ e <= n + 1
    BY <1>1, <1>6, <1>10
  <2>2. e = n + 1
    BY <1>1, <1>5, <2>1
  <2> QED BY <1>1, <1>9, <2>1, <2>2
<1>11. ASSUME NEW k \in 1 .. SIZE, w[k] = NUL PROVE Len(t) < SIZE
  BY <1>6, <1>9, <1>11
<1>12. t \in Seq(C) /\ Len(t) >= n /\ \A k \in 1 .. n : t[k] = w[k]
  <2>1. CASE e = 0
    BY <1>8, <2>1
  <2>2. CASE e # 0
    BY <1>1, <1>5, <1>9, <2>2
  <2> QED BY <2>1, <2>2
<1> QED BY <1>10, <1>11, <1>12 DEF w, C

LEMMA QueuedText ==
  ASSUME MemInv, NEW q \in Range(queue)
  PROVE  /\ q \in QueueEntry /\ q.block \in Block /\ q.text \in Seq(TextChar)
         /\ Len(q.text) \in 0 .. SIZE /\ held[q.block] \in 0 .. SIZE /\ held[q.block] >= Len(q.text)
         /\ memory[q.block] \in [1 .. SIZE -> Char]
         /\ \A k \in 1 .. Len(q.text) : memory[q.block][k] = q.text[k] /\ q.text[k] # NUL
         /\ \A k \in held[q.block] + 1 .. SIZE : memory[q.block][k] = NUL
<1>1. PICK i \in DOMAIN queue : q = queue[i]
  BY DEF Range
<1>2. q \in QueueEntry
  <2> HIDE DEF QueueEntry
  <2> QED BY <1>1 DEF MemInv, QueueOK
<1>3. q.block \in Block /\ q.text \in Seq(TextChar) /\ Len(q.text) <= SIZE
  <2> HIDE DEF TextChar
  <2> QED BY <1>2 DEF QueueEntry
<1>4. /\ held[q.block] >= Len(q.text)
      /\ \A k \in 1 .. Len(q.text) : memory[q.block][k] = q.text[k]
  BY <1>1 DEF MemInv, HoldsText
<1>5. memory[q.block] \in [1 .. SIZE -> Char] /\ held[q.block] \in 0 .. SIZE
  <2> HIDE DEF Char
  <2> QED BY <1>3 DEF MemInv, MemoryOK, HeldOK
<1>6. \A k \in held[q.block] + 1 .. SIZE : memory[q.block][k] = NUL
  BY <1>3 DEF MemInv, ZeroBehind
<1>7. Len(q.text) \in 0 .. SIZE
  BY <1>3, SizeAssumption
<1>8. \A k \in 1 .. Len(q.text) : q.text[k] # NUL
  <2>1. \A k \in 1 .. Len(q.text) : q.text[k] \in TextChar
    <3> HIDE DEF TextChar
    <3> QED BY <1>3
  <2> QED BY <2>1 DEF TextChar
<1> QED BY <1>2, <1>3, <1>4, <1>5, <1>6, <1>7, <1>8

\* What is read of a block in the queue: its text, and what follows it.
LEMMA QueuedStrlen ==
  ASSUME MemInv, NEW q \in Range(queue), NEW t \in strlen(q.block)
  PROVE  /\ t \in Seq(TextChar) /\ Len(t) \in Nat /\ Len(t) >= Len(q.text)
         /\ \A k \in 1 .. Len(q.text) : t[k] = q.text[k]
         /\ Len(t) = Len(q.text) \/ Longest(q) => t = q.text
         /\ held[q.block] < SIZE => Len(t) < SIZE
<1> DEFINE b == q.block
           w == memory[b]
           s == q.text
           n == Len(s)
           h == held[b]
<1>1. /\ w \in [1 .. SIZE -> Char] /\ n \in 0 .. SIZE /\ s \in Seq(TextChar)
      /\ h \in 0 .. SIZE /\ h >= n /\ \A k \in 1 .. n : w[k] = s[k] /\ s[k] # NUL
  BY QueuedText
<1>2. \A k \in h + 1 .. SIZE : w[k] = NUL
  BY QueuedText
<1>3. /\ t \in Seq(TextChar) /\ Len(t) >= n /\ \A k \in 1 .. n : t[k] = w[k]
      /\ n < SIZE /\ w[n + 1] = NUL => Len(t) = n
  BY <1>1, StrlenStarts
<1>4. (\E k \in 1 .. SIZE : w[k] = NUL) => Len(t) < SIZE
  BY <1>1, StrlenStarts
<1>5. SIZE \in Nat
  BY SizeAssumption
<1>6. Longest(q) => n >= h /\ n < SIZE
  BY DEF Longest
<1> HIDE DEF b, w, n, h, TextChar
<1>7. \A k \in 1 .. n : t[k] = s[k]
  BY <1>1, <1>3
<1>8. ASSUME Len(t) = n PROVE t = s
  BY <1>1, <1>3, <1>7, <1>8, SeqEqual DEF n
<1>9. ASSUME Longest(q) PROVE t = s
  <2>1. n + 1 \in h + 1 .. SIZE /\ n < SIZE
    BY <1>1, <1>5, <1>6, <1>9
  <2> QED BY <1>2, <1>3, <1>8, <2>1
<1>10. ASSUME h < SIZE PROVE Len(t) < SIZE
  <2>1. h + 1 \in h + 1 .. SIZE /\ h + 1 \in 1 .. SIZE
    BY <1>1, <1>5, <1>10
  <2> QED BY <1>2, <1>4, <2>1
<1>11. Len(t) \in Nat
  BY <1>3
<1> QED BY <1>3, <1>7, <1>8, <1>9, <1>10, <1>11 DEF b, n, h

\* A frame that arrived whole and is accepted is what was sent.
LEMMA AcceptsTheFrame ==
  ASSUME MemInv, NEW q \in Range(queue), NEW t \in strlen(q.block), NEW f \in Frame,
         q.text = encode(f), Accepts(tb64dec(t))
  PROVE  t = q.text /\ tb64dec(t) = f
<1>1. /\ t \in Seq(TextChar) /\ Len(t) \in Nat /\ Len(t) >= Len(q.text)
      /\ \A k \in 1 .. Len(q.text) : t[k] = q.text[k]
      /\ Len(t) = Len(q.text) => t = q.text
  BY QueuedStrlen
<1>2. Len(q.text) \in Nat
  BY QueuedText
<1>3. ~ (Len(t) > Len(q.text))
  BY <1>1, LongerThanFrame
<1>4. t = q.text
  BY <1>1, <1>2, <1>3
<1> QED BY <1>4, EncodedDecodes

-----------------------------------------------------------------------------
(* The blocks and the queue *)

LEMMA InitMem == Init => MemInv
<1> SUFFICES ASSUME Init PROVE MemInv
  OBVIOUS
<1>1. SIZE \in Nat /\ Zeroed \in [1 .. SIZE -> Char]
  BY SizeAssumption DEF Zeroed, Char, NUL, NOT_BASE64
<1>2. MemoryOK
  <2> HIDE DEF Char
  <2> QED BY <1>1 DEF Init, MemoryOK
<1>3. QueueOK /\ OncePerBlock /\ HoldsText
  <2> HIDE DEF QueueEntry
  <2> QED BY DEF Init, QueueOK, OncePerBlock, HoldsText
<1>4. HeldOK
  BY <1>1 DEF Init, HeldOK
<1>5. ZeroBehind
  BY <1>1 DEF Init, ZeroBehind, Zeroed
<1> QED BY <1>2, <1>3, <1>4, <1>5 DEF MemInv

\* The blocks that the queue does not hold.
LEMMA NotQueued ==
  ASSUME NEW b, b \notin Queued
  PROVE  \A i \in DOMAIN queue : queue[i].block # b
BY DEF Queued, Range

\* What parse_buffer leaves in a block.
LEMMA StoredType ==
  ASSUME MemoryOK, NEW t \in Seq(TextChar), Len(t) <= SIZE, NEW b \in Block
  PROVE  /\ Stored(t, b) \in [1 .. SIZE -> Char]
         /\ \A k \in 1 .. Len(t) : Stored(t, b)[k] = t[k]
         /\ \A k \in Len(t) + 1 .. SIZE : Stored(t, b)[k] = memory[b][k]
<1> DEFINE n == Len(t)
<1>1. TextChar \subseteq Char
  BY DEF TextChar
<1> HIDE DEF TextChar, Char
<1>2. n \in Nat /\ n <= SIZE /\ SIZE \in Nat /\ \A k \in 1 .. n : t[k] \in Char
  BY <1>1, SizeAssumption
<1>3. \A k \in 1 .. SIZE : memory[b][k] \in Char
  BY DEF MemoryOK
<1>4. Stored(t, b) = [i \in 1 .. SIZE |-> IF i <= n THEN t[i] ELSE memory[b][i]]
  BY DEF Stored
<1> HIDE DEF n
<1> QED BY <1>2, <1>3, <1>4 DEF n

LEMMA ParseKeepsMem ==
  ASSUME MemInv, NEW t \in Arrival, NEW b \in Block, parse_buffer(t, b)
  PROVE  MemInv'
<1> DEFINE n == Len(t)
           r == [block |-> b, text |-> t]
           s == Stored(t, b)
<1> HIDE DEF TextChar, Char
<1>1. /\ memory \in [Block -> [1 .. SIZE -> Char]]
      /\ queue \in Seq(QueueEntry) /\ held \in [Block -> 0 .. SIZE]
  BY DEF MemInv, MemoryOK, QueueOK, HeldOK
<1>2. /\ memory' = [memory EXCEPT ![b] = s] /\ queue' = Append(queue, r)
      /\ held' = [held EXCEPT ![b] = IF @ < n THEN n ELSE @]
  BY DEF parse_buffer
<1>3. t \in Seq(TextChar) /\ n \in 0 .. SIZE /\ SIZE \in Nat
  BY ArrivalType, SizeAssumption
<1>4. /\ s \in [1 .. SIZE -> Char]
      /\ \A k \in 1 .. n : s[k] = t[k]
      /\ \A k \in n + 1 .. SIZE : s[k] = memory[b][k]
  BY <1>3, StoredType DEF MemInv
<1>5. r \in QueueEntry /\ r.block = b /\ r.text = t
  BY <1>3 DEF QueueEntry
<1>6. \A i \in DOMAIN queue : queue[i].block # b
  BY NotQueued DEF parse_buffer
<1>7. DOMAIN queue = 1 .. Len(queue) /\ Len(queue) \in Nat /\ \A i \in DOMAIN queue : queue[i] \in QueueEntry
  <2> HIDE DEF QueueEntry
  <2> QED BY <1>1
<1> HIDE DEF s, r, n, QueueEntry
<1>8. /\ queue' \in Seq(QueueEntry) /\ DOMAIN queue' = 1 .. Len(queue) + 1
      /\ queue'[Len(queue) + 1] = r /\ \A i \in DOMAIN queue : queue'[i] = queue[i]
  BY <1>1, <1>2, <1>5, <1>7
<1>9. MemoryOK'
  BY <1>1, <1>2, <1>4 DEF MemoryOK
<1>10. HeldOK'
  <2>1. held[b] \in 0 .. SIZE
    BY <1>1
  <2> QED BY <1>1, <1>2, <1>3, <2>1 DEF HeldOK
<1>11. OncePerBlock'
  BY <1>5, <1>6, <1>7, <1>8 DEF OncePerBlock, MemInv
<1>12. ASSUME NEW i \in DOMAIN queue'
       PROVE  /\ held'[queue'[i].block] >= Len(queue'[i].text)
              /\ \A k \in 1 .. Len(queue'[i].text) :
                   memory'[queue'[i].block][k] = queue'[i].text[k]
  <2>1. CASE i = Len(queue) + 1
    <3>1. queue'[i].block = b /\ queue'[i].text = t
      BY <1>5, <1>8, <2>1
    <3>2. held[b] \in 0 .. SIZE
      BY <1>1
    <3>3. memory'[b] = s /\ held'[b] >= n
      BY <1>1, <1>2, <1>3, <3>2
    <3> QED BY <1>4, <3>1, <3>3 DEF n
  <2>2. CASE i # Len(queue) + 1
    <3>1. i \in DOMAIN queue /\ queue'[i] = queue[i]
      BY <1>7, <1>8, <2>2
    <3>2. queue[i].block \in Block /\ queue[i].block # b
      BY <1>6, <1>7, <3>1 DEF QueueEntry
    <3>3. memory'[queue[i].block] = memory[queue[i].block] /\ held'[queue[i].block] = held[queue[i].block]
      BY <1>1, <1>2, <3>2
    <3> QED BY <3>1, <3>3 DEF MemInv, HoldsText
  <2> QED BY <2>1, <2>2
<1>13. ASSUME NEW c \in Block, NEW k \in held'[c] + 1 .. SIZE PROVE memory'[c][k] = NUL
  <2>1. held[c] \in 0 .. SIZE
    BY <1>1
  <2>2. CASE c = b
    <3>1. memory'[c] = s /\ held'[c] = IF held[b] < n THEN n ELSE held[b]
      BY <1>1, <1>2, <2>2
    <3>2. k \in n + 1 .. SIZE /\ k \in held[b] + 1 .. SIZE
      BY <1>3, <2>1, <2>2, <3>1
    <3> QED BY <1>4, <3>1, <3>2 DEF MemInv, ZeroBehind
  <2>3. CASE c # b
    BY <1>1, <1>2, <2>3 DEF MemInv, ZeroBehind
  <2> QED BY <2>2, <2>3
<1>14. QueueOK'
  BY <1>8 DEF QueueOK
<1>15. HoldsText'
  BY <1>12 DEF HoldsText
<1>16. ZeroBehind'
  BY <1>13 DEF ZeroBehind
<1> QED BY <1>9, <1>10, <1>11, <1>14, <1>15, <1>16 DEF MemInv

LEMMA ReuseKeepsMem ==
  ASSUME MemInv, NEW b \in Block, NEW chars \in Foreign, Reuse(b, chars)
  PROVE  MemInv'
<1> HIDE DEF Char, QueueEntry
<1>1. /\ memory \in [Block -> [1 .. SIZE -> Char]]
      /\ queue \in Seq(QueueEntry) /\ held \in [Block -> 0 .. SIZE] /\ SIZE \in Nat
  BY SizeAssumption DEF MemInv, MemoryOK, QueueOK, HeldOK
<1>2. /\ memory' = [memory EXCEPT ![b] = chars] /\ queue' = queue
      /\ held' = [held EXCEPT ![b] = IF chars = Zeroed THEN 0 ELSE SIZE]
  BY DEF Reuse
<1>3. chars \in [1 .. SIZE -> Char]
  BY MemoryAssumption
<1>4. \A i \in DOMAIN queue : queue[i].block # b /\ queue[i] \in QueueEntry
  BY <1>1, NotQueued DEF Reuse
<1>5. MemoryOK' /\ HeldOK' /\ QueueOK' /\ OncePerBlock'
  BY <1>1, <1>2, <1>3 DEF MemoryOK, HeldOK, QueueOK, OncePerBlock, MemInv
<1>6. HoldsText'
  <2> SUFFICES ASSUME NEW i \in DOMAIN queue
               PROVE  /\ memory'[queue[i].block] = memory[queue[i].block]
                      /\ held'[queue[i].block] = held[queue[i].block]
    BY <1>2 DEF HoldsText, MemInv
  <2>1. queue[i].block \in Block /\ queue[i].block # b
    BY <1>4 DEF QueueEntry
  <2> QED BY <1>1, <1>2, <2>1
<1>7. ZeroBehind'
  <2> SUFFICES ASSUME NEW c \in Block, NEW k \in held'[c] + 1 .. SIZE PROVE memory'[c][k] = NUL
    BY DEF ZeroBehind
  <2>1. CASE c = b
    <3>1. memory'[c] = chars /\ held'[c] = IF chars = Zeroed THEN 0 ELSE SIZE
      BY <1>1, <1>2, <2>1
    <3>2. chars = Zeroed /\ k \in 1 .. SIZE
      BY <1>1, <3>1
    <3> QED BY <3>1, <3>2 DEF Zeroed
  <2>2. CASE c # b
    BY <1>1, <1>2, <2>2 DEF MemInv, ZeroBehind
  <2> QED BY <2>1, <2>2
<1> QED BY <1>5, <1>6, <1>7 DEF MemInv

LEMMA HandleKeepsMem ==
  ASSUME MemInv, HandleMessage
  PROVE  MemInv'
<1>1. queue # <<>> /\ queue' = Tail(queue) /\ memory' = memory /\ held' = held
  BY DEF HandleMessage
<1> HIDE DEF QueueEntry
<1>2. queue \in Seq(QueueEntry) /\ DOMAIN queue = 1 .. Len(queue) /\ Len(queue) \in Nat
  BY DEF MemInv, QueueOK
<1>3. /\ Tail(queue) \in Seq(QueueEntry) /\ Len(Tail(queue)) = Len(queue) - 1
      /\ \A i \in 1 .. Len(Tail(queue)) : Tail(queue)[i] = queue[i + 1]
  BY <1>1, <1>2, HeadTailProperties
<1>4. /\ DOMAIN queue' = 1 .. Len(queue) - 1
      /\ \A i \in DOMAIN queue' : i + 1 \in DOMAIN queue /\ queue'[i] = queue[i + 1] /\ i \in Int
  BY <1>1, <1>2, <1>3
<1>5. QueueOK'
  BY <1>1, <1>3 DEF QueueOK
<1>6. MemoryOK' /\ HeldOK' /\ ZeroBehind'
  BY <1>1 DEF MemInv, MemoryOK, HeldOK, ZeroBehind
<1>7. OncePerBlock'
  <2> SUFFICES ASSUME NEW i \in DOMAIN queue', NEW j \in DOMAIN queue',
                      queue'[i].block = queue'[j].block
               PROVE  i = j
    BY DEF OncePerBlock
  <2>1. i + 1 = j + 1
    BY <1>4 DEF MemInv, OncePerBlock
  <2> QED BY <1>4, <2>1
<1>8. HoldsText'
  BY <1>1, <1>4 DEF HoldsText, MemInv
<1> QED BY <1>5, <1>6, <1>7, <1>8 DEF MemInv

LEMMA NextMem == MemInv /\ [Next]_vars => MemInv'
<1> SUFFICES ASSUME MemInv, [Next]_vars PROVE MemInv'
  OBVIOUS
<1>1. CASE \E t \in Arrival, b \in Block : parse_buffer(t, b)
  BY <1>1, ParseKeepsMem
<1>2. CASE \E b \in Block, chars \in Foreign : Reuse(b, chars)
  BY <1>2, ReuseKeepsMem
<1>3. CASE HandleMessage
  BY <1>3, HandleKeepsMem
<1>4. CASE UNCHANGED <<memory, queue, held>>
  BY <1>4 DEF MemInv, MemoryOK, QueueOK, HeldOK, OncePerBlock, HoldsText, ZeroBehind
<1>5. msg_handler_handle \/ Overrun \/ QueueEmpty \/ UNCHANGED vars => UNCHANGED <<memory, queue, held>>
  BY DEF msg_handler_handle, Overrun, QueueEmpty, vars
<1> QED BY <1>1, <1>2, <1>3, <1>4, <1>5 DEF Next

\* What the blocks hold, which of them are queued and what was stored in them agree.
THEOREM MemInvHolds == Spec => []MemInv
BY InitMem, NextMem, PTL DEF Spec

-----------------------------------------------------------------------------
(* What is accepted *)

\* A frame that arrived whole and is accepted decodes to itself and nothing else, whatever
\* its block held before, strlen reads behind it, and damaged texts are around.
THEOREM Accepted == Spec => []AcceptedAsSent
<1>1. MemInv => AcceptedAsSent
  BY AcceptsTheFrame DEF AcceptedAsSent
<1> QED BY <1>1, MemInvHolds, PTL

\* A whole frame at least as long as what its block has held since it was zero is accepted,
\* also when the texts before it were damaged.
THEOREM LongestAccepted == Spec => []LongestIsAccepted
<1>1. MemInv => LongestIsAccepted
  <2> SUFFICES ASSUME MemInv, NEW q \in Range(queue), NEW f \in Frame, NEW t \in strlen(q.block),
                      q.text = encode(f), Longest(q)
               PROVE  Accepts(tb64dec(t))
    BY DEF LongestIsAccepted
  <2>1. t = q.text
    BY QueuedStrlen
  <2>2. tb64dec(t) = f
    BY <2>1, EncodedDecodes
  <2>3. f # <<>> /\ f[1] = Len(f)
    BY FrameParts
  <2> QED BY <2>2, <2>3 DEF Accepts
<1> QED BY <1>1, MemInvHolds, PTL

\* A text that has lost one to three characters of its groups is rejected, whichever they
\* were, unless its block has held a longer one.
THEOREM DamageNoticed == Spec => []DamageIsNoticed
<1>1. MemInv => DamageIsNoticed
  <2> SUFFICES ASSUME MemInv, NEW q \in Range(queue), NEW t \in strlen(q.block),
                      Len(q.text) % 4 # 0, Longest(q)
               PROVE  ~ Accepts(tb64dec(t))
    BY DEF DamageIsNoticed
  <2>1. t = q.text
    BY QueuedStrlen
  <2>2. tb64dec(t) = <<>>
    BY <2>1 DEF tb64dec
  <2> QED BY <2>2 DEF Accepts
<1> QED BY <1>1, MemInvHolds, PTL

-----------------------------------------------------------------------------
(* What is done with it *)

LEMMA HeadIsQueued ==
  ASSUME MemInv, queue # <<>>
  PROVE  Head(queue) \in Range(queue)
<1>1. queue \in Seq(QueueEntry)
  BY DEF MemInv, QueueOK
<1> HIDE DEF QueueEntry
<1>2. Len(queue) \in Nat \ {0}
  BY <1>1, EmptySeq
<1>3. 1 \in DOMAIN queue /\ Head(queue) = queue[1]
  BY <1>1, <1>2
<1> QED BY <1>3 DEF Range

\* The bytes of a message that fits are where it is decoded to.
LEMMA DecodedBegins ==
  ASSUME NEW bytes, Len(bytes) \in Nat, Len(bytes) <= SIZE, NEW i \in 1 .. Len(bytes)
  PROVE  Decoded(bytes)[i] = bytes[i]
<1>1. i \in 1 .. SIZE
  BY SizeAssumption
<1> QED BY <1>1 DEF Decoded

\* A whole frame leaves in the vehicle status what it has for it.
LEMMA HandledStatus ==
  ASSUME MemInv, HandleMessage, vehicle_status' # vehicle_status,
         NEW f \in Frame, Head(queue).text = encode(f)
  PROVE  /\ f[2] = MSG_TYPE_VEHICLE_STATUS
         /\ \A i \in 1 .. STATUS : HEADER + i <= Len(f) => vehicle_status'[i] = f[HEADER + i]
<1> DEFINE q == Head(queue)
<1>1. q \in Range(queue)
  BY HeadIsQueued DEF HandleMessage
<1>2. PICK t \in strlen(q.block) :
        /\ Fits(t)
        /\ decoded_msg' = IF tb64dec(t) = <<>> THEN Uninitialised ELSE Decoded(tb64dec(t))
        /\ vehicle_status' = IF Accepts(tb64dec(t)) /\ IsStatus(decoded_msg')
                             THEN SubSeq(decoded_msg', HEADER + 1, HEADER + STATUS)
                             ELSE vehicle_status
  BY DEF HandleMessage
<1>3. /\ Accepts(tb64dec(t)) /\ IsStatus(decoded_msg')
      /\ vehicle_status' = SubSeq(decoded_msg', HEADER + 1, HEADER + STATUS)
  BY <1>2
<1>4. t = encode(f) /\ tb64dec(t) = f
  BY <1>1, <1>3, AcceptsTheFrame
<1>5. decoded_msg' = Decoded(f)
  BY <1>2, <1>3, <1>4 DEF Accepts
<1>6. /\ Len(f) \in Nat /\ Len(f) >= 2 /\ SIZE \in Nat /\ SIZE >= 6
      /\ Len(f) + 1 <= SIZE
  <2>1. Len(f) \in Nat /\ Len(f) >= 2 /\ SIZE \in Nat /\ SIZE >= 6
    BY FrameParts
  <2>2. /\ Groups(f) \in Nat \ {0} /\ Len(f) <= 3 * Groups(f) /\ Len(t) = 4 * Groups(f)
    BY <1>4, GroupCount, EncodedText
  <2>3. 3 * (Len(t) \div 4) + 1 <= SIZE
    BY <1>2 DEF Fits
  <2> DEFINE g == Groups(f)
             l == Len(t)
             n == Len(f)
  <2> HIDE DEF g, l, n
  <2>4. l = 4 * g /\ g \in Nat \ {0} /\ n <= 3 * g /\ n \in Nat /\ SIZE \in Nat /\ 3 * (l \div 4) + 1 <= SIZE
    BY <2>1, <2>2, <2>3 DEF g, l, n
  <2>5. l \div 4 = g
    BY <2>4
  <2>6. n + 1 <= SIZE
    BY <2>4, <2>5
  <2> QED BY <2>1, <2>6 DEF n
<1> DEFINE d == Decoded(f)
<1>7. \A i \in 1 .. Len(f) : d[i] = f[i]
  BY <1>6, DecodedBegins
<1>8. f[2] = MSG_TYPE_VEHICLE_STATUS
  BY <1>3, <1>5, <1>6, <1>7 DEF IsStatus
<1>9. \A i \in 1 .. 4 : SubSeq(d, 3, 6)[i] = d[i + 2]
  <2> DEFINE R == {d[i] : i \in 1 .. SIZE}
  <2>1. \A i \in 3 .. 6 : i \in 1 .. SIZE
    BY <1>6
  <2>2. \A i \in 3 .. 6 : d[i] \in R
    BY <2>1
  <2> HIDE DEF R, d
  <2>3. \A i \in 1 .. 6 - 3 + 1 : SubSeq(d, 3, 6)[i] = d[3 + i - 1]
    BY <2>2, SubSeqProperties
  <2>4. \A i \in 1 .. 4 : i \in 1 .. 6 - 3 + 1 /\ 3 + i - 1 = i + 2
    OBVIOUS
  <2> QED BY <2>3, <2>4
<1> HIDE DEF d
<1>10. vehicle_status' = SubSeq(d, 3, 6)
  BY <1>3, <1>5 DEF d, HEADER, STATUS
<1>11. ASSUME NEW i \in 1 .. 4, 2 + i <= Len(f) PROVE vehicle_status'[i] = f[2 + i]
  <2>1. i + 2 \in 1 .. Len(f) /\ i + 2 = 2 + i
    BY <1>6, <1>11
  <2> QED BY <1>7, <1>9, <1>10, <2>1
<1> QED BY <1>8, <1>11 DEF HEADER, STATUS

LEMMA OthersKeepStatus ==
  [Next]_vars /\ ~ HandleMessage => vehicle_status' = vehicle_status
BY DEF Next, parse_buffer, Reuse, msg_handler_handle, Overrun, QueueEmpty, vars

\* When a whole frame changes the vehicle status it is a status frame, and the status has
\* the bytes of the frame, all of them when it is not a short one, and no others in their place.
THEOREM StatusSent == Spec => StatusIsSent
<1>1. ASSUME MemInv, [Next]_vars
      PROVE  [\A f \in Frame :
                vehicle_status' # vehicle_status /\ Head(queue).text = encode(f) =>
                  /\ f[2] = MSG_TYPE_VEHICLE_STATUS
                  /\ \A i \in 1 .. STATUS : HEADER + i <= Len(f) => vehicle_status'[i] = f[HEADER + i]]_vars
  BY <1>1, HandledStatus, OthersKeepStatus
<1> QED BY <1>1, MemInvHolds, PTL DEF Spec, StatusIsSent

\* decoded_msg is overrun only by a message from a block filled to its end.
THEOREM BufferIsEnough == Spec => BufferSuffices
<1>1. ASSUME MemInv, Overrun PROVE held[Head(queue).block] = SIZE
  <2> DEFINE q == Head(queue)
  <2>1. q \in Range(queue)
    BY <1>1, HeadIsQueued DEF Overrun
  <2>2. PICK t \in strlen(q.block) : ~ Fits(t)
    BY <1>1 DEF Overrun
  <2>3. Len(t) \in Nat /\ (held[q.block] < SIZE => Len(t) < SIZE) /\ held[q.block] \in 0 .. SIZE
    BY <1>1, <2>1, QueuedStrlen, QueuedText
  <2>4. ~ (3 * (Len(t) \div 4) + 1 <= SIZE) /\ SIZE \in Nat /\ SIZE >= 4
    BY <2>2, SizeAssumption DEF Fits, HEADER, STATUS
  <2> DEFINE l == Len(t)
             h == held[q.block]
  <2> HIDE DEF l, h
  <2>5. l \in Nat /\ ~ (3 * (l \div 4) + 1 <= SIZE) /\ SIZE \in Nat /\ SIZE >= 4
    BY <2>3, <2>4 DEF l
  <2>6. ~ (l < SIZE)
    <3> SUFFICES ASSUME l < SIZE PROVE FALSE
      OBVIOUS
    <3> DEFINE k == l \div 4
    <3>1. k \in Nat /\ 4 * k <= l
      BY <2>5
    <3> HIDE DEF k
    <3>2. 3 * k + 1 <= SIZE
      BY <2>5, <3>1
    <3> QED BY <2>5, <3>2 DEF k
  <2>7. h \in 0 .. SIZE /\ ~ (h < SIZE)
    BY <2>3, <2>6 DEF h, l
  <2> QED BY <2>5, <2>7 DEF h
<1>2. ASSUME ~ Overrun, [Next]_vars PROVE ui # "overrun" /\ ui' = "overrun" => FALSE
  BY <1>2 DEF Next, parse_buffer, Reuse, msg_handler_handle, HandleMessage, QueueEmpty, vars
<1>3. ASSUME MemInv, [Next]_vars
      PROVE  [ui # "overrun" /\ ui' = "overrun" => held[Head(queue).block] = SIZE]_vars
  BY <1>1, <1>2, <1>3
<1> QED BY <1>3, MemInvHolds, PTL DEF Spec, BufferSuffices

=============================================================================
